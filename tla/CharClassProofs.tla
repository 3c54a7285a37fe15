-------------------------- MODULE CharClassProofs ---------------------------
(***************************************************************************)
(* Proofs about CharClass, for every class that is given, every table of   *)
(* equal letters, every sequence of calls, and every last code point.      *)
(***************************************************************************)
EXTENDS CharClass, RangesProofs, FiniteSetTheorems, SequenceTheorems, TLAPS

\* The letters of a finite set of code points are a sequence of its elements, of
\* all of them, and of as many.
LEMMA AscendingType ==
    ASSUME NEW S \in SUBSET Int, IsFiniteSet(S)
    PROVE  /\ Ascending(S) \in Seq(S)
           /\ Len(Ascending(S)) = Cardinality(S)
           /\ \A c \in S : \E k \in 1 .. Len(Ascending(S)) : Ascending(S)[k] = c
<1> DEFINE Below(c) == {d \in S : d <= c}
           f == [c \in S |-> Cardinality(Below(c))]
<1>1. Cardinality(S) \in Nat
  BY FS_CardinalityType
<1>2. ASSUME NEW c \in S PROVE Cardinality(Below(c)) \in 1 .. Cardinality(S)
  <2>1. IsFiniteSet(Below(c)) /\ Cardinality(Below(c)) <= Cardinality(S)
    BY FS_Subset
  <2>2. c \in Below(c)
    OBVIOUS
  <2>3. Cardinality(Below(c)) \in Nat /\ Cardinality(Below(c)) # 0
    BY <2>1, <2>2, FS_CardinalityType, FS_EmptySet
  <2> QED BY <1>1, <2>1, <2>3
<1>3. f \in [S -> 1 .. Cardinality(S)]
  BY <1>2
<1>4. ASSUME NEW a \in S, NEW b \in S, a < b PROVE Cardinality(Below(a)) < Cardinality(Below(b))
  <2>1. Below(a) \subseteq Below(b) /\ b \in Below(b) /\ b \notin Below(a)
    <3>1. a \in Int /\ b \in Int /\ S \subseteq Int
      OBVIOUS
    <3>2. \A d \in S : d <= a => d <= b
      BY <3>1, <1>4
    <3>3. a <= a /\ b <= b /\ ~(b <= a)
      BY <3>1, <1>4
    <3> QED BY <3>2, <3>3
  <2>2. Below(a) \in SUBSET S /\ Below(b) \in SUBSET S
    OBVIOUS
  <2> HIDE DEF Below
  <2> QED BY <2>1, <2>2, SmallerRank
<1>5. ASSUME NEW a \in S, NEW b \in S, f[a] = f[b] PROVE a = b
  <2>1. Cardinality(Below(a)) = Cardinality(Below(b))
    BY <1>5
  <2>2. a \in Int /\ b \in Int /\ Cardinality(Below(a)) \in Int
    BY <1>2
  <2>3. ~(a < b) /\ ~(b < a)
    BY <1>4, <2>1, <2>2
  <2> HIDE DEF f, Below
  <2> QED BY <2>2, <2>3, SMT
<1>6. \A k \in 1 .. Cardinality(S) : \E c \in S : f[c] = k
  <2> HIDE DEF f
  <2> QED BY <1>3, <1>5, RankOnto
<1>7. \A k \in 1 .. Cardinality(S) : \E c \in S : Cardinality(Below(c)) = k
  BY <1>6
<1>8. \A k \in 1 .. Cardinality(S) : (CHOOSE c \in S : Cardinality(Below(c)) = k) \in S
  BY <1>7
<1>9. Ascending(S) = [k \in 1 .. Cardinality(S) |-> CHOOSE c \in S : Cardinality(Below(c)) = k]
  BY DEF Ascending
<1>10. Ascending(S) \in [1 .. Cardinality(S) -> S]
  BY <1>8, <1>9
<1>11. Ascending(S) \in Seq(S) /\ Len(Ascending(S)) = Cardinality(S)
  BY <1>1, <1>10, IsSequence
<1>12. ASSUME NEW c \in S PROVE \E k \in 1 .. Cardinality(S) : Ascending(S)[k] = c
  <2> DEFINE k == Cardinality(Below(c))
             d == CHOOSE x \in S : Cardinality(Below(x)) = k
  <2>1. k \in 1 .. Cardinality(S)
    BY <1>2
  <2>2. Ascending(S)[k] = d
    BY <1>9, <2>1
  <2>3. d \in S /\ Cardinality(Below(d)) = k
    <3>1. \E x \in S : Cardinality(Below(x)) = k
      OBVIOUS
    <3> HIDE DEF k, Below
    <3> QED BY <3>1
  <2>4. f[d] = f[c]
    <3> HIDE DEF d
    <3> QED BY <2>3
  <2>5. d = c
    <3> HIDE DEF f, d, k
    <3> QED BY <1>5, <2>3, <2>4
  <2> HIDE DEF k, d
  <2> QED BY <2>1, <2>2, <2>5
<1> QED BY <1>11, <1>12

-----------------------------------------------------------------------------
(* The loop of marpatcl_scr_norm                                           *)

\* While the loop is at ranges prev and cur of what was g: the final ranges are
\* apart, the others are in order, behind the last of the final ones, and no code
\* point was lost or gained.
Merging(cr, g, prev, cur) ==
    /\ cr \in Seq(Ranged) /\ prev \in Nat /\ cur \in Nat
    /\ 1 <= prev /\ prev < cur /\ cur <= Len(cr) + 1
    /\ Apart(cr, prev)
    /\ \A k \in cur .. Len(cr) : ~Less(cr[k], cr[prev])
    /\ \A j, k \in cur .. Len(cr) : j < k => ~Less(cr[k], cr[j])
    /\ \A p \in Int : (InPart(p, cr, 1, prev) \/ InPart(p, cr, cur, Len(cr))) <=> In(p, g)

LEMMA MergingStarts ==
    ASSUME NEW g \in Seq(Ranged), Len(g) > 1
    PROVE  Merging(Sorted(g), g, 1, 2)
<1> DEFINE cr == Sorted(g)
           n == Len(g)
<1>1. /\ cr \in Seq(Ranged) /\ Len(cr) = n /\ n \in Nat
      /\ \A k \in 1 .. n : \E b \in 1 .. n : cr[k] = g[b]
      /\ \A b \in 1 .. n : \E k \in 1 .. n : cr[k] = g[b]
      /\ \A j, k \in 1 .. n : j < k => ~Less(cr[k], cr[j])
  BY SortedFacts
<1> HIDE DEF cr
<1>2. Apart(cr, 1)
  BY DEF Apart
<1>3. \A k \in 2 .. Len(cr) : ~Less(cr[k], cr[1])
  <2>1. \A k \in 2 .. n : k \in 1 .. n /\ 1 \in 1 .. n /\ 1 < k
    BY <1>1
  <2> QED BY <1>1, <2>1
<1>4. \A j, k \in 2 .. Len(cr) : j < k => ~Less(cr[k], cr[j])
  <2>1. \A k \in 2 .. n : k \in 1 .. n
    BY <1>1
  <2> QED BY <1>1, <2>1
<1>5. ASSUME NEW p \in Int
      PROVE  (InPart(p, cr, 1, 1) \/ InPart(p, cr, 2, Len(cr))) <=> In(p, g)
  <2>1. 1 .. n = (1 .. 1) \cup (2 .. n)
    BY <1>1
  <2>2. (InPart(p, cr, 1, 1) \/ InPart(p, cr, 2, Len(cr))) <=> InPart(p, cr, 1, n)
    BY <1>1, <2>1 DEF InPart
  <2>3. InPart(p, cr, 1, n) <=> InPart(p, g, 1, n)
    BY <1>1 DEF InPart
  <2> QED BY <2>2, <2>3 DEF In
<1>6. 1 \in Nat /\ 2 \in Nat /\ 1 <= 1 /\ 1 < 2 /\ 2 <= Len(cr) + 1
  BY <1>1
<1> QED BY <1>1, <1>2, <1>3, <1>4, <1>5, <1>6 DEF Merging, cr

LEMMA MergingExtends ==
    ASSUME NEW cr, NEW g, NEW prev, NEW cur, Merging(cr, g, prev, cur),
           cur <= Len(cr), Overlaps(cr[prev], cr[cur])
    PROVE  Merging([cr EXCEPT ![prev] = Extended(cr[prev], cr[cur])], g, prev, cur + 1)
<1> DEFINE n == Len(cr)
           e == Extended(cr[prev], cr[cur])
           new == [cr EXCEPT ![prev] = e]
<1>1. /\ cr \in Seq(Ranged) /\ n \in Nat /\ prev \in 1 .. n /\ cur \in 1 .. n
      /\ prev < cur /\ prev \in Nat /\ cur \in Nat
  BY DEF Merging
<1>2. cr[prev] \in Ranged /\ cr[cur] \in Ranged /\ \A k \in 1 .. n : cr[k] \in Ranged
  BY <1>1, RangedAt
<1>3. ~Less(cr[cur], cr[prev])
  BY <1>1 DEF Merging
<1>4. /\ e \in Ranged /\ e.start = cr[prev].start
      /\ \A p \in Int : (e.start <= p /\ p <= e.end)
           <=> \/ cr[prev].start <= p /\ p <= cr[prev].end
               \/ cr[cur].start <= p /\ p <= cr[cur].end
      /\ \A d \in Ranged : ~Less(d, cr[prev]) /\ ~Less(d, cr[cur]) => ~Less(d, e)
  BY <1>2, <1>3, ExtendedCovers
<1> HIDE DEF e
<1>5. /\ new \in Seq(Ranged) /\ Len(new) = n /\ new[prev] = e
      /\ \A k \in 1 .. n : k # prev => new[k] = cr[k]
  BY <1>1, <1>4
<1> HIDE DEF new
<1>6. Apart(new, prev)
  <2> SUFFICES ASSUME NEW j \in 1 .. prev, NEW k \in 1 .. prev, j < k
               PROVE  new[j].end + 1 < new[k].start
    BY DEF Apart
  <2>1. j # prev /\ j \in 1 .. n /\ k \in 1 .. n
    BY <1>1
  <2>2. new[j] = cr[j] /\ new[k].start = cr[k].start
    BY <1>4, <1>5, <2>1
  <2>3. cr[j].end + 1 < cr[k].start
    BY <1>1 DEF Merging, Apart
  <2> QED BY <2>2, <2>3
<1>7. ASSUME NEW k \in cur + 1 .. n PROVE k \in cur .. n /\ k \in 1 .. n /\ new[k] = cr[k] /\ cur < k
  BY <1>1, <1>5
<1>8. ASSUME NEW k \in cur + 1 .. n PROVE ~Less(new[k], new[prev])
  <2>1. ~Less(cr[k], cr[prev]) /\ ~Less(cr[k], cr[cur])
    <3>1. cur \in cur .. n
      BY <1>1
    <3> QED BY <1>7, <3>1 DEF Merging
  <2> QED BY <1>2, <1>4, <1>5, <1>7, <2>1
<1>9. \A j, k \in cur + 1 .. n : j < k => ~Less(new[k], new[j])
  BY <1>7 DEF Merging
<1>10. ASSUME NEW p \in Int
       PROVE  (InPart(p, new, 1, prev) \/ InPart(p, new, cur + 1, n)) <=> In(p, g)
  <2>1. 1 .. prev = (1 .. prev - 1) \cup {prev} /\ cur .. n = {cur} \cup (cur + 1 .. n)
    BY <1>1
  <2>2. \A k \in 1 .. prev - 1 : new[k] = cr[k]
    BY <1>1, <1>5
  <2>3. InPart(p, new, 1, prev) <=> InPart(p, cr, 1, prev - 1) \/ (e.start <= p /\ p <= e.end)
    BY <1>5, <2>1, <2>2 DEF InPart
  <2>4. InPart(p, cr, 1, prev)
          <=> InPart(p, cr, 1, prev - 1) \/ (cr[prev].start <= p /\ p <= cr[prev].end)
    BY <2>1 DEF InPart
  <2>5. InPart(p, cr, cur, n)
          <=> InPart(p, cr, cur + 1, n) \/ (cr[cur].start <= p /\ p <= cr[cur].end)
    BY <2>1 DEF InPart
  <2>6. InPart(p, new, cur + 1, n) <=> InPart(p, cr, cur + 1, n)
    BY <1>7 DEF InPart
  <2>7. (InPart(p, cr, 1, prev) \/ InPart(p, cr, cur, n)) <=> In(p, g)
    BY DEF Merging
  <2>8. (e.start <= p /\ p <= e.end)
          <=> \/ cr[prev].start <= p /\ p <= cr[prev].end
              \/ cr[cur].start <= p /\ p <= cr[cur].end
    BY <1>4
  <2> QED BY <2>3, <2>4, <2>5, <2>6, <2>7, <2>8
<1>11. cur + 1 \in Nat /\ prev < cur + 1 /\ cur + 1 <= n + 1 /\ 1 <= prev
  BY <1>1
<1>12. Merging(new, g, prev, cur + 1)
  BY <1>1, <1>5, <1>6, <1>8, <1>9, <1>10, <1>11 DEF Merging
<1> QED BY <1>12 DEF new, e

LEMMA MergingShifts ==
    ASSUME NEW cr, NEW g, NEW prev, NEW cur, Merging(cr, g, prev, cur),
           cur <= Len(cr), ~Overlaps(cr[prev], cr[cur])
    PROVE  Merging([cr EXCEPT ![prev + 1] = cr[cur]], g, prev + 1, cur + 1)
<1> DEFINE n == Len(cr)
           c == cr[cur]
           new == [cr EXCEPT ![prev + 1] = c]
<1>1. /\ cr \in Seq(Ranged) /\ n \in Nat /\ prev \in 1 .. n /\ cur \in 1 .. n
      /\ prev + 1 \in 1 .. n /\ prev < cur /\ prev \in Nat /\ cur \in Nat
  BY DEF Merging
<1>2. /\ c \in Ranged /\ c.start \in Int /\ c.end \in Int
      /\ \A k \in 1 .. n : cr[k] \in Ranged /\ cr[k].start \in Int /\ cr[k].end \in Int
  BY <1>1, RangedAt
<1>3. cr[prev].end + 1 < c.start
  BY <1>1, <1>2 DEF Overlaps
<1> HIDE DEF c
<1>4. /\ new \in Seq(Ranged) /\ Len(new) = n /\ new[prev + 1] = c
      /\ \A k \in 1 .. n : k # prev + 1 => new[k] = cr[k]
  BY <1>1, <1>2
<1> HIDE DEF new
<1>5. ~Less(c, cr[prev])
  BY <1>1 DEF Merging, c
<1>6. cr[prev].start <= c.start
  BY <1>1, <1>2, <1>5 DEF Less
<1>7. Apart(new, prev + 1)
  <2> SUFFICES ASSUME NEW j \in 1 .. prev + 1, NEW k \in 1 .. prev + 1, j < k
               PROVE  new[j].end + 1 < new[k].start
    BY DEF Apart
  <2>1. j \in 1 .. prev /\ j \in 1 .. n /\ new[j] = cr[j]
    BY <1>1, <1>4
  <2>2. CASE k = prev + 1
    <3>1. CASE j = prev
      BY <1>3, <1>4, <2>1, <2>2, <3>1
    <3>2. CASE j # prev
      <4>1. prev \in 1 .. prev /\ j < prev
        BY <1>1, <2>1, <3>2
      <4>2. cr[j].end + 1 < cr[prev].start
        BY <2>1, <4>1 DEF Merging, Apart
      <4> QED BY <1>1, <1>2, <1>4, <1>6, <2>1, <2>2, <4>2
    <3> QED BY <3>1, <3>2
  <2>3. CASE k # prev + 1
    <3>1. k \in 1 .. prev /\ k \in 1 .. n /\ new[k] = cr[k]
      BY <1>1, <1>4, <2>3
    <3>2. cr[j].end + 1 < cr[k].start
      BY <2>1, <3>1 DEF Merging, Apart
    <3> QED BY <2>1, <3>1, <3>2
  <2> QED BY <2>2, <2>3
<1>8. ASSUME NEW k \in cur + 1 .. n
      PROVE  k \in cur .. n /\ cur \in cur .. n /\ new[k] = cr[k] /\ cur < k
  BY <1>1, <1>4
<1>9. ASSUME NEW k \in cur + 1 .. n PROVE ~Less(new[k], new[prev + 1])
  <2>1. ~Less(cr[k], cr[cur])
    BY <1>8 DEF Merging
  <2> QED BY <1>4, <1>8, <2>1 DEF c
<1>10. \A j, k \in cur + 1 .. n : j < k => ~Less(new[k], new[j])
  BY <1>8 DEF Merging
<1>11. ASSUME NEW p \in Int
       PROVE  (InPart(p, new, 1, prev + 1) \/ InPart(p, new, cur + 1, n)) <=> In(p, g)
  <2>1. 1 .. prev + 1 = (1 .. prev) \cup {prev + 1} /\ cur .. n = {cur} \cup (cur + 1 .. n)
    BY <1>1
  <2>2. \A k \in 1 .. prev : new[k] = cr[k]
    BY <1>1, <1>4
  <2>3. InPart(p, new, 1, prev + 1) <=> InPart(p, cr, 1, prev) \/ (c.start <= p /\ p <= c.end)
    BY <1>4, <2>1, <2>2 DEF InPart
  <2>4. InPart(p, cr, cur, n) <=> InPart(p, cr, cur + 1, n) \/ (c.start <= p /\ p <= c.end)
    BY <2>1 DEF InPart, c
  <2>5. InPart(p, new, cur + 1, n) <=> InPart(p, cr, cur + 1, n)
    BY <1>8 DEF InPart
  <2>6. (InPart(p, cr, 1, prev) \/ InPart(p, cr, cur, n)) <=> In(p, g)
    BY DEF Merging
  <2> QED BY <2>3, <2>4, <2>5, <2>6
<1>12. /\ prev + 1 \in Nat /\ cur + 1 \in Nat /\ 1 <= prev + 1
       /\ prev + 1 < cur + 1 /\ cur + 1 <= n + 1
  BY <1>1
<1>13. Merging(new, g, prev + 1, cur + 1)
  BY <1>4, <1>7, <1>9, <1>10, <1>11, <1>12 DEF Merging
<1> QED BY <1>13 DEF new, c

\* What the loop leaves is a canonical class with the points it was given.
LEMMA MergingEnds ==
    ASSUME NEW cr, NEW g, NEW prev, NEW cur, Merging(cr, g, prev, cur), cur > Len(cr)
    PROVE  LET new == SubSeq(cr, 1, prev)
           IN  /\ new \in Seq(Ranged) /\ Len(new) = prev
               /\ \A k \in 1 .. prev : new[k] = cr[k]
               /\ Apart(new, Len(new))
               /\ \A p \in Int : In(p, new) <=> In(p, g)
<1> DEFINE n == Len(cr)
           new == SubSeq(cr, 1, prev)
<1>1. cr \in Seq(Ranged) /\ n \in Nat /\ prev \in 1 .. n /\ cur = n + 1 /\ cur \in Nat
  BY DEF Merging
<1>2. new \in Seq(Ranged) /\ Len(new) = prev /\ \A k \in 1 .. prev : new[k] = cr[k]
  BY <1>1
<1> HIDE DEF new
<1>3. Apart(new, prev)
  BY <1>2 DEF Merging, Apart
<1>4. ASSUME NEW p \in Int PROVE In(p, new) <=> In(p, g)
  <2>1. cur .. n = {}
    BY <1>1
  <2>2. ~InPart(p, cr, cur, n)
    BY <2>1 DEF InPart
  <2>3. InPart(p, cr, 1, prev) <=> In(p, g)
    BY <2>2 DEF Merging
  <2>4. InPart(p, new, 1, prev) <=> InPart(p, cr, 1, prev)
    BY <1>2 DEF InPart
  <2> QED BY <1>2, <2>3, <2>4 DEF In
<1> QED BY <1>2, <1>3, <1>4 DEF new

-----------------------------------------------------------------------------
(* The inductive invariant of normalisation                                *)

Names == {"arg", "temp"}
Class == [cr : Seq(Ranged), canon : BOOLEAN]

\* Which call is at which place, what it may rely on there, and which class is
\* being changed.
ControlInv ==
    /\ pc \in {"unfold", "dup"} => op = "unfold"
    /\ pc \in {"norm", "merge"} /\ work = "temp" => op = "unfold"
    /\ pc = "negate" => op \in {"negate", "negate-smp"}
    /\ pc \in {"encode", "merge2"} => op \in {"asbr", "assr"}
    /\ pc \in {"call", "negate", "unfold", "encode", "merge2"} => scr["arg"].canon
    /\ pc = "unfold" => ~scr["temp"].canon
    /\ pc = "merge" => ~scr[work].canon
    /\ op \in {"negate", "negate-smp", "unfold"} /\ pc \in {"norm", "merge", "call", "negate", "unfold"}
         => arg # << >>

MergeInv == pc = "merge" => Merging(scr[work].cr, given[work], previous, current)

\* What the flag stands for.
CanonInv ==
    \A w \in Names :
      scr[w].canon => /\ Apart(scr[w].cr, Len(scr[w].cr))
                      /\ \A p \in Int : In(p, scr[w].cr) <=> In(p, given[w])

LoopTypes == i \in Nat /\ code \in Int

NormInv == TypeOK /\ LoopTypes /\ ControlInv /\ MergeInv /\ CanonInv

\* An array of at most one range is canonical.
LEMMA ShortApart ==
    ASSUME NEW cr \in Seq(Ranged), Len(cr) <= 1
    PROVE  Apart(cr, Len(cr))
BY DEF Apart

LEMMA NormInit == Init => NormInv
<1> SUFFICES ASSUME Init PROVE NormInv
  OBVIOUS
<1>1. PICK l \in Lists : scr = [w \in Names |-> IF w = "arg" THEN [cr |-> l, canon |-> FALSE]
                                                          ELSE [cr |-> << >>, canon |-> FALSE]]
  BY DEF Init, Empty, Names
<1>2. l \in Seq(Ranged) /\ << >> \in Seq(Ranged)
  BY ListsAssumption DEF Ranged
<1>3. scr \in [Names -> Class] /\ \A w \in Names : ~scr[w].canon
  BY <1>1, <1>2 DEF Names, Class
<1>4. given \in [Names -> Seq(Ranged)]
  BY <1>2 DEF Init, Names
<1>5. TypeOK
  BY <1>3, <1>4, OpsAssumption DEF Init, TypeOK, Names, Class, Ranged
<1>6. LoopTypes
  BY DEF Init, LoopTypes
<1>7. ControlInv
  BY <1>3 DEF Init, ControlInv, Names
<1>8. MergeInv /\ CanonInv
  BY <1>3 DEF Init, MergeInv, CanonInv
<1> QED BY <1>5, <1>6, <1>7, <1>8 DEF NormInv

\* Steps that leave both classes and the merge loop alone.
LEMMA NormSame ==
    ASSUME NormInv, UNCHANGED normVars, pc # "merge", pc' # "merge",
           pc' \in {"start", "norm", "call", "dup", "negate", "unfold", "encode", "merge2", "done"},
           op' \in Calls, flags' \in FlagSets, LoopTypes', ControlInv'
    PROVE  NormInv'
<1>1. TypeOK'
  BY DEF NormInv, TypeOK, normVars
<1>2. MergeInv' /\ CanonInv'
  BY DEF NormInv, MergeInv, CanonInv, normVars
<1> QED BY <1>1, <1>2 DEF NormInv

\* The types as they are used below.
LEMMA Typed ==
    ASSUME NormInv
    PROVE  /\ scr \in [Names -> Class] /\ given \in [Names -> Seq(Ranged)] /\ work \in Names
           /\ arg \in Seq(Ranged) /\ scr[work].cr \in Seq(Ranged) /\ given[work] \in Seq(Ranged)
           /\ \A w \in Names : scr[w].cr \in Seq(Ranged) /\ scr[w].canon \in BOOLEAN
           /\ i \in Nat /\ code \in Int
<1>1. scr \in [Names -> Class] /\ given \in [Names -> Seq(Ranged)] /\ work \in Names
  BY DEF NormInv, TypeOK, Names, Class, Ranged
<1>2. \A w \in Names : scr[w].cr \in Seq(Ranged) /\ scr[w].canon \in BOOLEAN
  BY <1>1 DEF Class
<1>3. "arg" \in Names
  BY DEF Names
<1> QED BY <1>1, <1>2, <1>3 DEF arg, NormInv, LoopTypes

LEMMA NormKnownStep == NormInv /\ NormKnown => NormInv'
<1> SUFFICES ASSUME NormInv, NormKnown PROVE NormInv'
  OBVIOUS
<1>1. pc = "norm" /\ scr[work].canon /\ UNCHANGED << normVars, op, flags, i, code >>
  BY DEF NormKnown, loopVars
<1>2. work \in Names /\ op \in Calls /\ flags \in FlagSets /\ LoopTypes /\ ControlInv
  BY DEF NormInv, TypeOK, Names
<1>3. (pc' = "call" /\ work = "arg") \/ (pc' = "dup" /\ work = "temp")
  BY <1>2 DEF NormKnown, AfterNorm, Names
<1>4. LoopTypes'
  BY <1>1, <1>2 DEF LoopTypes
<1>5. ControlInv'
  BY <1>1, <1>2, <1>3 DEF ControlInv, normVars, arg
<1> QED BY <1>1, <1>2, <1>3, <1>4, <1>5, NormSame

\* Steps that change one class, which stays the argument of the call.
LEMMA ClassChanged ==
    ASSUME NormInv, NEW r \in Class, scr' = [scr EXCEPT ![work] = r],
           pc \in {"norm", "merge"}, UNCHANGED << work, op, flags, i, code >>,
           r.cr = << >> => scr[work].cr = << >>,
           \/ pc' = "merge" /\ ~r.canon
           \/ pc' = AfterNorm /\ r.canon
    PROVE  /\ scr' \in [Names -> Class] /\ scr'[work] = r
           /\ \A w \in Names : w # work => scr'[w] = scr[w]
           /\ pc' \in {"merge", "call", "dup"} /\ work' \in Names
           /\ op' \in Calls /\ flags' \in FlagSets
           /\ LoopTypes' /\ ControlInv'
<1>1. scr \in [Names -> Class] /\ work \in Names /\ op \in Calls /\ flags \in FlagSets
  BY Typed DEF NormInv, TypeOK
<1>2. /\ scr' \in [Names -> Class] /\ scr'[work] = r
      /\ \A w \in Names : w # work => scr'[w] = scr[w]
  BY <1>1
<1>3. \/ pc' = "merge" /\ ~r.canon
      \/ pc' = "call" /\ work = "arg" /\ r.canon
      \/ pc' = "dup" /\ work = "temp" /\ r.canon
  BY <1>1 DEF AfterNorm, Names
<1>4. "arg" \in Names /\ "temp" \in Names
  BY DEF Names
<1>5. scr["arg"].cr # << >> => scr'["arg"].cr # << >>
  BY <1>2, <1>4
<1>6. LoopTypes'
  BY DEF NormInv, LoopTypes
<1>7. ControlInv
  BY DEF NormInv
<1>8. pc' = "call" => scr'["arg"].canon
  BY <1>2, <1>3
<1>9. pc' = "merge" => ~scr'[work].canon
  BY <1>2, <1>3
<1>10. op \in {"negate", "negate-smp", "unfold"} => scr'["arg"].cr # << >>
  BY <1>5, <1>7 DEF ControlInv, arg
<1>11. pc' \in {"merge", "dup"} /\ work = "temp" => op = "unfold"
  BY <1>7 DEF ControlInv
<1>12. pc' = "dup" => op = "unfold"
  BY <1>3, <1>11
<1>13. ControlInv'
  BY <1>3, <1>8, <1>9, <1>10, <1>11, <1>12 DEF ControlInv, arg
<1> QED BY <1>1, <1>2, <1>3, <1>6, <1>13

LEMMA NormShortStep == NormInv /\ NormShort => NormInv'
<1> SUFFICES ASSUME NormInv, NormShort PROVE NormInv'
  OBVIOUS
<1> DEFINE c == scr[work].cr
           r == [scr[work] EXCEPT !.canon = TRUE]
<1>1. /\ pc = "norm" /\ Len(c) <= 1 /\ UNCHANGED << work, op, flags, i, code, previous, current >>
      /\ scr' = [scr EXCEPT ![work] = r] /\ given' = [given EXCEPT ![work] = c]
      /\ pc' = AfterNorm
  BY DEF NormShort, loopVars
<1>2. work \in Names /\ c \in Seq(Ranged) /\ given \in [Names -> Seq(Ranged)]
  BY Typed
<1>3. r \in Class /\ r.cr = c /\ r.canon
  <2>1. scr[work] \in Class
    BY Typed
  <2> QED BY <2>1 DEF Class
<1>4. /\ scr' \in [Names -> Class] /\ scr'[work] = r
      /\ \A w \in Names : w # work => scr'[w] = scr[w]
      /\ pc' \in {"call", "dup"} /\ work' \in Names
      /\ op' \in Calls /\ flags' \in FlagSets
      /\ LoopTypes' /\ ControlInv'
  <2> HIDE DEF r
  <2>1. r.cr = << >> => scr[work].cr = << >>
    BY <1>3
  <2>2. pc \in {"norm", "merge"} /\ pc' # "merge"
    BY <1>1 DEF AfterNorm
  <2> QED BY <1>1, <1>3, <2>1, <2>2, ClassChanged
<1>5. given' \in [Names -> Seq(Ranged)] /\ given'[work] = c
      /\ \A w \in Names : w # work => given'[w] = given[w]
  BY <1>1, <1>2
<1>6. TypeOK'
  BY <1>1, <1>4, <1>5 DEF NormInv, TypeOK, Names, Class, Ranged
<1>7. CanonInv'
  <2>1. Apart(c, Len(c))
    BY <1>1, <1>2, ShortApart
  <2>2. CanonInv
    BY DEF NormInv
  <2> HIDE DEF c, r
  <2>3. ASSUME NEW w \in Names, scr'[w].canon
        PROVE  /\ Apart(scr'[w].cr, Len(scr'[w].cr))
               /\ \A p \in Int : In(p, scr'[w].cr) <=> In(p, given'[w])
    <3>1. CASE w = work
      BY <1>3, <1>4, <1>5, <2>1, <3>1
    <3>2. CASE w # work
      BY <1>4, <1>5, <2>2, <2>3, <3>2 DEF CanonInv
    <3> QED BY <3>1, <3>2
  <2> QED BY <2>3 DEF CanonInv
<1>8. MergeInv'
  BY <1>4 DEF MergeInv
<1> QED BY <1>4, <1>6, <1>7, <1>8 DEF NormInv

\* What there is to show of a step of the loop: its invariant, for the new array.
LEMMA LoopStep ==
    ASSUME NormInv, NEW new \in Seq(Ranged), pc \in {"norm", "merge"}, ~scr[work].canon,
           scr' = [scr EXCEPT ![work].cr = new], pc' = "merge",
           UNCHANGED << work, op, flags, i, code >>,
           new = << >> => scr[work].cr = << >>,
           given' \in [Names -> Seq(Ranged)], \A w \in Names : w # work => given'[w] = given[w],
           Merging(new, given'[work], previous', current')
    PROVE  NormInv'
<1> DEFINE r == [scr[work] EXCEPT !.cr = new]
<1>1. r \in Class /\ r.cr = new /\ ~r.canon /\ scr' = [scr EXCEPT ![work] = r]
  <2>1. scr[work] \in Class
    BY Typed
  <2> QED BY <2>1 DEF Class
<1> HIDE DEF r
<1>2. /\ scr' \in [Names -> Class] /\ scr'[work] = r
      /\ \A w \in Names : w # work => scr'[w] = scr[w]
      /\ work' \in Names /\ op' \in Calls /\ flags' \in FlagSets
      /\ LoopTypes' /\ ControlInv'
  BY <1>1, ClassChanged
<1>3. MergeInv'
  BY <1>1, <1>2 DEF MergeInv
<1>4. TypeOK'
  <2>1. /\ previous' \in Nat /\ current' \in Nat /\ 1 <= previous' /\ previous' < current'
        /\ current' <= Len(scr'[work'].cr) + 1
    BY <1>1, <1>2 DEF Merging
  <2> QED BY <1>2, <2>1 DEF TypeOK, Names, Class, Ranged
<1>5. CanonInv'
  BY <1>1, <1>2 DEF NormInv, CanonInv
<1> QED BY <1>2, <1>3, <1>4, <1>5 DEF NormInv

LEMMA NormSortStep == NormInv /\ NormSort => NormInv'
<1> SUFFICES ASSUME NormInv, NormSort PROVE NormInv'
  OBVIOUS
<1> DEFINE c == scr[work].cr
<1>1. /\ pc = "norm" /\ ~scr[work].canon /\ Len(c) > 1 /\ UNCHANGED << work, op, flags, i, code >>
      /\ scr' = [scr EXCEPT ![work].cr = Sorted(c)] /\ given' = [given EXCEPT ![work] = c]
      /\ pc' = "merge" /\ previous' = 1 /\ current' = 2
  BY DEF NormSort, loopVars
<1>2. work \in Names /\ c \in Seq(Ranged) /\ given \in [Names -> Seq(Ranged)]
  BY Typed
<1> HIDE DEF c
<1>3. /\ given' \in [Names -> Seq(Ranged)] /\ given'[work] = c
      /\ \A w \in Names : w # work => given'[w] = given[w]
  BY <1>1, <1>2
<1>4. Merging(Sorted(c), given'[work], previous', current')
  BY <1>1, <1>2, <1>3, MergingStarts
<1>5. Sorted(c) \in Seq(Ranged) /\ Sorted(c) # << >>
  BY <1>1, <1>2, SortedFacts
<1> QED BY <1>1, <1>3, <1>4, <1>5, LoopStep

LEMMA MergeExtendStep == NormInv /\ MergeExtend => NormInv'
<1> SUFFICES ASSUME NormInv, MergeExtend PROVE NormInv'
  OBVIOUS
<1> DEFINE c == scr[work].cr
           new == [c EXCEPT ![previous] = Extended(c[previous], c[current])]
<1>1. /\ pc = "merge" /\ current <= Len(c) /\ Overlaps(c[previous], c[current])
      /\ UNCHANGED << work, op, flags, i, code, given, previous >>
      /\ scr' = [scr EXCEPT ![work].cr[previous] = Extended(c[previous], c[current])]
      /\ pc' = "merge" /\ current' = current + 1
  BY DEF MergeExtend, loopVars
<1>2. scr' = [scr EXCEPT ![work].cr = new]
  BY <1>1
<1>3. work \in Names /\ given \in [Names -> Seq(Ranged)] /\ ~scr[work].canon
  BY <1>1, Typed DEF NormInv, ControlInv
<1>4. Merging(c, given[work], previous, current)
  BY <1>1 DEF NormInv, MergeInv
<1>5. Merging(new, given[work], previous, current + 1)
  BY <1>1, <1>4, MergingExtends
<1>6. new \in Seq(Ranged)
  BY <1>5 DEF Merging
<1>7. new # << >>
  <2> HIDE DEF new
  <2> QED BY <1>5 DEF Merging
<1> HIDE DEF new
<1> QED BY <1>1, <1>2, <1>3, <1>5, <1>6, <1>7, LoopStep

LEMMA MergeShiftStep == NormInv /\ MergeShift => NormInv'
<1> SUFFICES ASSUME NormInv, MergeShift PROVE NormInv'
  OBVIOUS
<1> DEFINE c == scr[work].cr
           new == [c EXCEPT ![previous + 1] = c[current]]
<1>1. /\ pc = "merge" /\ current <= Len(c) /\ ~Overlaps(c[previous], c[current])
      /\ UNCHANGED << work, op, flags, i, code, given >>
      /\ scr' = [scr EXCEPT ![work].cr[previous + 1] = c[current]]
      /\ pc' = "merge" /\ previous' = previous + 1 /\ current' = current + 1
  BY DEF MergeShift, loopVars
<1>2. scr' = [scr EXCEPT ![work].cr = new]
  BY <1>1
<1>3. work \in Names /\ given \in [Names -> Seq(Ranged)] /\ ~scr[work].canon
  BY <1>1, Typed DEF NormInv, ControlInv
<1>4. Merging(c, given[work], previous, current)
  BY <1>1 DEF NormInv, MergeInv
<1>5. Merging(new, given[work], previous + 1, current + 1)
  BY <1>1, <1>4, MergingShifts
<1>6. new \in Seq(Ranged)
  BY <1>5 DEF Merging
<1>7. new # << >>
  <2> HIDE DEF new
  <2> QED BY <1>5 DEF Merging
<1> HIDE DEF new
<1> QED BY <1>1, <1>2, <1>3, <1>5, <1>6, <1>7, LoopStep

LEMMA MergeLastStep == NormInv /\ MergeLast => NormInv'
<1> SUFFICES ASSUME NormInv, MergeLast PROVE NormInv'
  OBVIOUS
<1> DEFINE c == scr[work].cr
           new == SubSeq(c, 1, previous)
           r == [cr |-> new, canon |-> TRUE]
<1>1. /\ pc = "merge" /\ current > Len(c)
      /\ UNCHANGED << work, op, flags, i, code, given, previous, current >>
      /\ scr' = [scr EXCEPT ![work] = r]
      /\ pc' = AfterNorm
  BY DEF MergeLast, loopVars
<1>2. work \in Names /\ given \in [Names -> Seq(Ranged)]
  BY Typed
<1>3. Merging(c, given[work], previous, current)
  BY <1>1 DEF NormInv, MergeInv
<1>4. /\ new \in Seq(Ranged) /\ Len(new) = previous
      /\ Apart(new, Len(new))
      /\ \A p \in Int : In(p, new) <=> In(p, given[work])
  BY <1>1, <1>3, MergingEnds
<1>5. previous \in Nat /\ 1 <= previous
  BY <1>3 DEF Merging
<1> HIDE DEF new
<1>6. r \in Class /\ r.canon /\ r.cr = new /\ r.cr # << >>
  BY <1>4, <1>5 DEF Class
<1> HIDE DEF r
<1>7. /\ scr' \in [Names -> Class] /\ scr'[work] = r
      /\ \A w \in Names : w # work => scr'[w] = scr[w]
      /\ pc' \in {"call", "dup"} /\ work' \in Names
      /\ op' \in Calls /\ flags' \in FlagSets
      /\ LoopTypes' /\ ControlInv'
  <2>1. pc' # "merge"
    BY <1>1 DEF AfterNorm
  <2> QED BY <1>1, <1>6, <2>1, ClassChanged
<1>8. TypeOK'
  BY <1>1, <1>7, <1>2 DEF NormInv, TypeOK, Names, Class, Ranged
<1>9. CanonInv'
  BY <1>1, <1>2, <1>4, <1>6, <1>7 DEF NormInv, CanonInv
<1>10. MergeInv'
  BY <1>7 DEF MergeInv
<1> QED BY <1>7, <1>8, <1>9, <1>10 DEF NormInv

LEMMA NormStep == NormInv /\ Norm => NormInv'
BY NormKnownStep, NormShortStep, NormSortStep, MergeExtendStep, MergeShiftStep, MergeLastStep
   DEF Norm

LEMMA StartStep == NormInv /\ Start => NormInv'
<1> SUFFICES ASSUME NormInv, Start PROVE NormInv'
  OBVIOUS
<1>1. /\ pc = "start" /\ pc' = "norm" /\ work' = "arg"
      /\ UNCHANGED << scr, given, previous, current, op, flags, i, code >>
      /\ ~(arg = << >> /\ op \in {"negate", "negate-smp", "unfold"})
  BY DEF Start, loopVars
<1>2. TypeOK'
  BY <1>1 DEF NormInv, TypeOK
<1>3. LoopTypes'
  BY <1>1 DEF NormInv, LoopTypes
<1>4. ControlInv'
  BY <1>1 DEF ControlInv, arg
<1>5. MergeInv' /\ CanonInv'
  BY <1>1 DEF NormInv, MergeInv, CanonInv
<1> QED BY <1>2, <1>3, <1>4, <1>5 DEF NormInv

LEMMA CallNormStep == NormInv /\ CallNorm => NormInv'
<1> SUFFICES ASSUME NormInv, CallNorm PROVE NormInv'
  OBVIOUS
<1>1. pc = "call" /\ pc' = "done" /\ UNCHANGED << normVars, op, flags, i, code >>
  BY DEF CallNorm
<1>2. op' \in Calls /\ flags' \in FlagSets /\ LoopTypes' /\ ControlInv'
  BY <1>1 DEF NormInv, TypeOK, LoopTypes, ControlInv
<1> QED BY <1>1, <1>2, NormSame

LEMMA AgainStep == NormInv /\ (\E o \in Ops, f \in Flags : Again(o, f)) => NormInv'
<1> SUFFICES ASSUME NormInv, NEW o \in Ops, NEW f \in Flags, Again(o, f) PROVE NormInv'
  OBVIOUS
<1>1. pc = "done" /\ pc' = "start" /\ op' = o /\ flags' = f /\ UNCHANGED << normVars, i, code >>
  BY DEF Again
<1>2. op' \in Calls /\ flags' \in FlagSets
  BY <1>1, OpsAssumption
<1>3. LoopTypes' /\ ControlInv'
  BY <1>1 DEF NormInv, LoopTypes, ControlInv
<1> QED BY <1>1, <1>2, <1>3, NormSame

LEMMA NegateStep == NormInv /\ Negate => NormInv'
<1> SUFFICES ASSUME NormInv, Negate PROVE NormInv'
  OBVIOUS
<1>1. op \in Calls /\ flags \in FlagSets /\ i \in Nat /\ code \in Int /\ ControlInv
  BY DEF NormInv, TypeOK, LoopTypes
<1>2. CASE NegateEmpty
  <2>1. pc = "start" /\ pc' = "done" /\ UNCHANGED << normVars, op, flags, i, code >>
    BY <1>2 DEF NegateEmpty
  <2>2. LoopTypes' /\ ControlInv'
    BY <1>1, <2>1 DEF LoopTypes, ControlInv
  <2> QED BY <1>1, <2>1, <2>2, NormSame
<1>3. CASE NegateBegin
  <2>1. /\ pc = "call" /\ pc' \in {"negate", "done"} /\ op \in {"negate", "negate-smp"}
        /\ UNCHANGED << normVars, op, flags, code >> /\ i' = 1
    BY <1>3 DEF NegateBegin
  <2>2. LoopTypes'
    BY <1>1, <2>1 DEF LoopTypes
  <2>3. ControlInv'
    BY <1>1, <2>1 DEF ControlInv, normVars, arg
  <2> QED BY <1>1, <2>1, <2>2, <2>3, NormSame
<1>4. CASE NegateRange
  <2>1. pc = "negate" /\ UNCHANGED << normVars, pc, op, flags, code >> /\ i' = i + 1
    BY <1>4 DEF NegateRange
  <2>2. LoopTypes'
    BY <1>1, <2>1 DEF LoopTypes
  <2>3. ControlInv'
    BY <1>1, <2>1 DEF ControlInv, normVars, arg
  <2> QED BY <1>1, <2>1, <2>2, <2>3, NormSame
<1>5. CASE NegateRest
  <2>1. pc = "negate" /\ pc' = "done" /\ UNCHANGED << normVars, op, flags, i, code >>
    BY <1>5 DEF NegateRest
  <2>2. LoopTypes' /\ ControlInv'
    BY <1>1, <2>1 DEF LoopTypes, ControlInv
  <2> QED BY <1>1, <2>1, <2>2, NormSame
<1> QED BY <1>2, <1>3, <1>4, <1>5 DEF Negate

\* The loops over the code points stay with code points.
LEMMA NextCodeType ==
    ASSUME NormInv, NextCode, i >= 1, i <= Len(arg)
    PROVE  /\ i' \in Nat /\ code' \in Int
           /\ i' >= 1 /\ i' <= Len(arg) + 1
<1>1. arg \in Seq(Ranged) /\ i \in Nat /\ code \in Int
  BY Typed
<1>2. CASE code < arg[i].end
  BY <1>1, <1>2 DEF NextCode
<1>3. CASE ~(code < arg[i].end)
  <2>1. i' = i + 1 /\ code' = IF i < Len(arg) THEN arg[i+1].start ELSE code
    BY <1>3 DEF NextCode
  <2>2. i < Len(arg) => arg[i+1].start \in Int
    <3>1. i < Len(arg) => i + 1 \in 1 .. Len(arg)
      BY <1>1
    <3> QED BY <1>1, <3>1, RangedAt
  <2> QED BY <1>1, <2>1, <2>2
<1> QED BY <1>2, <1>3

\* The loops over the ranges stay in the class.
LoopInv ==
    /\ pc \in {"negate", "unfold", "encode", "merge2"} => 1 <= i /\ i <= Len(arg) + 1
    /\ pc = "merge2" => i <= Len(arg)

LEMMA EncodeStep == NormInv /\ LoopInv /\ Encode => NormInv'
<1> SUFFICES ASSUME NormInv, LoopInv, Encode PROVE NormInv'
  OBVIOUS
<1>1. op \in Calls /\ flags \in FlagSets /\ i \in Nat /\ code \in Int /\ ControlInv
  BY DEF NormInv, TypeOK, LoopTypes
<1>2. CASE EncodeBegin
  <2>1. /\ pc = "call" /\ pc' = "encode" /\ op \in {"asbr", "assr"}
        /\ UNCHANGED << normVars, op, flags >> /\ i' = 1
        /\ code' = IF arg = << >> THEN 0 ELSE arg[1].start
    BY <1>2 DEF EncodeBegin
  <2>2. LoopTypes'
    <3>1. arg \in Seq(Ranged)
      BY Typed
    <3>2. arg # << >> => 1 \in 1 .. Len(arg)
      BY <3>1
    <3>3. code' \in Int
      BY <2>1, <3>1, <3>2, RangedAt
    <3> QED BY <2>1, <3>3 DEF LoopTypes
  <2>3. ControlInv'
    BY <1>1, <2>1 DEF ControlInv, normVars
  <2> QED BY <1>1, <2>1, <2>2, <2>3, NormSame
<1>3. CASE EncodeCode
  <2>1. pc = "encode" /\ pc' = "merge2" /\ UNCHANGED << normVars, op, flags, i, code >>
    BY <1>3 DEF EncodeCode
  <2>2. LoopTypes' /\ ControlInv'
    BY <1>1, <2>1 DEF LoopTypes, ControlInv, normVars
  <2> QED BY <1>1, <2>1, <2>2, NormSame
<1>4. CASE MergeTop
  <2>1. pc = "merge2" /\ UNCHANGED << normVars, pc, op, flags, i, code >>
    BY <1>4 DEF MergeTop
  <2>2. LoopTypes' /\ ControlInv'
    BY <1>1, <2>1 DEF LoopTypes, ControlInv, normVars
  <2> QED BY <1>1, <2>1, <2>2, NormSame
<1>5. CASE MergeTopEnd
  <2>1. pc = "merge2" /\ pc' = "encode" /\ UNCHANGED << normVars, op, flags >> /\ NextCode
    BY <1>5 DEF MergeTopEnd
  <2>2. LoopTypes'
    BY <1>1, <2>1, NextCodeType DEF LoopTypes, LoopInv
  <2>3. ControlInv'
    BY <1>1, <2>1 DEF ControlInv, normVars
  <2> QED BY <1>1, <2>1, <2>2, <2>3, NormSame
<1>6. CASE EncodeEnd
  <2>1. pc = "encode" /\ pc' = "done" /\ UNCHANGED << normVars, op, flags, i, code >>
    BY <1>6 DEF EncodeEnd
  <2>2. LoopTypes' /\ ControlInv'
    BY <1>1, <2>1 DEF LoopTypes, ControlInv
  <2> QED BY <1>1, <2>1, <2>2, NormSame
<1> QED BY <1>2, <1>3, <1>4, <1>5, <1>6 DEF Encode

LEMMA UnfoldedFacts ==
    ASSUME NEW c \in Int
    PROVE  /\ Unfolded(c) \in SUBSET Int /\ IsFiniteSet(Unfolded(c))
           /\ Cardinality(Unfolded(c)) \in Nat /\ Cardinality(Unfolded(c)) <= FoldMax
<1>1. CASE \E f \in FoldClasses : c \in f
  <2>1. PICK f \in FoldClasses : Unfolded(c) = f
    BY <1>1 DEF Unfolded
  <2>2. f \subseteq 0 .. UniMax /\ Cardinality(f) <= FoldMax
    BY FoldAssumption DEF Codes
  <2>3. IsFiniteSet(0 .. UniMax)
    BY UniAssumption, FS_Interval
  <2>4. 0 .. UniMax \subseteq Int
    BY UniAssumption
  <2>5. IsFiniteSet(f)
    BY <2>2, <2>3, FS_Subset
  <2> QED BY <2>1, <2>2, <2>4, <2>5, FS_CardinalityType
<1>2. CASE ~ \E f \in FoldClasses : c \in f
  <2>1. Unfolded(c) = {c}
    BY <1>2 DEF Unfolded
  <2>2. IsFiniteSet({c}) /\ Cardinality({c}) = 1
    BY FS_Singleton
  <2> QED BY <2>1, <2>2, FoldAssumption
<1> QED BY <1>1, <1>2

\* The letters of a code point, as ranges: no more than there is room for, and no
\* other letters.
LEMMA LettersType ==
    ASSUME NEW c \in Int, NEW letters, letters = Ascending(Unfolded(c)),
           NEW more, more = [k \in 1 .. Len(letters) |-> [start |-> letters[k], end |-> letters[k]]]
    PROVE  /\ more \in Seq(Ranged) /\ Len(more) <= FoldMax
           /\ \A p \in Int : In(p, more) <=> p \in Unfolded(c)
<1>1. /\ Unfolded(c) \in SUBSET Int /\ IsFiniteSet(Unfolded(c))
      /\ Cardinality(Unfolded(c)) \in Nat /\ Cardinality(Unfolded(c)) <= FoldMax
  BY UnfoldedFacts
<1>2. /\ letters \in Seq(Unfolded(c)) /\ Len(letters) = Cardinality(Unfolded(c))
      /\ \A x \in Unfolded(c) : \E k \in 1 .. Len(letters) : letters[k] = x
  BY <1>1, AscendingType
<1>3. letters \in Seq(Int) /\ Len(letters) \in Nat
      /\ \A k \in 1 .. Len(letters) : letters[k] \in Unfolded(c) /\ letters[k] \in Int
  BY <1>1, <1>2
<1>4. \A k \in 1 .. Len(letters) : [start |-> letters[k], end |-> letters[k]] \in Ranged
  BY <1>3 DEF Ranged
<1>5. more \in Seq(Ranged) /\ Len(more) = Len(letters)
  BY <1>3, <1>4, IsSequence
<1>6. \A k \in 1 .. Len(letters) : more[k].start = letters[k] /\ more[k].end = letters[k]
  <2> TAKE k \in 1 .. Len(letters)
  <2> DEFINE x == letters[k]
  <2>1. more[k] = [start |-> x, end |-> x]
    OBVIOUS
  <2> HIDE DEF x
  <2>2. more[k].start = x /\ more[k].end = x
    BY <2>1
  <2> QED BY <2>2 DEF x
<1>7. ASSUME NEW p \in Int PROVE In(p, more) <=> p \in Unfolded(c)
  <2>1. In(p, more) <=> \E k \in 1 .. Len(letters) : letters[k] <= p /\ p <= letters[k]
    BY <1>5, <1>6 DEF In, InPart
  <2>2. \A k \in 1 .. Len(letters) : (letters[k] <= p /\ p <= letters[k]) <=> p = letters[k]
    BY <1>3
  <2>3. In(p, more) <=> \E k \in 1 .. Len(letters) : p = letters[k]
    BY <2>1, <2>2
  <2> QED BY <1>2, <1>3, <2>3
<1> QED BY <1>1, <1>2, <1>5, <1>7

\* Steps that change the temporary class, which is not flagged.
LEMMA TempChanged ==
    ASSUME NormInv, NEW r \in Class, ~r.canon, scr' = [scr EXCEPT !["temp"] = r],
           UNCHANGED << work, given, previous, current, op, flags >>,
           pc \in {"call", "unfold"}, pc' = "unfold", op = "unfold", LoopTypes'
    PROVE  NormInv' /\ arg' = arg
<1>1. "arg" \in Names /\ "temp" \in Names /\ scr \in [Names -> Class] /\ "arg" # "temp"
  BY Typed DEF Names
<1>2. scr' \in [Names -> Class] /\ scr'["temp"] = r /\ scr'["arg"] = scr["arg"]
  BY <1>1
<1>3. TypeOK'
  BY <1>2 DEF NormInv, TypeOK, Names, Class, Ranged
<1>4. ControlInv'
  BY <1>2 DEF NormInv, ControlInv, arg
<1>5. MergeInv'
  BY DEF MergeInv
<1>6. CanonInv'
  BY <1>2 DEF NormInv, CanonInv, Names
<1> QED BY <1>2, <1>3, <1>4, <1>5, <1>6 DEF NormInv, arg

LEMMA UnfoldBeginStep == NormInv /\ UnfoldBegin => NormInv' /\ arg' = arg
<1> SUFFICES ASSUME NormInv, UnfoldBegin PROVE NormInv' /\ arg' = arg
  OBVIOUS
<1> DEFINE r == [cr |-> << >>, canon |-> FALSE]
<1>1. /\ pc = "call" /\ op = "unfold" /\ scr' = [scr EXCEPT !["temp"] = r]
      /\ i' = 1 /\ code' = arg[1].start /\ pc' = "unfold"
      /\ UNCHANGED << work, given, previous, current, op, flags >>
  BY DEF UnfoldBegin
<1>2. r \in Class /\ ~r.canon
  BY DEF Class, Ranged
<1>3. arg # << >> /\ arg \in Seq(Ranged)
  BY <1>1, Typed DEF NormInv, ControlInv
<1>4. 1 \in 1 .. Len(arg)
  BY <1>3
<1>5. LoopTypes'
  BY <1>1, <1>3, <1>4, RangedAt DEF LoopTypes
<1> QED BY <1>1, <1>2, <1>5, TempChanged

LEMMA UnfoldCodeStep ==
    NormInv /\ LoopInv /\ UnfoldCode => NormInv' /\ arg' = arg /\ i' >= 1 /\ i' <= Len(arg) + 1
<1> SUFFICES ASSUME NormInv, LoopInv, UnfoldCode
             PROVE  NormInv' /\ arg' = arg /\ i' >= 1 /\ i' <= Len(arg) + 1
  OBVIOUS
<1> DEFINE letters == Ascending(Unfolded(code))
           more == [k \in 1 .. Len(letters) |-> [start |-> letters[k], end |-> letters[k]]]
           r == [scr["temp"] EXCEPT !.cr = scr["temp"].cr \o more]
<1>1. /\ pc = "unfold" /\ i <= Len(arg) /\ NextCode /\ pc' = "unfold"
      /\ scr' = [scr EXCEPT !["temp"] = r]
      /\ UNCHANGED << work, given, previous, current, op, flags >>
  BY DEF UnfoldCode
<1>2. scr["temp"] \in Class /\ ~scr["temp"].canon /\ op = "unfold" /\ code \in Int /\ i >= 1
  BY <1>1, Typed DEF NormInv, ControlInv, Names, LoopInv
<1>3. more \in Seq(Ranged)
  BY <1>2, LettersType
<1> HIDE DEF more
<1>4. r \in Class /\ ~r.canon
  <2> DEFINE t == scr["temp"]
  <2>1. t \in [cr : Seq(Ranged), canon : BOOLEAN] /\ ~t.canon
    BY <1>2 DEF Class
  <2> HIDE DEF t
  <2>2. t.cr \in Seq(Ranged)
    BY <2>1
  <2>3. t.cr \o more \in Seq(Ranged)
    BY <1>3, <2>2
  <2>4. [t EXCEPT !.cr = t.cr \o more] \in Class /\ ~[t EXCEPT !.cr = t.cr \o more].canon
    BY <2>1, <2>3 DEF Class
  <2> QED BY <2>4 DEF t
<1> HIDE DEF r
<1>5. i' \in Nat /\ code' \in Int /\ i' >= 1 /\ i' <= Len(arg) + 1
  BY <1>1, <1>2, NextCodeType
<1>6. LoopTypes'
  BY <1>5 DEF LoopTypes
<1> QED BY <1>1, <1>2, <1>4, <1>5, <1>6, TempChanged

LEMMA UnfoldStep == NormInv /\ LoopInv /\ Unfold => NormInv'
<1> SUFFICES ASSUME NormInv, LoopInv, Unfold PROVE NormInv'
  OBVIOUS
<1>1. op \in Calls /\ flags \in FlagSets /\ i \in Nat /\ code \in Int /\ ControlInv
  BY DEF NormInv, TypeOK, LoopTypes
<1>2. CASE UnfoldEmpty
  <2>1. pc = "start" /\ pc' = "done" /\ UNCHANGED << normVars, op, flags, i, code >>
    BY <1>2 DEF UnfoldEmpty
  <2>2. LoopTypes' /\ ControlInv'
    BY <1>1, <2>1 DEF LoopTypes, ControlInv
  <2> QED BY <1>1, <2>1, <2>2, NormSame
<1>3. CASE UnfoldEnd
  <2>1. /\ pc = "unfold" /\ pc' = "norm" /\ work' = "temp"
        /\ UNCHANGED << scr, given, previous, current, op, flags, i, code >>
    BY <1>3 DEF UnfoldEnd, loopVars
  <2>2. TypeOK'
    BY <2>1 DEF NormInv, TypeOK
  <2>3. LoopTypes' /\ ControlInv'
    BY <1>1, <2>1 DEF LoopTypes, ControlInv, arg
  <2>4. MergeInv' /\ CanonInv'
    BY <2>1 DEF NormInv, MergeInv, CanonInv
  <2> QED BY <2>2, <2>3, <2>4 DEF NormInv
<1>4. CASE UnfoldDup
  <2>1. pc = "dup" /\ pc' = "done" /\ UNCHANGED << normVars, op, flags, i, code >>
    BY <1>4 DEF UnfoldDup
  <2>2. LoopTypes' /\ ControlInv'
    BY <1>1, <2>1 DEF LoopTypes, ControlInv
  <2> QED BY <1>1, <2>1, <2>2, NormSame
<1> QED BY <1>2, <1>3, <1>4, UnfoldBeginStep, UnfoldCodeStep DEF Unfold

LEMMA LoopInit == Init => LoopInv
BY DEF Init, LoopInv

\* At most places there is no loop over the ranges of the argument.
LEMMA NoLoop ==
    ASSUME pc' \notin {"negate", "unfold", "encode", "merge2"}
    PROVE  LoopInv'
BY DEF LoopInv

\* A loop begins with the first range, whose end is not looked at yet.
LEMMA LoopBegins ==
    ASSUME NormInv, i' = 1, scr'["arg"] = scr["arg"], pc' # "merge2"
    PROVE  LoopInv'
<1>1. arg' = arg /\ arg \in Seq(Ranged)
  BY Typed DEF arg
<1>2. Len(arg) \in Nat
  BY <1>1
<1> QED BY <1>1, <1>2 DEF LoopInv

LEMMA NegateLoop == NormInv /\ LoopInv /\ Negate => LoopInv'
<1> SUFFICES ASSUME NormInv, LoopInv, Negate PROVE LoopInv'
  OBVIOUS
<1>1. CASE NegateEmpty
  BY <1>1, NoLoop DEF NegateEmpty
<1>2. CASE NegateBegin
  <2>1. i' = 1 /\ scr' = scr /\ pc' \in {"done", "negate"}
    BY <1>2 DEF NegateBegin, normVars
  <2> QED BY <2>1, LoopBegins
<1>3. CASE NegateRange
  <2>1. /\ pc = "negate" /\ pc' = "negate" /\ i <= Len(arg) /\ i' = i + 1 /\ arg' = arg
    BY <1>3 DEF NegateRange, normVars, arg
  <2>2. i \in Nat /\ arg \in Seq(Ranged) /\ 1 <= i
    BY <2>1, Typed DEF NormInv, LoopTypes, LoopInv
  <2>3. Len(arg) \in Nat
    BY <2>2
  <2>4. 1 <= i' /\ i' <= Len(arg) + 1
    BY <2>1, <2>2, <2>3
  <2> QED BY <2>1, <2>4 DEF LoopInv
<1>4. CASE NegateRest
  BY <1>4, NoLoop DEF NegateRest
<1> QED BY <1>1, <1>2, <1>3, <1>4 DEF Negate

LEMMA EncodeLoop == NormInv /\ LoopInv /\ Encode => LoopInv'
<1> SUFFICES ASSUME NormInv, LoopInv, Encode PROVE LoopInv'
  OBVIOUS
<1>1. CASE EncodeBegin
  <2>1. i' = 1 /\ scr' = scr /\ pc' = "encode"
    BY <1>1 DEF EncodeBegin, normVars
  <2> QED BY <2>1, LoopBegins
<1>2. CASE EncodeCode
  <2>1. pc = "encode" /\ pc' = "merge2" /\ i <= Len(arg) /\ i' = i /\ arg' = arg
    BY <1>2 DEF EncodeCode, normVars, arg
  <2> QED BY <2>1 DEF LoopInv
<1>3. CASE MergeTop
  <2>1. pc = "merge2" /\ pc' = pc /\ i' = i /\ arg' = arg
    BY <1>3 DEF MergeTop, normVars, arg
  <2> QED BY <2>1 DEF LoopInv
<1>4. CASE MergeTopEnd
  <2>1. pc = "merge2" /\ pc' = "encode" /\ arg' = arg /\ NextCode
    BY <1>4 DEF MergeTopEnd, normVars, arg
  <2>2. i' >= 1 /\ i' <= Len(arg) + 1
    BY <2>1, NextCodeType DEF NormInv, LoopInv, LoopTypes
  <2>3. i' \in Nat /\ arg \in Seq(Ranged)
    BY <2>1, Typed, NextCodeType DEF NormInv, LoopInv, LoopTypes
  <2>4. 1 <= i'
    BY <2>2, <2>3
  <2> QED BY <2>1, <2>2, <2>4 DEF LoopInv
<1>5. CASE EncodeEnd
  BY <1>5, NoLoop DEF EncodeEnd
<1> QED BY <1>1, <1>2, <1>3, <1>4, <1>5 DEF Encode

LEMMA UnfoldLoop == NormInv /\ LoopInv /\ Unfold => LoopInv'
<1> SUFFICES ASSUME NormInv, LoopInv, Unfold PROVE LoopInv'
  OBVIOUS
<1>1. CASE UnfoldEmpty \/ UnfoldEnd \/ UnfoldDup
  BY <1>1, NoLoop DEF UnfoldEmpty, UnfoldEnd, UnfoldDup
<1>2. CASE UnfoldBegin
  <2>1. i' = 1 /\ pc' = "unfold" /\ scr' = [scr EXCEPT !["temp"] = [cr |-> << >>, canon |-> FALSE]]
    BY <1>2 DEF UnfoldBegin
  <2>2. "arg" \in Names /\ "arg" # "temp" /\ scr \in [Names -> Class]
    BY Typed DEF Names
  <2>3. scr'["arg"] = scr["arg"]
    BY <2>1, <2>2
  <2> QED BY <2>1, <2>3, LoopBegins
<1>3. CASE UnfoldCode
  <2>1. arg' = arg /\ i' >= 1 /\ i' <= Len(arg) + 1
    BY <1>3, UnfoldCodeStep
  <2>2. pc' = "unfold" /\ i' \in Nat
    BY <1>3, UnfoldCodeStep DEF UnfoldCode, NormInv, LoopTypes
  <2>3. 1 <= i'
    BY <2>1, <2>2
  <2> QED BY <2>1, <2>2, <2>3 DEF LoopInv
<1> QED BY <1>1, <1>2, <1>3 DEF Unfold

LEMMA NormInvStep == NormInv /\ LoopInv /\ [Next]_vars => NormInv' /\ LoopInv'
<1> SUFFICES ASSUME NormInv, LoopInv, [Next]_vars PROVE NormInv' /\ LoopInv'
  OBVIOUS
<1>1. CASE Start
  BY <1>1, StartStep, NoLoop DEF Start
<1>2. CASE CallNorm
  BY <1>2, CallNormStep, NoLoop DEF CallNorm
<1>3. CASE Norm
  <2>1. pc' \notin {"negate", "unfold", "encode", "merge2"}
    BY <1>3 DEF Norm, NormKnown, NormShort, NormSort, MergeExtend, MergeShift, MergeLast, AfterNorm
  <2> QED BY <1>3, <2>1, NormStep, NoLoop
<1>4. CASE Negate
  BY <1>4, NegateStep, NegateLoop
<1>5. CASE Unfold
  BY <1>5, UnfoldStep, UnfoldLoop
<1>6. CASE Encode
  BY <1>6, EncodeStep, EncodeLoop
<1>7. CASE \E o \in Ops, f \in Flags : Again(o, f)
  <2>1. pc' = "start"
    BY <1>7 DEF Again
  <2> QED BY <1>7, <2>1, AgainStep, NoLoop
<1>8. CASE UNCHANGED vars
  <2>1. UNCHANGED << normVars, pc, op, flags, i, code >>
    BY <1>8 DEF vars, normVars
  <2>2. LoopTypes' /\ ControlInv'
    BY <2>1 DEF NormInv, LoopTypes, ControlInv, normVars, arg
  <2>3. TypeOK' /\ MergeInv' /\ CanonInv'
    BY <2>1 DEF NormInv, TypeOK, MergeInv, CanonInv, normVars
  <2>4. LoopInv'
    BY <2>1 DEF LoopInv, arg, normVars
  <2> QED BY <2>2, <2>3, <2>4 DEF NormInv
<1> QED BY <1>1, <1>2, <1>3, <1>4, <1>5, <1>6, <1>7, <1>8 DEF Next

\* The types, the flag, and the loop of the merge are right at every step.
THEOREM NormInvariant == Spec => [](NormInv /\ LoopInv)
<1>1. Init => NormInv /\ LoopInv
  BY NormInit, LoopInit
<1>2. (NormInv /\ LoopInv) /\ [Next]_vars => (NormInv /\ LoopInv)'
  BY NormInvStep
<1> QED BY <1>1, <1>2, PTL DEF Spec

\* The indices of the loop that merges in place stay inside of the array (scr.c:177-205).
THEOREM TypeCorrect == Spec => []TypeOK
<1>1. NormInv /\ LoopInv => TypeOK
  BY DEF NormInv
<1> QED BY <1>1, NormInvariant, PTL

\* At every step of that loop the array covers the code points it was given.
THEOREM PointsKept == Spec => []SamePoints
<1>1. NormInv /\ LoopInv => SamePoints
  <2> SUFFICES ASSUME NormInv, NEW p \in Probes
               PROVE  /\ \A w \in Names : scr[w].canon => (In(p, scr[w].cr) <=> In(p, given[w]))
                      /\ pc = "merge" =>
                           ((InPart(p, scr[work].cr, 1, previous)
                             \/ InPart(p, scr[work].cr, current, Len(scr[work].cr)))
                               <=> In(p, given[work]))
    BY DEF SamePoints, Names
  <2>1. p \in Int
    BY WordsAssumption
  <2>2. \A w \in Names : scr[w].canon => (In(p, scr[w].cr) <=> In(p, given[w]))
    BY <2>1, Zenon DEF NormInv, CanonInv
  <2>3. ASSUME pc = "merge"
        PROVE  (InPart(p, scr[work].cr, 1, previous)
                  \/ InPart(p, scr[work].cr, current, Len(scr[work].cr)))
                 <=> In(p, given[work])
    BY <2>1, <2>3 DEF NormInv, MergeInv, Merging
  <2> QED BY <2>2, <2>3
<1> QED BY <1>1, NormInvariant, PTL

\* The flag `canon` is never set on a class that is not sorted, or that has ranges
\* without a gap between them.
THEOREM CanonTrue == Spec => []CanonIsTruth
<1>1. NormInv /\ LoopInv => CanonIsTruth
  <2> SUFFICES ASSUME NormInv, NEW w \in Names, scr[w].canon PROVE Canonical(scr[w].cr)
    BY DEF CanonIsTruth, Names
  <2>1. Apart(scr[w].cr, Len(scr[w].cr))
    BY DEF NormInv, CanonInv
  <2>2. scr[w].cr \in Seq(Ranged)
    BY Typed
  <2> HIDE DEF NormInv
  <2>3. Len(scr[w].cr) \in Nat
    BY <2>2
  <2> QED BY <2>1, <2>3 DEF Apart, Canonical
<1> QED BY <1>1, NormInvariant, PTL

-----------------------------------------------------------------------------
(***************************************************************************)
(* marpatcl_scr_complement yields exactly what the class has not, and as   *)
(* many ranges as it computed in advance: for every class, both kinds of   *)
(* complement, and after any calls before.                                 *)
(***************************************************************************)

\* The ranges of a class are between two code points.
AllFit(cr, low) == Within(cr, low, UniMax)

\* The class a complement is asked of lies in the planes it is taken in.
FitInv == AllFit(arg, Bottom) /\ (op = "negate-smp" => arg # << >>)

\* Where the loop over the ranges of the class is, the result has their complement;
\* at the end it has all of it.
NegateInv ==
    /\ pc = "negate" => /\ Partial(out, arg, i - 1, Bottom, cmin)
                        /\ room = ComplementSize(arg)
    /\ pc = "done" /\ op \in {"negate", "negate-smp"} =>
         /\ \A p \in Int : In(p, out) <=> (p \in Bottom .. UniMax /\ ~In(p, arg))
         /\ Len(out) = room
         /\ Canonical(out)

-----------------------------------------------------------------------------
(* The class stays in the planes of the call                               *)

LEMMA BottomType == Bottom \in Int /\ Bottom >= 0
BY DEF Bottom, BmpMax

LEMMA FitInit == Init => FitInv
<1> SUFFICES ASSUME Init PROVE FitInv
  OBVIOUS
<1>1. PICK l \in Lists : scr = [w \in {"arg", "temp"} |->
                                 IF w = "arg" THEN [cr |-> l, canon |-> FALSE] ELSE Empty]
  BY DEF Init
<1>2. arg = l /\ l \in Seq(Ranged)
  BY <1>1, ListsAssumption DEF arg, Ranged
<1>3. op = "negate-smp" => arg # << >> /\ \A k \in 1 .. Len(arg) : arg[k].start > BmpMax
  BY DEF Init, Allowed
<1>4. ASSUME NEW k \in 1 .. Len(l)
      PROVE  Bottom <= l[k].start /\ l[k].start <= l[k].end /\ l[k].end <= UniMax
  <2>1. l[k].start \in Int /\ l[k].end \in Int
    BY <1>2, RangedAt
  <2>2. l[k].start \in 0 .. UniMax /\ l[k].end \in 0 .. UniMax /\ l[k].start <= l[k].end
    BY <1>1, ListsAssumption DEF IsRange, Codes
  <2>3. op = "negate-smp" => l[k].start > BmpMax
    BY <1>2, <1>3
  <2> QED BY <2>1, <2>2, <2>3, UniAssumption DEF Bottom, BmpMax
<1> QED BY <1>2, <1>3, <1>4 DEF FitInv, AllFit, Within

LEMMA FitSame ==
    ASSUME FitInv, arg' = arg, op' = op
    PROVE  FitInv'
BY DEF FitInv, AllFit, Within, Bottom

LEMMA FitAgain == NormInv /\ FitInv /\ (\E o \in Ops, f \in Flags : Again(o, f)) => FitInv'
<1> SUFFICES ASSUME NormInv, FitInv, NEW o \in Ops, NEW f \in Flags, Again(o, f) PROVE FitInv'
  OBVIOUS
<1>1. arg' = arg /\ op' = o /\ Allowed(o, f, arg)
  BY DEF Again, normVars, arg
<1>2. o = "negate-smp" => arg # << >> /\ \A k \in 1 .. Len(arg) : arg[k].start > BmpMax
  BY <1>1 DEF Allowed
<1>3. ASSUME NEW k \in 1 .. Len(arg)
      PROVE  Bottom' <= arg[k].start /\ arg[k].start <= arg[k].end /\ arg[k].end <= UniMax
  <2>1. arg[k].start \in Int /\ arg[k].end \in Int
    BY Typed, RangedAt
  <2>2. Bottom <= arg[k].start /\ arg[k].start <= arg[k].end /\ arg[k].end <= UniMax
    BY DEF FitInv, AllFit, Within
  <2>3. Bottom' = IF o = "negate-smp" THEN BmpMax + 1 ELSE 0
    BY <1>1 DEF Bottom
  <2>4. o = "negate-smp" => arg[k].start > BmpMax
    BY <1>2
  <2> QED BY <2>1, <2>2, <2>3, <2>4, BottomType DEF BmpMax
<1> QED BY <1>1, <1>2, <1>3 DEF FitInv, AllFit, Within

\* A step on one of the two classes, which may be the argument.
LEMMA FitChanged ==
    ASSUME NormInv, FitInv, op' = op, NEW r \in Class, scr' = [scr EXCEPT ![work] = r],
           AllFit(scr[work].cr, Bottom) => AllFit(r.cr, Bottom),
           r.cr = << >> => scr[work].cr = << >>
    PROVE  FitInv'
<1>1. work \in Names /\ scr \in [Names -> Class] /\ "arg" \in Names
  BY Typed DEF Names
<1>2. CASE work = "arg"
  <2>1. arg' = r.cr /\ scr[work].cr = arg
    BY <1>1, <1>2 DEF arg
  <2> QED BY <2>1 DEF FitInv, AllFit, Within, Bottom
<1>3. CASE work # "arg"
  <2>1. arg' = arg
    BY <1>1, <1>3 DEF arg
  <2> QED BY <2>1, FitSame
<1> QED BY <1>2, <1>3

LEMMA FitNorm == NormInv /\ FitInv /\ Norm => FitInv'
<1> SUFFICES ASSUME NormInv, FitInv, Norm PROVE FitInv'
  OBVIOUS
<1> DEFINE c == scr[work].cr
<1>1. c \in Seq(Ranged) /\ scr[work] \in Class /\ Len(c) \in Nat
  <2>1. c \in Seq(Ranged) /\ scr[work] \in Class
    BY Typed
  <2> QED BY <2>1
<1>2. CASE NormKnown
  <2>1. arg' = arg /\ op' = op
    BY <1>2 DEF NormKnown, normVars, arg
  <2> QED BY <2>1, FitSame
<1>3. CASE NormShort
  <2> DEFINE r == [scr[work] EXCEPT !.canon = TRUE]
  <2>1. r \in Class /\ r.cr = c
    BY <1>1 DEF Class
  <2>2. op' = op /\ scr' = [scr EXCEPT ![work] = r]
    BY <1>3 DEF NormShort
  <2> HIDE DEF r
  <2> QED BY <2>1, <2>2, FitChanged
<1>4. CASE NormSort
  <2> DEFINE r == [scr[work] EXCEPT !.cr = Sorted(c)]
  <2>1. /\ Sorted(c) \in Seq(Ranged) /\ Len(Sorted(c)) = Len(c)
        /\ \A k \in 1 .. Len(c) : \E b \in 1 .. Len(c) : Sorted(c)[k] = c[b]
    BY <1>1, SortedFacts
  <2>2. r \in Class /\ r.cr = Sorted(c)
    BY <1>1, <2>1 DEF Class
  <2>3. op' = op /\ scr' = [scr EXCEPT ![work] = r]
    BY <1>4 DEF NormSort
  <2>4. AllFit(c, Bottom) => AllFit(r.cr, Bottom)
    <3> HIDE DEF r, c
    <3> QED BY <2>1, <2>2, Zenon DEF AllFit, Within
  <2>5. r.cr = << >> => c = << >>
    BY <1>1, <2>1, <2>2
  <2> HIDE DEF r
  <2> QED BY <2>2, <2>3, <2>4, <2>5, FitChanged
<1>5. CASE MergeExtend
  <2> DEFINE x == Extended(c[previous], c[current])
             new == [c EXCEPT ![previous] = x]
             r == [scr[work] EXCEPT !.cr = new]
  <2>1. op' = op /\ scr' = [scr EXCEPT ![work].cr[previous] = x] /\ pc = "merge" /\ current <= Len(c)
    BY <1>5 DEF MergeExtend
  <2>2. previous \in 1 .. Len(c) /\ current \in 1 .. Len(c)
    BY <1>1, <2>1, SMTT(30) DEF NormInv, TypeOK
  <2>3. c[previous] \in Ranged /\ c[current] \in Ranged
    BY <1>1, <2>2, RangedAt
  <2>4. x \in Ranged
    <3> HIDE DEF c
    <3> QED BY <2>3 DEF Extended, Ranged
  <2>5. new \in Seq(Ranged) /\ Len(new) = Len(c) /\ new[previous] = x
        /\ \A k \in 1 .. Len(c) : k # previous => new[k] = c[k]
    <3> HIDE DEF x
    <3> QED BY <1>1, <2>2, <2>4
  <2>6. r \in Class /\ r.cr = new /\ scr' = [scr EXCEPT ![work] = r]
    <3> HIDE DEF new, x
    <3>1. r \in Class /\ r.cr = new
      BY <1>1, <2>5 DEF Class
    <3> QED BY <2>1, <3>1 DEF new
  <2>7. AllFit(c, Bottom) => AllFit(new, Bottom)
    <3> SUFFICES ASSUME AllFit(c, Bottom), NEW k \in 1 .. Len(c)
                 PROVE  Bottom <= new[k].start /\ new[k].start <= new[k].end /\ new[k].end <= UniMax
      BY <2>5 DEF AllFit, Within
    <3>1. CASE k = previous
      <4> DEFINE a == c[previous]
                 b == c[current]
      <4>1. /\ Bottom <= a.start /\ a.start <= a.end /\ a.end <= UniMax
            /\ b.start <= b.end /\ b.end <= UniMax
        BY <2>2 DEF AllFit, Within
      <4>2. a \in Ranged /\ b \in Ranged
        BY <2>3
      <4> HIDE DEF a, b
      <4>3. a.start \in Int /\ a.end \in Int /\ b.start \in Int /\ b.end \in Int
        BY <4>2 DEF Ranged
      <4>4. Extended(a, b).start = a.start /\ Extended(a, b).end \in {a.end, b.end}
            /\ (Extended(a, b).end = b.end => a.start = b.start \/ a.end < b.end \/ a.end = b.end)
        BY <4>2 DEF Extended, Ranged
      <4>5. Extended(a, b).start <= Extended(a, b).end /\ Extended(a, b).end <= UniMax
        BY <4>1, <4>3, <4>4
      <4>6. new[k] = Extended(a, b)
        BY <2>5, <3>1 DEF a, b
      <4> QED BY <4>1, <4>4, <4>5, <4>6
    <3>2. CASE k # previous
      BY <2>5, <3>2 DEF AllFit, Within
    <3> QED BY <3>1, <3>2
  <2>8. new = << >> => c = << >>
    BY <1>1, <2>5
  <2> HIDE DEF new, r
  <2> QED BY <2>1, <2>6, <2>7, <2>8, FitChanged
<1>6. CASE MergeShift
  <2> DEFINE new == [c EXCEPT ![previous + 1] = c[current]]
             r == [scr[work] EXCEPT !.cr = new]
  <2>1. /\ op' = op /\ scr' = [scr EXCEPT ![work].cr[previous + 1] = c[current]]
        /\ pc = "merge" /\ current <= Len(c)
    BY <1>6 DEF MergeShift
  <2>2. previous + 1 \in 1 .. Len(c) /\ current \in 1 .. Len(c)
    <3>1. previous \in Nat /\ current \in Nat /\ 1 <= previous /\ previous < current
      BY <2>1 DEF NormInv, TypeOK
    <3> HIDE DEF c
    <3> QED BY <1>1, <2>1, <3>1
  <2>3. c[current] \in Ranged
    BY <1>1, <2>2, RangedAt
  <2>4. new \in Seq(Ranged) /\ Len(new) = Len(c) /\ new[previous + 1] = c[current]
        /\ \A k \in 1 .. Len(c) : k # previous + 1 => new[k] = c[k]
    BY <1>1, <2>2, <2>3
  <2>5. r \in Class /\ r.cr = new /\ scr' = [scr EXCEPT ![work] = r]
    <3> HIDE DEF new
    <3>1. r \in Class /\ r.cr = new
      BY <1>1, <2>4 DEF Class
    <3> QED BY <2>1, <3>1 DEF new
  <2>6. AllFit(c, Bottom) => AllFit(new, Bottom)
    <3> HIDE DEF new, c
    <3> QED BY <2>2, <2>4 DEF AllFit, Within
  <2>7. new = << >> => c = << >>
    BY <1>1, <2>4
  <2> HIDE DEF new, r
  <2> QED BY <2>1, <2>5, <2>6, <2>7, FitChanged
<1>7. CASE MergeLast
  <2> DEFINE new == SubSeq(c, 1, previous)
             r == [cr |-> new, canon |-> TRUE]
  <2>1. op' = op /\ scr' = [scr EXCEPT ![work] = r] /\ pc = "merge" /\ current > Len(c)
    BY <1>7 DEF MergeLast
  <2>2. previous \in 1 .. Len(c)
    BY <1>1, <2>1 DEF NormInv, TypeOK
  <2>3. new \in Seq(Ranged) /\ Len(new) = previous /\ \A k \in 1 .. previous : new[k] = c[k]
    BY <1>1, <2>2
  <2>4. AllFit(c, Bottom) => AllFit(new, Bottom)
    <3>1. \A k \in 1 .. previous : k \in 1 .. Len(c)
      BY <1>1, <2>2
    <3> HIDE DEF new, c
    <3> QED BY <2>3, <3>1 DEF AllFit, Within
  <2>5. new # << >>
    <3> HIDE DEF new
    <3> QED BY <2>2, <2>3
  <2> HIDE DEF new
  <2>6. r \in Class /\ r.cr = new
    BY <2>3 DEF Class
  <2> HIDE DEF r
  <2> QED BY <2>1, <2>4, <2>5, <2>6, FitChanged
<1> QED BY <1>2, <1>3, <1>4, <1>5, <1>6, <1>7 DEF Norm

LEMMA FitStep == NormInv /\ LoopInv /\ FitInv /\ [Next]_vars => FitInv'
<1> SUFFICES ASSUME NormInv, LoopInv, FitInv, [Next]_vars PROVE FitInv'
  OBVIOUS
<1>1. CASE Norm
  BY <1>1, FitNorm
<1>2. CASE \E o \in Ops, f \in Flags : Again(o, f)
  BY <1>2, FitAgain
<1>3. CASE UnfoldBegin \/ UnfoldCode
  <2>1. arg' = arg
    BY <1>3, UnfoldBeginStep, UnfoldCodeStep
  <2>2. op' = op
    BY <1>3 DEF UnfoldBegin, UnfoldCode
  <2> QED BY <2>1, <2>2, FitSame
<1>4. CASE Start \/ CallNorm \/ Negate \/ Encode \/ UnfoldEmpty \/ UnfoldEnd \/ UnfoldDup
           \/ UNCHANGED vars
  <2>1. arg' = arg /\ op' = op
    BY <1>4 DEF arg, normVars, vars, Start, CallNorm, Negate, NegateEmpty, NegateBegin,
       NegateRange, NegateRest, Encode, EncodeBegin, EncodeCode, MergeTop, MergeTopEnd,
       EncodeEnd, UnfoldEmpty, UnfoldEnd, UnfoldDup
  <2> QED BY <2>1, FitSame
<1> QED BY <1>1, <1>2, <1>3, <1>4 DEF Next, Unfold

-----------------------------------------------------------------------------
(* The loop                                                                *)

\* Elsewhere the invariant says nothing.
LEMMA NotNegating ==
    ASSUME pc' # "negate", ~(pc' = "done" /\ op' \in {"negate", "negate-smp"})
    PROVE  NegateInv'
BY DEF NegateInv

\* The empty class, which is given to the complement in all planes only.
LEMMA NegateEmptyStep == NormInv /\ FitInv /\ NegateEmpty => NegateInv'
<1> SUFFICES ASSUME NormInv, FitInv, NegateEmpty PROVE NegateInv'
  OBVIOUS
<1> DEFINE all == << [start |-> 0, end |-> UniMax] >>
<1>1. /\ arg = << >> /\ op = "negate" /\ out' = all /\ room' = 1 /\ pc' = "done"
      /\ arg' = arg /\ op' = op
  BY DEF NegateEmpty, FitInv, normVars, arg
<1>2. Len(all) = 1 /\ all[1].start = 0 /\ all[1].end = UniMax
  OBVIOUS
<1> HIDE DEF all
<1>3. Canonical(all)
  BY <1>2 DEF Canonical
<1>4. \A p \in Int : In(p, all) <=> p \in 0 .. UniMax
  BY <1>2, UniAssumption DEF In, InPart
<1>5. \A p \in Int : ~In(p, arg)
  BY <1>1 DEF In, InPart
<1>6. Bottom' = 0
  BY <1>1 DEF Bottom
<1>7. \A p \in Int : In(p, all) <=> (p \in 0 .. UniMax /\ ~In(p, arg))
  BY <1>4, <1>5
<1> QED BY <1>1, <1>2, <1>3, <1>6, <1>7 DEF NegateInv

\* A class of one range, from the first code point to the last, has nothing left.
LEMMA NothingLeft ==
    ASSUME NEW cr \in Seq(Ranged), cr # << >>, NEW low \in Int, AllFit(cr, low),
           Len(cr) + 1 - (IF cr[1].start = low THEN 1 ELSE 0)
                       - (IF cr[Len(cr)].end = UniMax THEN 1 ELSE 0) = 0
    PROVE  \A p \in low .. UniMax : In(p, cr)
<1>1. Len(cr) \in Nat /\ Len(cr) > 0
  OBVIOUS
<1> DEFINE first == IF cr[1].start = low THEN 1 ELSE 0
           last == IF cr[Len(cr)].end = UniMax THEN 1 ELSE 0
<1>2. Len(cr) + 1 - first - last = 0
  OBVIOUS
<1>3. (first = 0 \/ first = 1) /\ (last = 0 \/ last = 1)
  OBVIOUS
<1> DEFINE n == Len(cr)
<1> HIDE DEF first, last, n
<1>4. n \in Int /\ n > 0 /\ n + 1 - first - last = 0
  BY <1>1, <1>2 DEF n
<1>5. n = 1 /\ first = 1 /\ last = 1
  BY <1>3, <1>4
<1>6. Len(cr) = 1 /\ cr[1].start = low /\ cr[1].end = UniMax
  BY <1>5 DEF first, last, n
<1> QED BY <1>6, UniAssumption DEF In, InPart

LEMMA NegateBeginStep == NormInv /\ FitInv /\ NegateBegin => NegateInv'
<1> SUFFICES ASSUME NormInv, FitInv, NegateBegin PROVE NegateInv'
  OBVIOUS
<1>1. /\ pc = "call" /\ op \in {"negate", "negate-smp"} /\ arg' = arg /\ op' = op /\ i' = 1
      /\ room' = ComplementSize(arg) /\ cmin' = Bottom /\ out' = << >>
      /\ pc' = IF ComplementSize(arg) = 0 THEN "done" ELSE "negate"
  BY DEF NegateBegin, normVars, arg
<1>2. Bottom' = Bottom /\ ComplementSize(arg)' = ComplementSize(arg)
  BY <1>1 DEF Bottom, ComplementSize
<1>3. arg \in Seq(Ranged) /\ arg # << >> /\ AllFit(arg, Bottom) /\ Bottom \in Int
  BY <1>1, Typed, BottomType DEF NormInv, ControlInv, FitInv
<1>4. CASE ComplementSize(arg) = 0
  <2>1. \A p \in Bottom .. UniMax : In(p, arg)
    BY <1>3, <1>4, NothingLeft DEF ComplementSize
  <2>2. Len(out') = 0 /\ Canonical(out') /\ \A p \in Int : ~In(p, out')
    BY <1>1 DEF Canonical, In, InPart
  <2>3. \A p \in Int : In(p, out') <=> (p \in Bottom .. UniMax /\ ~In(p, arg))
    BY <2>1, <2>2
  <2>4. pc' = "done" /\ room' = 0
    BY <1>1, <1>4
  <2> QED BY <1>1, <1>2, <2>2, <2>3, <2>4 DEF NegateInv
<1>5. CASE ComplementSize(arg) # 0
  <2>1. Partial(<< >>, arg, 0, Bottom, Bottom)
    BY <1>3, PartialStart
  <2>2. pc' = "negate" /\ i' - 1 = 0
    BY <1>1, <1>5
  <2> QED BY <1>1, <1>2, <2>1, <2>2 DEF NegateInv
<1> QED BY <1>4, <1>5

LEMMA NegateRangeStep == NormInv /\ LoopInv /\ FitInv /\ NegateInv /\ NegateRange => NegateInv'
<1> SUFFICES ASSUME NormInv, LoopInv, FitInv, NegateInv, NegateRange PROVE NegateInv'
  OBVIOUS
<1> DEFINE n == i - 1
<1>1. /\ pc = "negate" /\ pc' = "negate" /\ i <= Len(arg) /\ i' = i + 1 /\ arg' = arg /\ op' = op
      /\ room' = room /\ cmin' = arg[i].end + 1
      /\ out' = IF arg[i].start > cmin
                THEN Append(out, [start |-> cmin, end |-> arg[i].start - 1]) ELSE out
  BY DEF NegateRange, normVars, arg
<1>2. arg \in Seq(Ranged) /\ AllFit(arg, Bottom) /\ Bottom \in Int
  BY Typed, BottomType DEF FitInv
<1>3. Apart(arg, Len(arg))
  BY <1>1 DEF NormInv, ControlInv, CanonInv, Names, arg
<1>4. n \in 0 .. Len(arg) - 1 /\ n + 1 = i /\ i' - 1 = n + 1
  <2>1. i \in Nat /\ 1 <= i /\ Len(arg) \in Nat
    BY <1>1, <1>2 DEF LoopInv, NormInv, LoopTypes
  <2> QED BY <1>1, <2>1
<1>5. Partial(out, arg, n, Bottom, cmin) /\ room = ComplementSize(arg)
  BY <1>1 DEF NegateInv
<1> HIDE DEF n
<1>6. Partial(out', arg, n + 1, Bottom, cmin')
  BY <1>1, <1>2, <1>3, <1>4, <1>5, UniAssumption, PartialNext DEF AllFit
<1>7. Bottom' = Bottom /\ ComplementSize(arg)' = ComplementSize(arg)
  BY <1>1 DEF Bottom, ComplementSize
<1> QED BY <1>1, <1>4, <1>5, <1>6, <1>7 DEF NegateInv

LEMMA NegateRestStep == NormInv /\ LoopInv /\ FitInv /\ NegateInv /\ NegateRest => NegateInv'
<1> SUFFICES ASSUME NormInv, LoopInv, FitInv, NegateInv, NegateRest PROVE NegateInv'
  OBVIOUS
<1>1. /\ pc = "negate" /\ pc' = "done" /\ i > Len(arg) /\ arg' = arg /\ op' = op /\ room' = room
      /\ out' = IF cmin <= UniMax THEN Append(out, [start |-> cmin, end |-> UniMax]) ELSE out
  BY DEF NegateRest, normVars, arg
<1>2. arg \in Seq(Ranged) /\ AllFit(arg, Bottom) /\ Bottom \in Int /\ arg # << >>
  BY <1>1, Typed, BottomType DEF NormInv, ControlInv, FitInv
<1>3. Apart(arg, Len(arg))
  BY <1>1 DEF NormInv, ControlInv, CanonInv, Names, arg
<1>4. i - 1 = Len(arg)
  <2>1. i \in Nat /\ i <= Len(arg) + 1 /\ Len(arg) \in Nat
    BY <1>1, <1>2 DEF LoopInv, NormInv, LoopTypes
  <2> QED BY <1>1, <2>1
<1>5. Partial(out, arg, Len(arg), Bottom, cmin) /\ room = ComplementSize(arg)
  BY <1>1, <1>4 DEF NegateInv
<1>6. /\ \A p \in Int : In(p, out') <=> (p \in Bottom .. UniMax /\ ~In(p, arg))
      /\ Len(out') = ComplementSize(arg)
      /\ Canonical(out')
  <2>1. Within(arg, Bottom, UniMax) /\ UniMax \in Int
    BY <1>2, UniAssumption DEF AllFit
  <2> QED BY <1>1, <1>2, <1>3, <1>5, <2>1, PartialRest DEF ComplementSize
<1>7. Bottom' = Bottom
  BY <1>1 DEF Bottom
<1> QED BY <1>1, <1>5, <1>6, <1>7 DEF NegateInv

LEMMA NegateInvStep ==
    NormInv /\ LoopInv /\ FitInv /\ NegateInv /\ [Next]_vars => NegateInv'
<1> SUFFICES ASSUME NormInv, LoopInv, FitInv, NegateInv, [Next]_vars PROVE NegateInv'
  OBVIOUS
<1>1. CASE Negate
  BY <1>1, NegateEmptyStep, NegateBeginStep, NegateRangeStep, NegateRestStep DEF Negate
<1>2. CASE Start
  BY <1>2, NotNegating DEF Start
<1>3. CASE CallNorm
  BY <1>3, NotNegating DEF CallNorm
<1>4. CASE Norm
  <2>1. pc' \in {"merge", "call", "dup"}
    BY <1>4 DEF Norm, NormKnown, NormShort, NormSort, MergeExtend, MergeShift, MergeLast, AfterNorm
  <2> QED BY <2>1, NotNegating
<1>5. CASE Unfold
  <2>1. op = "unfold" /\ op' = op /\ pc' # "negate"
    BY <1>5 DEF NormInv, ControlInv, Unfold, UnfoldEmpty, UnfoldBegin, UnfoldCode, UnfoldEnd, UnfoldDup
  <2> QED BY <2>1, NotNegating
<1>6. CASE Encode
  <2>1. op \in {"asbr", "assr"} /\ op' = op /\ pc' # "negate"
    BY <1>6 DEF NormInv, ControlInv, Encode, EncodeBegin, EncodeCode, MergeTop, MergeTopEnd, EncodeEnd
  <2> QED BY <2>1, NotNegating
<1>7. CASE \E o \in Ops, f \in Flags : Again(o, f)
  BY <1>7, NotNegating DEF Again
<1>8. CASE UNCHANGED vars
  BY <1>8 DEF vars, NegateInv, Partial, arg, Bottom, ComplementSize
<1> QED BY <1>1, <1>2, <1>3, <1>4, <1>5, <1>6, <1>7, <1>8 DEF Next

\* The class stays in the planes of the call, and the loop has the complement of the
\* ranges it went through.
THEOREM NegateInvariant == Spec => [](FitInv /\ NegateInv)
<1>1. Init => FitInv /\ NegateInv
  <2>1. Init => NegateInv
    BY DEF Init, NegateInv
  <2> QED BY <2>1, FitInit
<1>2. (NormInv /\ LoopInv) /\ (FitInv /\ NegateInv) /\ [Next]_vars => (FitInv /\ NegateInv)'
  BY FitStep, NegateInvStep
<1> QED BY <1>1, <1>2, NormInvariant, PTL DEF Spec

\* marpatcl_scr_complement yields what the class has not, in canonical form, and fills
\* exactly the array it allocated in advance (scr.c:269-318): for every class.
THEOREM ComplementExact == Spec => []NegateExact
<1>1. FitInv /\ NegateInv => NegateExact
  BY WordsAssumption DEF NegateInv, NegateExact
<1> QED BY <1>1, NegateInvariant, PTL

-----------------------------------------------------------------------------
(***************************************************************************)
(* The alternatives that asbr.c and assr.c build of a class stand for the  *)
(* encodings of its code points and for nothing else, at every step, for   *)
(* every class and every encoding; and the CESU-8 form of a code point is  *)
(* the UTF-8 form of its UTF-16 elements.                                  *)
(***************************************************************************)

-----------------------------------------------------------------------------
(* The encodings                                                           *)

LEMMA BitsType ==
    ASSUME NEW c \in Nat, NEW scale \in Nat \ {0}, NEW size \in Nat \ {0}
    PROVE  Bits(c, scale, size) \in 0 .. size - 1
BY DEF Bits

\* The code point decides which form is written.
LEMMA UtfForms ==
    ASSUME NEW c \in Nat, NEW f
    PROVE  /\ \/ Utf(c, f) = <<192, 128>> \/ Utf(c, f) = One(c) \/ Utf(c, f) = Two(c)
              \/ Utf(c, f) = Three(c) \/ Utf(c, f) = Four(c)
              \/ c >= 65536 /\ Utf(c, f) = Six(c - 65536)
           /\ 2048 <= c /\ c < 65536 => Utf(c, f) = Three(c)
           /\ 65536 <= c /\ "cesu" \in f => Utf(c, f) = Six(c - 65536)
BY SMT DEF Utf

LEMMA UtfType ==
    ASSUME NEW c \in Nat, NEW f
    PROVE  Utf(c, f) \in Seq(Int)
<1>1. \A b \in Nat, scale \in Nat \ {0}, size \in Nat \ {0} : Bits(b, scale, size) \in Int
  BY BitsType, SMT
<1>2. \A b \in Nat : /\ Bits(b, 64, 32) \in Int /\ Bits(b, 1, 64) \in Int
                     /\ Bits(b, 64, 64) \in Int /\ Bits(b, 1024, 64) \in Int
                     /\ Bits(b, 4096, 16) \in Int /\ Bits(b, 4096, 64) \in Int
                     /\ Bits(b, 65536, 16) \in Int /\ Bits(b, 64, 16) \in Int
                     /\ Bits(b, 262144, 8) \in Int
  BY <1>1, SMT
<1>3. \A b \in Nat : /\ One(b) \in Seq(Int) /\ Two(b) \in Seq(Int) /\ Three(b) \in Seq(Int)
                     /\ Four(b) \in Seq(Int) /\ Six(b) \in Seq(Int)
  <2> TAKE b \in Nat
  <2>1. One(b) \in Seq(Int)
    BY SMT DEF One
  <2>2. Two(b) \in Seq(Int)
    BY <1>2, SMT DEF Two, Trail
  <2>3. Three(b) \in Seq(Int)
    BY <1>2, SMT DEF Three, Trail
  <2>4. Four(b) \in Seq(Int)
    BY <1>2, SMT DEF Four, Trail
  <2>5. Six(b) \in Seq(Int)
    BY <1>2, SMT DEF Six, Trail
  <2> QED BY <2>1, <2>2, <2>3, <2>4, <2>5, SMT
<1>4. <<192, 128>> \in Seq(Int)
  BY SMT
<1>5. CASE c >= 65536 /\ Utf(c, f) = Six(c - 65536)
  <2>1. c - 65536 \in Nat
    BY <1>5, SMT
  <2> QED BY <1>3, <1>5, <2>1, SMT
<1>6. One(c) \in Seq(Int) /\ Two(c) \in Seq(Int) /\ Three(c) \in Seq(Int) /\ Four(c) \in Seq(Int)
  BY <1>3, SMT
<1>7. \/ Utf(c, f) = <<192, 128>> \/ Utf(c, f) = One(c) \/ Utf(c, f) = Two(c)
      \/ Utf(c, f) = Three(c) \/ Utf(c, f) = Four(c)
      \/ c >= 65536 /\ Utf(c, f) = Six(c - 65536)
  BY UtfForms, SMT
<1> DEFINE two == <<192, 128>>
           six == c >= 65536 /\ Utf(c, f) = Six(c - 65536)
           S == Seq(Int)
<1> HIDE DEF two, six, S
<1>8. Utf(c, f) = two \/ Utf(c, f) = One(c) \/ Utf(c, f) = Two(c) \/ Utf(c, f) = Three(c)
      \/ Utf(c, f) = Four(c) \/ six
  BY <1>7, SMT DEF two, six
<1>9. two \in S /\ One(c) \in S /\ Two(c) \in S /\ Three(c) \in S /\ Four(c) \in S
      /\ (six => Utf(c, f) \in S)
  BY <1>4, <1>5, <1>6, SMT DEF two, six, S
<1>10. Utf(c, f) \in S
  BY <1>8, <1>9, Zenon
<1> QED BY <1>10 DEF S

LEMMA CharsType ==
    ASSUME NEW c \in Nat
    PROVE  Chars(c) \in Seq(Int)
<1>1. CASE c <= BmpMax
  <2>1. Chars(c) = << c >>
    BY <1>1, SMT DEF Chars
  <2> QED BY <2>1, SMT
<1>2. CASE ~(c <= BmpMax)
  <2> DEFINE r == c - 65536
  <2>1. r \in Nat
    BY <1>2, SMT DEF BmpMax
  <2>2. Chars(c) = << 55296 + Bits(r, 1024, 1024), 56320 + Bits(r, 1, 1024) >>
    BY <1>2, SMT DEF Chars, BmpMax
  <2>3. Bits(r, 1024, 1024) \in Int /\ Bits(r, 1, 1024) \in Int
    BY <2>1, BitsType, SMT
  <2> HIDE DEF r
  <2> QED BY <2>2, <2>3, SMT
<1> QED BY <1>1, <1>2, SMT

High(h) == 55296 + h
Low(h) == 56320 + h
HighUtf(h) == << 237, 160 + (h \div 64), 128 + (h % 64) >>
LowUtf(h) == << 237, 176 + (h \div 64), 128 + (h % 64) >>

\* The first element of a surrogate pair, as UTF-8.
LEMMA HighSurrogate ==
    ASSUME NEW h \in 0 .. 1023, NEW f
    PROVE  Utf(High(h), f) = HighUtf(h)
<1> DEFINE e == High(h)
<1>1. e = 55296 + h
  BY SMT DEF High
<1> HIDE DEF e
<1>2. e \in Nat /\ 2048 <= e /\ e < 65536
  BY <1>1, SMT
<1>3. e \div 4096 = 13 /\ (e \div 64) % 64 = 32 + (h \div 64) /\ (e \div 1) % 64 = h % 64
      /\ 13 % 16 = 13
  BY <1>1, SMT
<1>4. Bits(e, 4096, 16) = 13 /\ Bits(e, 64, 64) = 32 + (h \div 64) /\ Bits(e, 1, 64) = h % 64
  BY <1>3, SMT DEF Bits
<1>5. Utf(e, f) = Three(e)
  BY <1>2, UtfForms, SMT
<1>6. Three(e) = << 224 + 13, 128 + (32 + (h \div 64)), 128 + (h % 64) >>
  BY <1>4, SMT DEF Three, Trail
<1>7. 224 + 13 = 237 /\ 128 + (32 + (h \div 64)) = 160 + (h \div 64)
  BY SMT
<1> QED BY <1>5, <1>6, <1>7, SMT DEF e, HighUtf

\* The second one.
LEMMA LowSurrogate ==
    ASSUME NEW h \in 0 .. 1023, NEW f
    PROVE  Utf(Low(h), f) = LowUtf(h)
<1> DEFINE e == Low(h)
<1>1. e = 56320 + h
  BY SMT DEF Low
<1> HIDE DEF e
<1>2. e \in Nat /\ 2048 <= e /\ e < 65536
  BY <1>1, SMT
<1>3. e \div 4096 = 13 /\ (e \div 64) % 64 = 48 + (h \div 64) /\ (e \div 1) % 64 = h % 64
      /\ 13 % 16 = 13
  BY <1>1, SMT
<1>4. Bits(e, 4096, 16) = 13 /\ Bits(e, 64, 64) = 48 + (h \div 64) /\ Bits(e, 1, 64) = h % 64
  BY <1>3, SMT DEF Bits
<1>5. Utf(e, f) = Three(e)
  BY <1>2, UtfForms, SMT
<1>6. Three(e) = << 224 + 13, 128 + (48 + (h \div 64)), 128 + (h % 64) >>
  BY <1>4, SMT DEF Three, Trail
<1>7. 224 + 13 = 237 /\ 128 + (48 + (h \div 64)) = 176 + (h \div 64)
  BY SMT
<1> QED BY <1>5, <1>6, <1>7, SMT DEF e, LowUtf

\* marpatcl_to_utf with the flag for CESU-8 is marpatcl_to_utf of marpatcl_to_char.
LEMMA CesuIsUtfOfChars ==
    ASSUME NEW c \in Nat, c > BmpMax, NEW f, "cesu" \in f
    PROVE  Utf(c, f) = Utf(Chars(c)[1], f) \o Utf(Chars(c)[2], f)
<1> DEFINE r == c - 65536
           high == Bits(r, 1024, 1024)
           low == Bits(r, 1, 1024)
<1>1. r \in Nat
  BY SMT DEF BmpMax
<1>2. high \in 0 .. 1023 /\ low \in 0 .. 1023
  BY <1>1, SMT DEF Bits
<1>3. Chars(c)[1] = High(high) /\ Chars(c)[2] = Low(low)
  BY SMT DEF Chars, BmpMax, High, Low
<1>4. Utf(c, f) = Six(r)
  BY UtfForms, SMT DEF BmpMax
<1>5. /\ Bits(r, 65536, 16) = high \div 64 /\ Bits(r, 1024, 64) = high % 64
      /\ Bits(r, 64, 16) = low \div 64 /\ Bits(r, 1, 64) = low % 64
  BY <1>1, SMT DEF Bits
<1> HIDE DEF high, low, r
<1>6. Six(r) = << 237, 160 + (high \div 64), 128 + (high % 64),
                  237, 176 + (low \div 64), 128 + (low % 64) >>
  BY <1>5, SMT DEF Six, Trail
<1>7. Six(r) = HighUtf(high) \o LowUtf(low)
  <2> DEFINE a1 == 160 + (high \div 64)
             b1 == 128 + (high % 64)
             a2 == 176 + (low \div 64)
             b2 == 128 + (low % 64)
  <2>1. a1 \in Int /\ b1 \in Int /\ a2 \in Int /\ b2 \in Int
    BY <1>2, SMT
  <2>2. Six(r) = << 237, a1, b1, 237, a2, b2 >> /\ HighUtf(high) = << 237, a1, b1 >>
        /\ LowUtf(low) = << 237, a2, b2 >>
    BY <1>6, SMT DEF HighUtf, LowUtf
  <2> HIDE DEF a1, b1, a2, b2
  <2>3. << 237, a1, b1, 237, a2, b2 >> = << 237, a1, b1 >> \o << 237, a2, b2 >>
    <3> DEFINE x == << 237, a1, b1 >>
               y == << 237, a2, b2 >>
               z == << 237, a1, b1, 237, a2, b2 >>
    <3>1. /\ x \in Seq(Int) /\ y \in Seq(Int) /\ z \in Seq(Int)
          /\ Len(x) = 3 /\ Len(y) = 3 /\ Len(z) = 6
      BY <2>1, SMT
    <3>2. x \o y \in Seq(Int) /\ Len(x \o y) = 6
      BY <3>1, SMT
    <3>3. \A k \in 1 .. 6 : (x \o y)[k] = z[k]
      BY <2>1, <3>1, SMT
    <3> HIDE DEF x, y, z
    <3>4. x \o y = z
      BY <3>1, <3>2, <3>3, SeqEqual
    <3> QED BY <3>4 DEF x, y, z
  <2> QED BY <2>2, <2>3, Zenon
<1>8. Utf(High(high), f) = HighUtf(high) /\ Utf(Low(low), f) = LowUtf(low)
  <2>1. Utf(High(high), f) = HighUtf(high)
    BY <1>2, HighSurrogate, SMT
  <2>2. Utf(Low(low), f) = LowUtf(low)
    BY <1>2, LowSurrogate, SMT
  <2> QED BY <2>1, <2>2
<1> QED BY <1>3, <1>4, <1>7, <1>8, Zenon

-----------------------------------------------------------------------------
(* Alternatives                                                            *)

Alternative == {a \in Seq(Ranged) : \A j \in 1 .. Len(a) : a[j].start <= a[j].end}
Stacked == [closed : BOOLEAN, alt : Alternative]

\* The alternatives of a stack stand for the word.
Accepts(word, s) == \E k \in 1 .. Len(s) : Matches(word, s[k].alt)

LEMMA AlternativeAt ==
    ASSUME NEW a \in Alternative, NEW j \in 1 .. Len(a)
    PROVE  a[j] \in Ranged /\ a[j].start \in Int /\ a[j].end \in Int /\ a[j].start <= a[j].end
BY RangedAt DEF Alternative

LEMMA SingleMatches ==
    ASSUME NEW word \in Seq(Int)
    PROVE  /\ Single(word) \in Alternative
           /\ \A w \in Seq(Int) : Matches(w, Single(word)) <=> w = word
<1> DEFINE n == Len(word)
           s == Single(word)
<1>1. n \in Nat /\ \A j \in 1 .. n : word[j] \in Int
  OBVIOUS
<1>2. Len(s) = n /\ \A j \in 1 .. n : s[j] = [start |-> word[j], end |-> word[j]]
  BY <1>1 DEF Single
<1>3. s \in Seq(Ranged)
  <2>1. \A j \in 1 .. n : [start |-> word[j], end |-> word[j]] \in Ranged
    BY <1>1 DEF Ranged
  <2> QED BY <1>1, <2>1, IsSequence DEF Single
<1> HIDE DEF s
<1>4. \A j \in 1 .. n : s[j].start = word[j] /\ s[j].end = word[j]
  <2> TAKE j \in 1 .. n
  <2> DEFINE x == word[j]
  <2>1. s[j] = [start |-> x, end |-> x]
    BY <1>2
  <2> HIDE DEF x
  <2>2. s[j].start = x /\ s[j].end = x
    BY <2>1
  <2> QED BY <2>2 DEF x
<1>5. s \in Alternative
  BY <1>1, <1>2, <1>3, <1>4 DEF Alternative
<1>6. ASSUME NEW w \in Seq(Int)
      PROVE  Matches(w, s) <=> w = word
  <2>1. ASSUME Matches(w, s) PROVE w = word
    <3>1. Len(w) = n /\ \A j \in 1 .. n : word[j] <= w[j] /\ w[j] <= word[j] /\ w[j] \in Int
      BY <1>2, <1>4, <2>1 DEF Matches
    <3>2. \A j \in 1 .. n : w[j] = word[j]
      BY <1>1, <3>1
    <3> QED BY <3>1, <3>2
  <2>2. ASSUME w = word PROVE Matches(w, s)
    BY <1>1, <1>2, <1>4, <2>2 DEF Matches
  <2> QED BY <2>1, <2>2
<1> QED BY <1>5, <1>6 DEF s

\* merge2: what two mergeable alternatives stand for together, the merged one does.
LEMMA MergedMatches ==
    ASSUME NEW prev \in Alternative, NEW top \in Alternative, CanMerge(prev, top)
    PROVE  /\ Merged(prev, top) \in Alternative
           /\ \A w \in Seq(Int) :
                Matches(w, Merged(prev, top)) <=> (Matches(w, prev) \/ Matches(w, top))
<1> DEFINE n == Len(prev)
           m == Merged(prev, top)
<1>1. n \in Nat /\ Len(top) = n /\ prev \in Seq(Ranged) /\ top \in Seq(Ranged)
  BY DEF CanMerge, Alternative
<1>2. PICK h \in 1 .. n : Adjacent(prev, top, h) /\ SameBut(prev, top, h)
  BY DEF CanMerge
<1>3. \A j \in 1 .. n : j # h => prev[j] = top[j]
  BY <1>2 DEF SameBut
<1>4. prev[h].end + 1 = top[h].start
  BY <1>2 DEF Adjacent
<1>5. \A j \in 1 .. n : /\ prev[j].start \in Int /\ prev[j].end \in Int /\ prev[j].start <= prev[j].end
                        /\ top[j].start \in Int /\ top[j].end \in Int /\ top[j].start <= top[j].end
                        /\ prev[j] \in Ranged /\ top[j] \in Ranged
  BY <1>1, AlternativeAt
<1>6. \A j \in 1 .. n : Adjacent(prev, top, j) <=> j = h
  <2> TAKE j \in 1 .. n
  <2>1. CASE j = h
    BY <1>2, <2>1
  <2>2. CASE j # h
    <3>1. top[j].start = prev[j].start
      BY <1>3, <2>2
    <3>2. prev[j].start \in Int /\ prev[j].end \in Int /\ prev[j].start <= prev[j].end
      BY <1>5
    <3>3. prev[j].end + 1 # top[j].start
      BY <3>1, <3>2
    <3> QED BY <2>2, <3>3 DEF Adjacent
  <2> QED BY <2>1, <2>2
<1> DEFINE x == [prev[h] EXCEPT !.end = top[h].end]
<1>7. x \in Ranged /\ x.start = prev[h].start /\ x.end = top[h].end
  <2>1. prev[h] \in Ranged /\ top[h].end \in Int
    BY <1>5
  <2> QED BY <2>1 DEF Ranged
<1>8. Len(m) = n /\ \A j \in 1 .. n : m[j] = IF j = h THEN x ELSE prev[j]
  BY <1>1, <1>6 DEF Merged
<1> HIDE DEF x
<1>9. m \in Seq(Ranged)
  <2>1. \A j \in 1 .. n : (IF Adjacent(prev, top, j) THEN [prev[j] EXCEPT !.end = top[j].end]
                           ELSE prev[j]) \in Ranged
    <3> TAKE j \in 1 .. n
    <3>1. CASE j = h
      BY <1>6, <1>7, <3>1 DEF x
    <3>2. CASE j # h
      BY <1>5, <1>6, <3>2
    <3> QED BY <3>1, <3>2
  <2> QED BY <1>1, <2>1, IsSequence DEF Merged
<1> HIDE DEF m
<1>10. prev[h].start \in Int /\ prev[h].end \in Int /\ top[h].start \in Int /\ top[h].end \in Int
       /\ prev[h].start <= prev[h].end /\ top[h].start <= top[h].end
  BY <1>5
<1>11. \A j \in 1 .. n : m[j].start <= m[j].end
  <2> TAKE j \in 1 .. n
  <2>1. CASE j = h
    <3>1. m[j].start = prev[h].start /\ m[j].end = top[h].end
      BY <1>7, <1>8, <2>1
    <3> QED BY <1>4, <1>10, <3>1
  <2>2. CASE j # h
    BY <1>5, <1>8, <2>2
  <2> QED BY <2>1, <2>2
<1>12. m \in Alternative
  BY <1>8, <1>9, <1>11 DEF Alternative
<1>13. ASSUME NEW w \in Seq(Int)
       PROVE  Matches(w, m) <=> (Matches(w, prev) \/ Matches(w, top))
  <2> DEFINE Rest == \A j \in 1 .. n : j # h => prev[j].start <= w[j] /\ w[j] <= prev[j].end
  <2>1. Matches(w, prev) <=> (Len(w) = n /\ Rest /\ prev[h].start <= w[h] /\ w[h] <= prev[h].end)
    BY DEF Matches
  <2>2. Matches(w, top) <=> (Len(w) = n /\ Rest /\ top[h].start <= w[h] /\ w[h] <= top[h].end)
    BY <1>1, <1>3 DEF Matches
  <2>3. Matches(w, m) <=> (Len(w) = n /\ Rest /\ prev[h].start <= w[h] /\ w[h] <= top[h].end)
    <3>1. m[h].start = prev[h].start /\ m[h].end = top[h].end
      BY <1>7, <1>8
    <3>2. \A j \in 1 .. n : j # h => m[j] = prev[j]
      BY <1>8
    <3> QED BY <1>8, <3>1, <3>2 DEF Matches
  <2> HIDE DEF Rest
  <2>4. Len(w) = n => w[h] \in Int
    OBVIOUS
  <2> DEFINE same == Len(w) = n /\ Rest
             y == w[h]
             ps == prev[h].start
             pe == prev[h].end
             ts == top[h].start
             te == top[h].end
  <2>5. /\ ps \in Int /\ pe \in Int /\ ts \in Int /\ te \in Int /\ ps <= pe /\ ts <= te
        /\ pe + 1 = ts /\ (same => y \in Int)
    BY <1>4, <1>10, <2>4
  <2>6. /\ Matches(w, prev) <=> (same /\ ps <= y /\ y <= pe)
        /\ Matches(w, top) <=> (same /\ ts <= y /\ y <= te)
        /\ Matches(w, m) <=> (same /\ ps <= y /\ y <= te)
    BY <2>1, <2>2, <2>3
  <2> HIDE DEF same, y, ps, pe, ts, te
  <2>7. same => ((ps <= y /\ y <= te) <=> ((ps <= y /\ y <= pe) \/ (ts <= y /\ y <= te)))
    BY <2>5
  <2> QED BY <2>6, <2>7
<1> QED BY <1>12, <1>13 DEF m

\* EncodeCode: one more alternative, for one word.
LEMMA AcceptsAppend ==
    ASSUME NEW s \in Seq(Stacked), NEW e \in Stacked, NEW w
    PROVE  Append(s, e) \in Seq(Stacked) /\ (Accepts(w, Append(s, e)) <=> (Accepts(w, s) \/ Matches(w, e.alt)))
<1> DEFINE n == Len(s)
           new == Append(s, e)
<1>1. n \in Nat /\ Len(new) = n + 1 /\ new[n + 1] = e /\ (\A k \in 1 .. n : new[k] = s[k])
      /\ new \in Seq(Stacked)
  OBVIOUS
<1> HIDE DEF n, new
<1>2. 1 .. n + 1 = (1 .. n) \cup {n + 1}
  BY <1>1
<1>3. Accepts(w, new) <=> ((\E k \in 1 .. n : Matches(w, s[k].alt)) \/ Matches(w, e.alt))
  BY <1>1, <1>2 DEF Accepts
<1> QED BY <1>1, <1>3 DEF Accepts, n, new

LEMMA AcceptsFinalized ==
    ASSUME NEW s \in Seq(Stacked), NEW w
    PROVE  Finalized(s) \in Seq(Stacked) /\ (Accepts(w, Finalized(s)) <=> Accepts(w, s))
<1> DEFINE n == Len(s)
           f == Finalized(s)
<1>1. n \in Nat /\ (s # << >> => n \in 1 .. n) /\ \A k \in 1 .. n : s[k] \in Stacked
  OBVIOUS
<1>2. CASE f = s
  BY <1>2
<1>3. CASE f # s
  <2> DEFINE x == [s[n] EXCEPT !.closed = TRUE]
  <2>1. f = [s EXCEPT ![n] = x] /\ s # << >>
    BY <1>3 DEF Finalized
  <2>2. x \in Stacked /\ x.alt = s[n].alt
    BY <1>1, <2>1 DEF Stacked
  <2> HIDE DEF x, f
  <2>3. f \in Seq(Stacked) /\ Len(f) = n /\ \A k \in 1 .. n : f[k] = IF k = n THEN x ELSE s[k]
    BY <1>1, <2>1, <2>2
  <2>4. \A k \in 1 .. n : f[k].alt = s[k].alt
    BY <2>2, <2>3
  <2> QED BY <2>3, <2>4 DEF Accepts, f
<1> QED BY <1>2, <1>3

\* MergeTop: two alternatives become one.
LEMMA AcceptsMerged ==
    ASSUME NEW s \in Seq(Stacked), NEW n, n = Len(s), n >= 2,
           CanMerge(s[n-1].alt, s[n].alt),
           NEW new, new = [SubSeq(s, 1, n - 1) EXCEPT ![n-1].alt = Merged(s[n-1].alt, s[n].alt)]
    PROVE  new \in Seq(Stacked) /\ new # << >> /\ \A w \in Seq(Int) : Accepts(w, new) <=> Accepts(w, s)
<1> DEFINE m == Merged(s[n-1].alt, s[n].alt)
           x == [s[n-1] EXCEPT !.alt = m]
           sub == SubSeq(s, 1, n - 1)
<1>1. n \in Nat /\ n - 1 \in 1 .. n /\ n \in 1 .. n /\ n - 1 \in 1 .. n - 1
  OBVIOUS
<1>2. s[n-1] \in Stacked /\ s[n] \in Stacked
  BY <1>1
<1>3. s[n-1].alt \in Alternative /\ s[n].alt \in Alternative
  BY <1>2 DEF Stacked
<1>4. m \in Alternative
      /\ \A w \in Seq(Int) : Matches(w, m) <=> (Matches(w, s[n-1].alt) \/ Matches(w, s[n].alt))
  BY <1>3, MergedMatches
<1> HIDE DEF m
<1>5. x \in Stacked /\ x.alt = m
  BY <1>2, <1>4 DEF Stacked
<1>6. sub \in Seq(Stacked) /\ Len(sub) = n - 1 /\ \A k \in 1 .. n - 1 : sub[k] = s[k]
  BY <1>1
<1> HIDE DEF sub
<1>7. sub[n-1] = s[n-1]
  BY <1>1, <1>6
<1>8. new = [sub EXCEPT ![n-1] = x]
  BY <1>7 DEF sub, m
<1> HIDE DEF x
<1>9. new \in Seq(Stacked) /\ Len(new) = n - 1 /\ \A k \in 1 .. n - 1 : new[k] = IF k = n - 1 THEN x ELSE s[k]
  <2>1. new \in Seq(Stacked) /\ Len(new) = Len(sub)
    BY <1>5, <1>6, <1>8
  <2>2. \A k \in 1 .. Len(sub) : new[k] = IF k = n - 1 THEN x ELSE sub[k]
    BY <1>6, <1>8
  <2> QED BY <1>6, <2>1, <2>2
<1>10. new # << >>
  BY <1>1, <1>9
<1>11. ASSUME NEW w \in Seq(Int) PROVE Accepts(w, new) <=> Accepts(w, s)
  <2>1. 1 .. n - 1 = (1 .. n - 2) \cup {n - 1} /\ 1 .. n = (1 .. n - 2) \cup {n - 1, n}
    BY <1>1
  <2>2. \A k \in 1 .. n - 2 : k \in 1 .. n - 1 /\ k # n - 1
    BY <1>1
  <2>3. \A k \in 1 .. n - 2 : new[k] = s[k]
    BY <1>9, <2>2
  <2>4. new[n-1].alt = m
    BY <1>1, <1>5, <1>9
  <2>5. Accepts(w, new) <=> ((\E k \in 1 .. n - 2 : Matches(w, s[k].alt)) \/ Matches(w, m))
    BY <1>9, <2>1, <2>3, <2>4 DEF Accepts
  <2>6. Accepts(w, s) <=> ((\E k \in 1 .. n - 2 : Matches(w, s[k].alt))
                             \/ Matches(w, s[n-1].alt) \/ Matches(w, s[n].alt))
    BY <2>1 DEF Accepts
  <2> QED BY <1>4, <2>5, <2>6
<1> QED BY <1>9, <1>10, <1>11

-----------------------------------------------------------------------------
(* The number of words                                                     *)

LEMMA ProductsFacts ==
    ASSUME NEW a \in Seq(Ranged)
    PROVE  /\ Products(a)[0] = 1
           /\ \A k \in 1 .. Len(a) : Products(a)[k] = Products(a)[k-1] * Size(a[k])
           /\ \A k \in 0 .. Len(a) : Products(a)[k] \in Int
<1> DEFINE n == Len(a)
           Fits(f) == f = [k \in 0 .. n |-> IF k = 0 THEN 1 ELSE f[k-1] * Size(a[k])]
           product == CHOOSE f : Fits(f)
           z == [k \in 1 .. n |-> Size(a[k])]
<1>1. n \in Nat /\ \A k \in 1 .. n : Size(a[k]) \in Int
  BY RangedAt DEF Size
<1>2. Products(a) = product
  BY DEF Products
<1> HIDE DEF n
<1>3. \E f : Fits(f)
  <2> DEFINE step == [w \in (1 .. n) \X Int |-> w[2] * Size(a[w[1]])]
             first == 1
             S == Int
  <2>1. step \in [(1 .. n) \X S -> S] /\ first \in S
    <3>1. ASSUME NEW w \in (1 .. n) \X Int PROVE w[2] * Size(a[w[1]]) \in Int
      <4>1. w[2] \in Int /\ Size(a[w[1]]) \in Int
        BY <1>1
      <4> HIDE DEF n
      <4> QED BY <4>1
    <3> QED BY <3>1
  <2>2. \A k \in 1 .. n, x \in S : step[<< k, x >>] = x * Size(a[k])
    OBVIOUS
  <2> HIDE DEF step, S, first
  <2>3. PICK f \in [0 .. n -> S] : IsLoop(f, n, first, step)
    BY <1>1, <2>1, LoopExists
  <2>4. ASSUME NEW k \in 1 .. n PROVE f[k] = f[k-1] * Size(a[k])
    <3>1. k - 1 \in 0 .. n
      BY <1>1
    <3>2. f[k-1] \in S
      BY <3>1
    <3> QED BY <2>2, <2>3, <3>2 DEF IsLoop
  <2>5. \A k \in 0 .. n : f[k] = IF k = 0 THEN first ELSE f[k-1] * Size(a[k])
    <3> TAKE k \in 0 .. n
    <3>1. CASE k = 0
      BY <2>3, <3>1 DEF IsLoop
    <3>2. CASE k # 0
      <4>1. k \in 1 .. n
        BY <1>1, <3>2
      <4> QED BY <2>4, <3>2, <4>1
    <3> QED BY <3>1, <3>2
  <2>6. f = [k \in 0 .. n |-> IF k = 0 THEN first ELSE f[k-1] * Size(a[k])]
    BY <2>3, <2>5
  <2> QED BY <2>6 DEF first
<1>4. Fits(product)
  BY <1>3
<1> HIDE DEF product
<1>5. product[0] = 1 /\ \A k \in 1 .. n : product[k] = product[k-1] * Size(a[k])
  <2>1. \A k \in 0 .. n : product[k] = IF k = 0 THEN 1 ELSE product[k-1] * Size(a[k])
    BY <1>4
  <2>2. 0 \in 0 .. n /\ \A k \in 1 .. n : k \in 0 .. n /\ k # 0
    BY <1>1
  <2> QED BY <2>1, <2>2
<1> DEFINE T == {k \in 0 .. n : product[k] \in Int}
<1>6. 0 \in T
  BY <1>1, <1>5
<1>7. ASSUME NEW k \in 0 .. n - 1, k \in T PROVE k + 1 \in T
  <2>1. k + 1 \in 1 .. n /\ k + 1 \in 0 .. n /\ (k + 1) - 1 = k
    BY <1>1
  <2>2. product[k + 1] = product[k] * Size(a[k + 1])
    BY <1>5, <2>1
  <2>3. product[k] \in Int /\ Size(a[k + 1]) \in Int
    BY <1>1, <1>7, <2>1
  <2> QED BY <2>1, <2>2, <2>3
<1> HIDE DEF T
<1>8. \A k \in 0 .. n : k \in T
  BY <1>1, <1>6, <1>7, BoundedInduction
<1> QED BY <1>2, <1>5, <1>8 DEF T, n

LEMMA VolumeType ==
    ASSUME NEW a \in Seq(Ranged)
    PROVE  Volume(a) \in Int
<1>1. Len(a) \in 0 .. Len(a)
  OBVIOUS
<1> QED BY <1>1, ProductsFacts DEF Volume

\* An encoding is one word.
LEMMA VolumeSingle ==
    ASSUME NEW word \in Seq(Int)
    PROVE  Volume(Single(word)) = 1
<1> DEFINE s == Single(word)
           n == Len(s)
           T == {k \in 0 .. n : Products(s)[k] = 1}
<1>1. s \in Seq(Ranged) /\ n \in Nat
  BY SingleMatches DEF Alternative
<1>2. \A k \in 1 .. n : Size(s[k]) = 1
  <2>1. Len(word) = n /\ \A k \in 1 .. n : word[k] \in Int
    BY DEF Single
  <2>2. ASSUME NEW k \in 1 .. n PROVE Size(s[k]) = 1
    <3>1. s[k] = [start |-> word[k], end |-> word[k]]
      BY <2>1 DEF Single
    <3>2. s[k].start = word[k] /\ s[k].end = word[k] /\ word[k] \in Int
      BY <2>1, <3>1
    <3> HIDE DEF s
    <3> QED BY <3>2 DEF Size
  <2> QED BY <2>2
<1> HIDE DEF s
<1>3. Products(s)[0] = 1 /\ \A k \in 1 .. n : Products(s)[k] = Products(s)[k-1] * Size(s[k])
  BY <1>1, ProductsFacts
<1>4. 0 \in T
  BY <1>1, <1>3
<1>5. ASSUME NEW k \in 0 .. n - 1, k \in T PROVE k + 1 \in T
  <2>1. k + 1 \in 1 .. n /\ k + 1 \in 0 .. n /\ (k + 1) - 1 = k
    BY <1>1
  <2>2. Products(s)[k + 1] = Products(s)[k] * Size(s[k + 1])
    BY <1>3, <2>1
  <2>3. Products(s)[k] = 1 /\ Size(s[k + 1]) = 1
    BY <1>2, <1>5, <2>1
  <2> QED BY <2>1, <2>2, <2>3
<1> HIDE DEF T
<1>6. \A k \in 0 .. n : k \in T
  BY <1>1, <1>4, <1>5, BoundedInduction
<1>7. n \in 0 .. n
  BY <1>1
<1> QED BY <1>6, <1>7 DEF T, Volume, s

LEMMA Distributes ==
    ASSUME NEW x \in Int, NEW y \in Int, NEW z \in Int
    PROVE  (x + y) * z = x * z + y * z /\ z * (x + y) = z * x + z * y
OBVIOUS

\* The merged alternative has as many words as the two that it stands for.
LEMMA VolumeMerged ==
    ASSUME NEW prev \in Alternative, NEW top \in Alternative, CanMerge(prev, top)
    PROVE  Volume(Merged(prev, top)) = Volume(prev) + Volume(top)
<1> DEFINE n == Len(prev)
           m == Merged(prev, top)
<1>1. n \in Nat /\ Len(top) = n /\ prev \in Seq(Ranged) /\ top \in Seq(Ranged)
  BY DEF CanMerge, Alternative
<1>2. PICK h \in 1 .. n : Adjacent(prev, top, h) /\ SameBut(prev, top, h)
  BY DEF CanMerge
<1>3. \A j \in 1 .. n : j # h => prev[j] = top[j]
  BY <1>2 DEF SameBut
<1>4. prev[h].end + 1 = top[h].start
  BY <1>2 DEF Adjacent
<1>5. \A j \in 1 .. n : /\ prev[j].start \in Int /\ prev[j].end \in Int /\ prev[j].start <= prev[j].end
                        /\ top[j].start \in Int /\ top[j].end \in Int /\ top[j].start <= top[j].end
                        /\ prev[j] \in Ranged /\ top[j] \in Ranged
  BY <1>1, AlternativeAt
<1>6. \A j \in 1 .. n : Adjacent(prev, top, j) <=> j = h
  <2> TAKE j \in 1 .. n
  <2>1. CASE j = h
    BY <1>2, <2>1
  <2>2. CASE j # h
    <3>1. top[j].start = prev[j].start
      BY <1>3, <2>2
    <3>2. prev[j].start \in Int /\ prev[j].end \in Int /\ prev[j].start <= prev[j].end
      BY <1>5
    <3>3. prev[j].end + 1 # top[j].start
      BY <3>1, <3>2
    <3> QED BY <2>2, <3>3 DEF Adjacent
  <2> QED BY <2>1, <2>2
<1>7. m \in Seq(Ranged) /\ Len(m) = n
  BY MergedMatches DEF Alternative, Merged
<1>8. \A j \in 1 .. n : j # h => m[j] = prev[j]
  BY <1>6 DEF Merged
<1>9. Size(m[h]) = Size(prev[h]) + Size(top[h])
  <2> DEFINE x == prev[h]
             e == top[h].end
  <2>1. m[h] = [x EXCEPT !.end = e]
    BY <1>6 DEF Merged
  <2>2. x \in [start : Int, end : Int] /\ x.start \in Int /\ x.end \in Int /\ e \in Int
        /\ top[h].start \in Int /\ x.end + 1 = top[h].start
    BY <1>4, <1>5 DEF Ranged
  <2> HIDE DEF x, m
  <2>3. m[h].start = x.start /\ m[h].end = e
    <3> HIDE DEF e
    <3> QED BY <2>1, <2>2
  <2>4. Size(m[h]) = e - x.start + 1 /\ Size(top[h]) = e - top[h].start + 1
    BY <2>3 DEF Size
  <2>5. Size(prev[h]) = x.end - x.start + 1
    BY DEF Size, x
  <2>6. \A a, b, c, d \in Int : b + 1 = c => d - a + 1 = (b - a + 1) + (d - c + 1)
    OBVIOUS
  <2> HIDE DEF e
  <2> QED BY <2>2, <2>4, <2>5, <2>6
<1> HIDE DEF m, n
<1> DEFINE P == Products(prev)
           Q == Products(top)
           M == Products(m)
<1>10. /\ P[0] = 1 /\ \A k \in 1 .. n : P[k] = P[k-1] * Size(prev[k])
       /\ Q[0] = 1 /\ \A k \in 1 .. n : Q[k] = Q[k-1] * Size(top[k])
       /\ M[0] = 1 /\ \A k \in 1 .. n : M[k] = M[k-1] * Size(m[k])
  BY <1>1, <1>7, ProductsFacts DEF n
<1>17. \A k \in 0 .. n : P[k] \in Int /\ Q[k] \in Int /\ M[k] \in Int
  BY <1>1, <1>7, ProductsFacts DEF n
<1>11. \A k \in 1 .. n : Size(prev[k]) \in Int /\ Size(top[k]) \in Int /\ Size(m[k]) \in Int
  <2>1. \A k \in 1 .. n : m[k].start \in Int /\ m[k].end \in Int
    BY <1>7, RangedAt
  <2> QED BY <1>5, <2>1 DEF Size
<1> HIDE DEF P, Q, M
<1> DEFINE T == {k \in 0 .. n : IF k < h THEN M[k] = P[k] /\ M[k] = Q[k] ELSE M[k] = P[k] + Q[k]}
<1>12. 0 \in T
  BY <1>1, <1>10
<1>13. ASSUME NEW k \in 0 .. n - 1, k \in T PROVE k + 1 \in T
  <2>1. /\ k + 1 \in 1 .. n /\ k + 1 \in 0 .. n /\ (k + 1) - 1 = k /\ h \in Int /\ k \in Int
        /\ k \in 0 .. n
    BY <1>1 DEF n
  <2> DEFINE p == Size(prev[k+1])
             q == Size(top[k+1])
             r == Size(m[k+1])
             x == P[k]
             y == Q[k]
             z == M[k]
  <2>2. P[k+1] = x * p /\ Q[k+1] = y * q /\ M[k+1] = z * r
    BY <1>10, <2>1
  <2>3. p \in Int /\ q \in Int /\ r \in Int /\ x \in Int /\ y \in Int /\ z \in Int
    BY <1>11, <1>17, <2>1
  <2>4. IF k < h THEN z = x /\ z = y ELSE z = x + y
    BY <1>13
  <2>5. k + 1 # h => p = q /\ r = p
    BY <1>3, <1>8, <2>1
  <2>6. k + 1 = h => r = p + q
    BY <1>9
  <2> HIDE DEF p, q, r, x, y, z
  <2>7. CASE k + 1 < h
    <3>1. M[k+1] = P[k+1] /\ M[k+1] = Q[k+1]
      BY <2>1, <2>2, <2>4, <2>5, <2>7
    <3> QED BY <2>1, <2>7, <3>1
  <2>8. CASE k + 1 = h
    <3>1. z = x /\ z = y /\ r = p + q
      BY <2>1, <2>4, <2>6, <2>8
    <3>2. M[k+1] = P[k+1] + Q[k+1]
      BY <2>2, <2>3, <3>1, Distributes
    <3> QED BY <2>1, <2>8, <3>2
  <2>9. CASE h < k + 1
    <3>1. z = x + y /\ p = q /\ r = p /\ ~(k + 1 < h)
      BY <2>1, <2>4, <2>5, <2>9
    <3>2. M[k+1] = P[k+1] + Q[k+1]
      BY <2>2, <2>3, <3>1, Distributes
    <3> QED BY <2>1, <3>1, <3>2
  <2> QED BY <2>1, <2>7, <2>8, <2>9
<1> HIDE DEF T
<1>14. \A k \in 0 .. n : k \in T
  BY <1>1, <1>12, <1>13, BoundedInduction DEF n
<1>15. n \in 0 .. n /\ ~(n < h)
  BY <1>1 DEF n
<1>16. M[n] = P[n] + Q[n]
  BY <1>14, <1>15 DEF T
<1> QED BY <1>1, <1>7, <1>16 DEF Volume, P, Q, M, n, m

\* The number of words of all alternatives of a stack.
Count(s) == SumTo(Volumes(s))[Len(s)]

LEMMA VolumesType ==
    ASSUME NEW s \in Seq(Stacked)
    PROVE  /\ Volumes(s) \in Seq(Int) /\ Len(Volumes(s)) = Len(s) /\ Len(s) \in Nat
           /\ \A k \in 1 .. Len(s) : Volumes(s)[k] = Volume(s[k].alt) /\ Volume(s[k].alt) \in Int
<1>1. ASSUME NEW k \in 1 .. Len(s) PROVE Volume(s[k].alt) \in Int
  <2>1. s[k] \in Stacked
    OBVIOUS
  <2>2. s[k].alt \in Seq(Ranged)
    BY <2>1 DEF Stacked, Alternative
  <2> QED BY <2>2, VolumeType
<1>2. Len(s) \in Nat
  OBVIOUS
<1> QED BY <1>1, <1>2, IsSequence DEF Volumes

LEMMA CountAppend ==
    ASSUME NEW s \in Seq(Stacked), NEW e \in Stacked
    PROVE  Count(Append(s, e)) = Count(s) + Volume(e.alt)
<1> DEFINE new == Append(s, e)
           n == Len(s)
<1>1. n \in Nat /\ Len(new) = n + 1 /\ new[n + 1] = e /\ (\A k \in 1 .. n : new[k] = s[k])
      /\ new \in Seq(Stacked)
  OBVIOUS
<1> HIDE DEF new
<1>2. /\ Volumes(s) \in Seq(Int) /\ Len(Volumes(s)) = n
      /\ \A k \in 1 .. n : Volumes(s)[k] = Volume(s[k].alt)
      /\ Volumes(new) \in Seq(Int) /\ Len(Volumes(new)) = n + 1
      /\ \A k \in 1 .. n + 1 : Volumes(new)[k] = Volume(new[k].alt)
  BY <1>1, VolumesType
<1>3. \A k \in 1 .. n : k \in 1 .. n + 1
  BY <1>1
<1>4. \A k \in 1 .. n : Volumes(new)[k] = Volumes(s)[k]
  BY <1>1, <1>2, <1>3
<1>5. Volumes(new)[n + 1] = Volume(e.alt)
  <2>1. n + 1 \in 1 .. n + 1
    BY <1>1
  <2> QED BY <1>1, <1>2, <2>1
<1> HIDE DEF n
<1>6. SumTo(Volumes(new))[n + 1] = SumTo(Volumes(s))[n] + Volumes(new)[n + 1]
  BY <1>2, <1>4, SumToAppend
<1> QED BY <1>1, <1>5, <1>6 DEF Count, new, n

LEMMA CountFinalized ==
    ASSUME NEW s \in Seq(Stacked)
    PROVE  Count(Finalized(s)) = Count(s)
<1> DEFINE n == Len(s)
           f == Finalized(s)
<1>1. n \in Nat /\ (s # << >> => n \in 1 .. n) /\ \A k \in 1 .. n : s[k] \in Stacked
  OBVIOUS
<1>2. CASE f = s
  BY <1>2
<1>3. CASE f # s
  <2>1. f = [s EXCEPT ![n].closed = TRUE] /\ s # << >>
    BY <1>3 DEF Finalized
  <2>2. Len(f) = n /\ \A k \in 1 .. n : f[k].alt = s[k].alt
    <3> DEFINE x == [s[n] EXCEPT !.closed = TRUE]
    <3>1. f = [s EXCEPT ![n] = x]
      BY <2>1
    <3>2. x \in Stacked /\ x.alt = s[n].alt
      <4> DEFINE y == s[n]
      <4>1. y \in Stacked
        BY <1>1, <2>1
      <4> HIDE DEF y
      <4>2. [y EXCEPT !.closed = TRUE] \in Stacked /\ [y EXCEPT !.closed = TRUE].alt = y.alt
        BY <4>1 DEF Stacked
      <4> QED BY <4>2 DEF y
    <3>4. s # << >>
      BY <2>1
    <3> HIDE DEF x, f
    <3>3. f \in Seq(Stacked) /\ Len(f) = n /\ \A k \in 1 .. n : f[k] = IF k = n THEN x ELSE s[k]
      BY <1>1, <3>1, <3>2, <3>4
    <3> QED BY <3>2, <3>3
  <2> HIDE DEF f
  <2>3. Volumes(f) = Volumes(s)
    BY <2>2 DEF Volumes
  <2> QED BY <2>2, <2>3 DEF Count, f
<1> QED BY <1>2, <1>3

LEMMA CountMerged ==
    ASSUME NEW s \in Seq(Stacked), NEW n, n = Len(s), n >= 2,
           CanMerge(s[n-1].alt, s[n].alt),
           NEW new, new = [SubSeq(s, 1, n - 1) EXCEPT ![n-1].alt = Merged(s[n-1].alt, s[n].alt)]
    PROVE  Count(new) = Count(s)
<1> DEFINE m == Merged(s[n-1].alt, s[n].alt)
           x == [s[n-1] EXCEPT !.alt = m]
           sub == SubSeq(s, 1, n - 1)
<1>1. n \in Nat /\ n - 1 \in 1 .. n /\ n \in 1 .. n /\ n - 1 \in 1 .. n - 1
  OBVIOUS
<1>2. s[n-1] \in Stacked /\ s[n] \in Stacked
  BY <1>1
<1>3. s[n-1].alt \in Alternative /\ s[n].alt \in Alternative
  BY <1>2 DEF Stacked
<1>4. Volume(m) = Volume(s[n-1].alt) + Volume(s[n].alt)
  BY <1>3, VolumeMerged
<1>5. m \in Alternative
  BY <1>3, MergedMatches
<1> HIDE DEF m
<1>6. x \in Stacked /\ x.alt = m
  BY <1>2, <1>5 DEF Stacked
<1>7. sub \in Seq(Stacked) /\ Len(sub) = n - 1 /\ \A k \in 1 .. n - 1 : sub[k] = s[k]
  BY <1>1
<1> HIDE DEF sub
<1>8. sub[n-1] = s[n-1]
  BY <1>1, <1>7
<1>9. new = [sub EXCEPT ![n-1] = x]
  BY <1>8 DEF sub, m
<1> HIDE DEF x
<1>10. new \in Seq(Stacked) /\ Len(new) = n - 1 /\ \A k \in 1 .. n - 1 : new[k] = IF k = n - 1 THEN x ELSE s[k]
  <2>1. new \in Seq(Stacked) /\ Len(new) = Len(sub)
    BY <1>6, <1>7, <1>9
  <2>2. \A k \in 1 .. Len(sub) : new[k] = IF k = n - 1 THEN x ELSE sub[k]
    BY <1>7, <1>9
  <2> QED BY <1>7, <2>1, <2>2
<1> DEFINE a == Volumes(s)
           b == Volumes(new)
<1>11. /\ a \in Seq(Int) /\ Len(a) = n /\ \A k \in 1 .. n : a[k] = Volume(s[k].alt)
       /\ b \in Seq(Int) /\ Len(b) = n - 1 /\ \A k \in 1 .. n - 1 : b[k] = Volume(new[k].alt)
  BY <1>10, VolumesType
<1> HIDE DEF a, b
<1>12. n - 2 \in Nat /\ n - 2 <= n /\ n - 2 <= n - 1 /\ n - 2 \in 0 .. n - 2
       /\ \A k \in 1 .. n - 2 : k \in 1 .. n - 1 /\ k \in 1 .. n /\ k # n - 1
  BY <1>1
<1>13. ASSUME NEW k \in 1 .. n - 2 PROVE b[k] = a[k]
  <2>1. k \in 1 .. n - 1 /\ k \in 1 .. n /\ k # n - 1
    BY <1>12
  <2>2. new[k] = s[k]
    BY <1>10, <2>1
  <2>3. b[k] = Volume(new[k].alt) /\ a[k] = Volume(s[k].alt)
    BY <1>11, <2>1
  <2> QED BY <2>2, <2>3
<1>14. SumTo(b)[n - 2] = SumTo(a)[n - 2]
  BY <1>11, <1>12, <1>13, SumToSame
<1>15. /\ SumTo(a)[n] = SumTo(a)[n - 1] + a[n]
       /\ SumTo(a)[n - 1] = SumTo(a)[n - 2] + a[n - 1]
       /\ SumTo(b)[n - 1] = SumTo(b)[n - 2] + b[n - 1]
       /\ SumTo(a)[n - 2] \in Int
  <2>1. (n - 1) - 1 = n - 2 /\ n - 2 \in 0 .. n
    BY <1>1, <1>12
  <2>2. /\ SumTo(a) \in [0 .. n -> Int] /\ \A k \in 1 .. n : SumTo(a)[k] = SumTo(a)[k-1] + a[k]
        /\ \A k \in 1 .. n - 1 : SumTo(b)[k] = SumTo(b)[k-1] + b[k]
    BY <1>11, SumToFacts
  <2>3. SumTo(a)[n] = SumTo(a)[n - 1] + a[n]
    BY <1>1, <2>2
  <2>4. SumTo(a)[n - 1] = SumTo(a)[(n - 1) - 1] + a[n - 1] /\ SumTo(b)[n - 1] = SumTo(b)[(n - 1) - 1] + b[n - 1]
    BY <1>1, <2>2
  <2>5. SumTo(a)[n - 2] \in Int
    BY <2>1, <2>2
  <2> QED BY <2>1, <2>3, <2>4, <2>5
<1>16. b[n - 1] = a[n - 1] + a[n] /\ a[n - 1] \in Int /\ a[n] \in Int
  <2>1. b[n - 1] = Volume(m) /\ a[n - 1] = Volume(s[n-1].alt) /\ a[n] = Volume(s[n].alt)
    BY <1>1, <1>6, <1>10, <1>11
  <2>2. a[n - 1] \in Int /\ a[n] \in Int
    BY <1>1, <1>11
  <2> QED BY <1>4, <2>1, <2>2
<1>17. SumTo(b)[n - 1] = SumTo(a)[n]
  BY <1>14, <1>15, <1>16
<1> QED BY <1>10, <1>17 DEF Count, a, b

-----------------------------------------------------------------------------
(* The loop over the code points                                           *)

\* Which code points have been pushed.
Pushed(p) == IF pc = "merge2" THEN p <= code ELSE stack # << >> /\ p <= lastcode

\* The loop is at a code point of the class, and those before it were pushed.
PlaceInv ==
    /\ pc = "merge2" => stack # << >>
    /\ pc \in {"encode", "merge2"} /\ i <= Len(arg) => arg[i].start <= code /\ code <= arg[i].end
    /\ pc = "encode" => \A p \in Int : In(p, arg) => (Pushed(p) <=> (i > Len(arg) \/ p < code))

\* The alternatives stand for the encodings of the code points that were pushed.
LanguageInv ==
    Encoding =>
      /\ stack \in Seq(Stacked)
      /\ lastcode \in Int
      /\ \A w \in Seq(Int) :
           Accepts(w, stack) <=> \E p \in Int : In(p, arg) /\ Pushed(p) /\ w = Enc(p)

EncodeInv == PlaceInv /\ LanguageInv

\* A code point of the class is in the ranges up to the n-th, or behind it.
LEMMA BeforeOrBehind ==
    ASSUME NEW cr \in Seq(Ranged), NEW low, AllFit(cr, low), Apart(cr, Len(cr)),
           NEW n \in 1 .. Len(cr), NEW p \in Int, In(p, cr)
    PROVE  \/ p <= cr[n].end
           \/ n < Len(cr) /\ cr[n].end < cr[n+1].start /\ cr[n+1].start <= p
<1>1. PICK k \in 1 .. Len(cr) : cr[k].start <= p /\ p <= cr[k].end
  BY DEF In, InPart
<1>2. n \in Nat /\ k \in Nat /\ Len(cr) \in Nat
  OBVIOUS
<1>3. /\ cr[k].start \in Int /\ cr[k].end \in Int /\ cr[n].start \in Int /\ cr[n].end \in Int
      /\ cr[n].start <= cr[n].end
  BY RangedAt DEF AllFit, Within
<1>4. CASE k = n
  BY <1>1, <1>4
<1>5. CASE k < n
  <2>1. cr[k].end + 1 < cr[n].start
    BY <1>5 DEF Apart
  <2> QED BY <1>1, <1>3, <2>1
<1>6. CASE k > n
  <2>1. n + 1 \in 1 .. Len(cr) /\ n < Len(cr) /\ n < n + 1
    BY <1>2, <1>6
  <2>2. cr[n+1].start \in Int /\ cr[n+1].end \in Int /\ cr[n+1].start <= cr[n+1].end
    BY <2>1, RangedAt DEF AllFit, Within
  <2>3. cr[n].end + 1 < cr[n+1].start
    BY <2>1 DEF Apart
  <2>4. cr[n].end < cr[n+1].start
    BY <1>3, <2>2, <2>3
  <2>5. CASE k = n + 1
    BY <1>1, <2>1, <2>4, <2>5
  <2>6. CASE k > n + 1
    <3>1. cr[n+1].end + 1 < cr[k].start
      BY <2>1, <2>6 DEF Apart
    <3>2. cr[n+1].start <= cr[k].start
      BY <1>3, <2>2, <3>1
    <3>3. cr[n+1].start <= p
      BY <1>1, <1>3, <2>2, <3>2
    <3> QED BY <2>1, <2>4, <3>3
  <2>7. k = n + 1 \/ k > n + 1
    BY <1>2, <1>6
  <2> QED BY <2>5, <2>6, <2>7
<1> QED BY <1>2, <1>4, <1>5, <1>6

\* What the loop may rely on.
LEMMA EncodeFacts ==
    ASSUME NormInv, LoopInv, FitInv, pc \in {"call", "unfold", "encode", "merge2"}
    PROVE  /\ arg \in Seq(Ranged) /\ Len(arg) \in Nat /\ AllFit(arg, Bottom) /\ Bottom \in Int
           /\ Bottom >= 0 /\ Apart(arg, Len(arg)) /\ i \in Nat /\ code \in Int
<1>1. arg \in Seq(Ranged) /\ i \in Nat /\ code \in Int /\ AllFit(arg, Bottom)
  BY Typed DEF FitInv
<1>2. Apart(arg, Len(arg))
  BY DEF NormInv, ControlInv, CanonInv, Names, arg
<1> QED BY <1>1, <1>2, BottomType

\* The loop over the code points begins with the first of them ...
LEMMA FirstCode ==
    ASSUME NEW cr \in Seq(Ranged), NEW low, AllFit(cr, low), Apart(cr, Len(cr)), cr # << >>
    PROVE  /\ 1 \in 1 .. Len(cr) /\ cr[1].start \in Int /\ cr[1].start <= cr[1].end
           /\ \A p \in Int : In(p, cr) => ~(p < cr[1].start)
<1>1. 1 \in 1 .. Len(cr)
  OBVIOUS
<1>2. cr[1].start \in Int /\ cr[1].end \in Int /\ cr[1].start <= cr[1].end
  BY <1>1, RangedAt DEF AllFit, Within
<1>3. ASSUME NEW p \in Int, In(p, cr) PROVE ~(p < cr[1].start)
  <2>1. PICK k \in 1 .. Len(cr) : cr[k].start <= p /\ p <= cr[k].end
    BY <1>3 DEF In, InPart
  <2>2. k \in Nat /\ cr[k].start \in Int
    BY RangedAt
  <2>3. 1 < k => cr[1].end + 1 < cr[k].start
    BY <1>1 DEF Apart
  <2>4. CASE k = 1
    BY <1>2, <1>3, <2>1, <2>4
  <2>5. CASE 1 < k
    BY <1>2, <1>3, <2>1, <2>2, <2>3, <2>5
  <2> QED BY <2>2, <2>4, <2>5
<1> QED BY <1>1, <1>2, <1>3

\* ... and goes on with the next one: those before it are the ones before the last,
\* and the last.
LEMMA FollowingCode ==
    ASSUME arg \in Seq(Ranged), NEW low, AllFit(arg, low), Apart(arg, Len(arg)),
           i \in 1 .. Len(arg), code \in Int, arg[i].start <= code, code <= arg[i].end, NextCode
    PROVE  /\ i' <= Len(arg) => arg[i'].start <= code' /\ code' <= arg[i'].end
           /\ \A p \in Int : In(p, arg) => (p <= code <=> (i' > Len(arg) \/ p < code'))
<1>1. i \in Nat /\ Len(arg) \in Nat /\ arg[i].start \in Int /\ arg[i].end \in Int
  BY RangedAt
<1>2. CASE code < arg[i].end
  <2>1. code' = code + 1 /\ i' = i
    BY <1>2 DEF NextCode
  <2> QED BY <1>1, <1>2, <2>1
<1>3. CASE ~(code < arg[i].end)
  <2>1. code = arg[i].end
    BY <1>1, <1>3
  <2>2. i' = i + 1 /\ code' = IF i < Len(arg) THEN arg[i+1].start ELSE code
    BY <1>3 DEF NextCode
  <2>3. \A p \in Int : In(p, arg) =>
          \/ p <= arg[i].end
          \/ i < Len(arg) /\ arg[i].end < arg[i+1].start /\ arg[i+1].start <= p
    BY BeforeOrBehind
  <2>4. CASE i < Len(arg)
    <3>1. i + 1 \in 1 .. Len(arg) /\ ~(i' > Len(arg)) /\ code' = arg[i+1].start
      BY <1>1, <2>2, <2>4
    <3>2. arg[i+1].start \in Int /\ arg[i+1].end \in Int /\ arg[i+1].start <= arg[i+1].end
      BY <3>1, RangedAt DEF AllFit, Within
    <3>3. arg[i].end + 1 < arg[i+1].start
      <4>1. i < i + 1
        BY <1>1
      <4> QED BY <3>1, <4>1 DEF Apart
    <3>4. \A p \in Int : In(p, arg) => (p <= code <=> p < code')
      BY <1>1, <2>1, <2>3, <3>1, <3>2, <3>3
    <3> QED BY <2>2, <3>1, <3>2, <3>4
  <2>5. CASE ~(i < Len(arg))
    <3>1. i' > Len(arg) /\ ~(i' <= Len(arg))
      BY <1>1, <2>2, <2>5
    <3> QED BY <2>1, <2>3, <2>5, <3>1
  <2> QED BY <2>4, <2>5
<1> QED BY <1>2, <1>3

\* A code point of the class has an encoding, which is a word.
LEMMA EncType ==
    ASSUME NEW p \in Nat
    PROVE  Enc(p) \in Seq(Int)
BY UtfType, CharsType DEF Enc

\* Elsewhere the invariant says nothing.
LEMMA NotEncoding ==
    ASSUME pc' \notin {"encode", "merge2"}, ~(pc' = "done" /\ op' \in {"asbr", "assr"})
    PROVE  EncodeInv'
BY DEF EncodeInv, PlaceInv, LanguageInv, Encoding

LEMMA EncodeBeginInv == NormInv /\ LoopInv /\ FitInv /\ EncodeBegin => EncodeInv'
<1> SUFFICES ASSUME NormInv, LoopInv, FitInv, EncodeBegin PROVE EncodeInv'
  OBVIOUS
<1>1. /\ pc = "call" /\ pc' = "encode" /\ i' = 1 /\ stack' = << >> /\ lastcode' = 0 /\ arg' = arg
      /\ code' = IF arg = << >> THEN 0 ELSE arg[1].start
  BY DEF EncodeBegin, normVars, arg
<1>2. /\ arg \in Seq(Ranged) /\ Len(arg) \in Nat /\ AllFit(arg, Bottom)
      /\ Apart(arg, Len(arg))
  BY <1>1, EncodeFacts
<1>3. \A p \in Int : ~Pushed(p)'
  BY <1>1 DEF Pushed
<1>4. 1 <= Len(arg) <=> arg # << >>
  BY <1>2
<1>5. 1 <= Len(arg) => arg[1].start <= code' /\ code' <= arg[1].end
  BY <1>1, <1>2, <1>4, FirstCode
<1>6. \A p \in Int : In(p, arg) => ~(1 > Len(arg) \/ p < code')
  <2> SUFFICES ASSUME NEW p \in Int, In(p, arg) PROVE ~(1 > Len(arg)) /\ ~(p < code')
    OBVIOUS
  <2>1. arg # << >>
    BY DEF In, InPart
  <2> QED BY <1>1, <1>2, <1>4, <2>1, FirstCode
<1>7. PlaceInv'
  BY <1>1, <1>3, <1>5, <1>6 DEF PlaceInv
<1>8. LanguageInv'
  <2>1. << >> \in Seq(Stacked) /\ \A w : ~Accepts(w, << >>)
    BY DEF Accepts
  <2> QED BY <1>1, <1>3, <2>1 DEF LanguageInv
<1> QED BY <1>7, <1>8 DEF EncodeInv

LEMMA EncodeCodeInv == NormInv /\ LoopInv /\ FitInv /\ EncodeInv /\ EncodeCode => EncodeInv'
<1> SUFFICES ASSUME NormInv, LoopInv, FitInv, EncodeInv, EncodeCode PROVE EncodeInv'
  OBVIOUS
<1> DEFINE e == [closed |-> FALSE, alt |-> Single(Enc(code))]
<1>1. /\ pc = "encode" /\ pc' = "merge2" /\ i <= Len(arg) /\ arg' = arg /\ i' = i /\ code' = code
      /\ lastcode' = lastcode /\ op' = op /\ flags' = flags
      /\ stack' = Append(Finalized(stack), e)
  BY DEF EncodeCode, normVars, arg
<1>2. /\ arg \in Seq(Ranged) /\ Len(arg) \in Nat /\ AllFit(arg, Bottom) /\ Bottom \in Int /\ Bottom >= 0
      /\ i \in Nat /\ 1 <= i /\ code \in Int
  BY <1>1, EncodeFacts DEF LoopInv
<1>3. i \in 1 .. Len(arg) /\ arg[i].start <= code /\ code <= arg[i].end
  BY <1>1, <1>2 DEF EncodeInv, PlaceInv
<1>4. In(code, arg)
  BY <1>3 DEF In, InPart
<1>5. code \in Nat
  <2>1. arg[i].start \in Int /\ Bottom <= arg[i].start
    BY <1>2, <1>3, RangedAt DEF AllFit, Within
  <2> QED BY <1>2, <1>3, <2>1
<1>6. Enc(code) \in Seq(Int)
  BY <1>5, EncType
<1>7. Single(Enc(code)) \in Alternative
      /\ \A w \in Seq(Int) : Matches(w, Single(Enc(code))) <=> w = Enc(code)
  BY <1>6, SingleMatches
<1>8. Encoding /\ op \in {"asbr", "assr"}
  BY <1>1 DEF Encoding, NormInv, ControlInv
<1>9. stack \in Seq(Stacked) /\ lastcode \in Int
  BY <1>8 DEF EncodeInv, LanguageInv
<1>10. e \in Stacked /\ e.alt = Single(Enc(code))
  BY <1>7 DEF Stacked
<1> HIDE DEF e
<1>11. stack' \in Seq(Stacked) /\ \A w : Accepts(w, stack') <=> (Accepts(w, stack) \/ Matches(w, e.alt))
  <2>1. Finalized(stack) \in Seq(Stacked) /\ \A w : Accepts(w, Finalized(stack)) <=> Accepts(w, stack)
    BY <1>9, AcceptsFinalized
  <2>2. /\ Append(Finalized(stack), e) \in Seq(Stacked)
        /\ \A w : Accepts(w, Append(Finalized(stack), e))
                    <=> (Accepts(w, Finalized(stack)) \/ Matches(w, e.alt))
    BY <1>10, <2>1, AcceptsAppend
  <2> QED BY <1>1, <2>1, <2>2
<1>12. stack' # << >>
  <2>1. Finalized(stack) \in Seq(Stacked)
    BY <1>9, AcceptsFinalized
  <2> QED BY <1>1, <1>10, <2>1
<1>13. \A p \in Int : In(p, arg) => (Pushed(p)' <=> (Pushed(p) \/ p = code))
  <2> SUFFICES ASSUME NEW p \in Int, In(p, arg) PROVE Pushed(p)' <=> (Pushed(p) \/ p = code)
    OBVIOUS
  <2>1. Pushed(p) <=> p < code
    <3>1. ~(i > Len(arg))
      BY <1>1, <1>2
    <3> QED BY <1>1, <3>1 DEF EncodeInv, PlaceInv
  <2>2. Pushed(p)' <=> p <= code
    BY <1>1 DEF Pushed
  <2> QED BY <1>2, <2>1, <2>2
<1>14. \A p : Enc(p)' = Enc(p)
  BY <1>1 DEF Enc
<1>15. ASSUME NEW w \in Seq(Int)
       PROVE  Accepts(w, stack') <=> \E p \in Int : In(p, arg) /\ Pushed(p)' /\ w = Enc(p)
  <2>1. Accepts(w, stack) <=> \E p \in Int : In(p, arg) /\ Pushed(p) /\ w = Enc(p)
    BY <1>8 DEF EncodeInv, LanguageInv
  <2>2. Matches(w, e.alt) <=> w = Enc(code)
    BY <1>7, <1>10
  <2>3. (\E p \in Int : In(p, arg) /\ Pushed(p)' /\ w = Enc(p))
          <=> ((\E p \in Int : In(p, arg) /\ Pushed(p) /\ w = Enc(p)) \/ w = Enc(code))
    <3> DEFINE was(p) == Pushed(p)
               now(p) == Pushed(p)'
    <3>1. \A p \in Int : In(p, arg) => (now(p) <=> (was(p) \/ p = code))
      BY <1>13
    <3> HIDE DEF was, now
    <3>2. (\E p \in Int : In(p, arg) /\ now(p) /\ w = Enc(p))
            <=> ((\E p \in Int : In(p, arg) /\ was(p) /\ w = Enc(p)) \/ w = Enc(code))
      BY <1>2, <1>4, <3>1, Zenon
    <3> QED BY <3>2 DEF was, now
  <2> QED BY <1>11, <2>1, <2>2, <2>3
<1>16. LanguageInv'
  BY <1>1, <1>9, <1>11, <1>14, <1>15 DEF LanguageInv
<1>17. PlaceInv'
  BY <1>1, <1>3, <1>12 DEF PlaceInv
<1> QED BY <1>16, <1>17 DEF EncodeInv

LEMMA MergeTopInv == NormInv /\ LoopInv /\ FitInv /\ EncodeInv /\ MergeTop => EncodeInv'
<1> SUFFICES ASSUME NormInv, LoopInv, FitInv, EncodeInv, MergeTop PROVE EncodeInv'
  OBVIOUS
<1> DEFINE n == Len(stack)
<1>1. /\ pc = "merge2" /\ pc' = "merge2" /\ arg' = arg /\ i' = i /\ code' = code
      /\ lastcode' = lastcode /\ op' = op /\ flags' = flags
      /\ n >= 2 /\ CanMerge(stack[n-1].alt, stack[n].alt)
      /\ stack' = [SubSeq(stack, 1, n - 1) EXCEPT ![n-1].alt = Merged(@, stack[n].alt)]
  BY DEF MergeTop, Mergeable, normVars, arg
<1>2. Encoding
  BY <1>1 DEF Encoding, NormInv, ControlInv
<1>3. stack \in Seq(Stacked) /\ lastcode \in Int
  BY <1>2 DEF EncodeInv, LanguageInv
<1>4. stack' = [SubSeq(stack, 1, n - 1) EXCEPT ![n-1].alt = Merged(stack[n-1].alt, stack[n].alt)]
  <2>1. n - 1 \in 1 .. n - 1 /\ SubSeq(stack, 1, n - 1)[n-1] = stack[n-1]
    BY <1>1, <1>3
  <2> HIDE DEF n
  <2> QED BY <1>1, <2>1
<1>5. stack' \in Seq(Stacked) /\ stack' # << >>
      /\ \A w \in Seq(Int) : Accepts(w, stack') <=> Accepts(w, stack)
  BY <1>1, <1>3, <1>4, AcceptsMerged
<1>6. \A p : (Pushed(p)' <=> Pushed(p)) /\ Enc(p)' = Enc(p)
  BY <1>1 DEF Pushed, Enc
<1>7. LanguageInv'
  <2>1. \A w \in Seq(Int) : Accepts(w, stack) <=> \E p \in Int : In(p, arg) /\ Pushed(p) /\ w = Enc(p)
    BY <1>2 DEF EncodeInv, LanguageInv
  <2>2. \A w \in Seq(Int) : Accepts(w, stack') <=> \E p \in Int : In(p, arg) /\ Pushed(p)' /\ w = Enc(p)'
    BY <1>5, <1>6, <2>1
  <2> QED BY <1>1, <1>3, <1>5, <2>2 DEF LanguageInv
<1>8. PlaceInv'
  BY <1>1, <1>5 DEF EncodeInv, PlaceInv
<1> QED BY <1>7, <1>8 DEF EncodeInv

LEMMA MergeTopEndInv == NormInv /\ LoopInv /\ FitInv /\ EncodeInv /\ MergeTopEnd => EncodeInv'
<1> SUFFICES ASSUME NormInv, LoopInv, FitInv, EncodeInv, MergeTopEnd PROVE EncodeInv'
  OBVIOUS
<1>1. /\ pc = "merge2" /\ pc' = "encode" /\ arg' = arg /\ op' = op /\ flags' = flags
      /\ lastcode' = code /\ stack' = stack /\ NextCode
  BY DEF MergeTopEnd, normVars, arg
<1>2. /\ arg \in Seq(Ranged) /\ Len(arg) \in Nat /\ AllFit(arg, Bottom) /\ Apart(arg, Len(arg))
      /\ i \in Nat /\ 1 <= i /\ i <= Len(arg) /\ code \in Int
  BY <1>1, EncodeFacts DEF LoopInv
<1>3. i \in 1 .. Len(arg) /\ arg[i].start <= code /\ code <= arg[i].end /\ stack # << >>
  BY <1>1, <1>2 DEF EncodeInv, PlaceInv
<1>4. arg[i].start \in Int /\ arg[i].end \in Int
  BY <1>2, <1>3, RangedAt
<1>5. Encoding
  BY <1>1 DEF Encoding, NormInv, ControlInv
<1>6. \A p : (Pushed(p)' <=> p <= code) /\ (Pushed(p) <=> p <= code) /\ Enc(p)' = Enc(p)
  BY <1>1, <1>3 DEF Pushed, Enc
<1>7. LanguageInv'
  <2>1. \A w \in Seq(Int) : Accepts(w, stack) <=> \E p \in Int : In(p, arg) /\ Pushed(p) /\ w = Enc(p)
    BY <1>5 DEF EncodeInv, LanguageInv
  <2>2. \A w \in Seq(Int) : Accepts(w, stack) <=> \E p \in Int : In(p, arg) /\ Pushed(p)' /\ w = Enc(p)'
    BY <1>6, <2>1
  <2>3. stack \in Seq(Stacked)
    BY <1>5 DEF EncodeInv, LanguageInv
  <2> QED BY <1>1, <1>2, <2>2, <2>3 DEF LanguageInv
<1>8. /\ i' <= Len(arg) => arg[i'].start <= code' /\ code' <= arg[i'].end
      /\ \A p \in Int : In(p, arg) => (p <= code <=> (i' > Len(arg) \/ p < code'))
  BY <1>1, <1>2, <1>3, FollowingCode
<1>9. PlaceInv'
  BY <1>1, <1>6, <1>8 DEF PlaceInv
<1> QED BY <1>7, <1>9 DEF EncodeInv

LEMMA EncodeEndInv == NormInv /\ EncodeInv /\ EncodeEnd => EncodeInv'
<1> SUFFICES ASSUME NormInv, EncodeInv, EncodeEnd PROVE EncodeInv'
  OBVIOUS
<1>1. /\ pc = "encode" /\ pc' = "done" /\ arg' = arg /\ op' = op /\ flags' = flags
      /\ lastcode' = lastcode /\ stack' = stack /\ code' = code
  BY DEF EncodeEnd, normVars, arg
<1>2. Encoding
  BY <1>1 DEF Encoding, NormInv, ControlInv
<1>3. \A p : (Pushed(p)' <=> Pushed(p)) /\ Enc(p)' = Enc(p)
  BY <1>1 DEF Pushed, Enc
<1>4. \A w \in Seq(Int) : Accepts(w, stack) <=> \E p \in Int : In(p, arg) /\ Pushed(p) /\ w = Enc(p)
  BY <1>2 DEF EncodeInv, LanguageInv
<1>5. \A w \in Seq(Int) : Accepts(w, stack) <=> \E p \in Int : In(p, arg) /\ Pushed(p)' /\ w = Enc(p)'
  BY <1>3, <1>4
<1>6. stack \in Seq(Stacked) /\ lastcode \in Int
  BY <1>2 DEF EncodeInv, LanguageInv
<1> QED BY <1>1, <1>5, <1>6 DEF EncodeInv, LanguageInv, PlaceInv

LEMMA EncodeInvStep == NormInv /\ LoopInv /\ FitInv /\ EncodeInv /\ [Next]_vars => EncodeInv'
<1> SUFFICES ASSUME NormInv, LoopInv, FitInv, EncodeInv, [Next]_vars PROVE EncodeInv'
  OBVIOUS
<1>1. CASE Encode
  BY <1>1, EncodeBeginInv, EncodeCodeInv, MergeTopInv, MergeTopEndInv, EncodeEndInv DEF Encode
<1>2. CASE Start
  BY <1>2, NotEncoding DEF Start
<1>3. CASE CallNorm
  BY <1>3, NotEncoding DEF CallNorm
<1>4. CASE Norm
  <2>1. pc' \in {"merge", "call", "dup"}
    BY <1>4 DEF Norm, NormKnown, NormShort, NormSort, MergeExtend, MergeShift, MergeLast, AfterNorm
  <2> QED BY <2>1, NotEncoding
<1>5. CASE Unfold
  <2>1. op = "unfold" /\ op' = op /\ pc' \notin {"encode", "merge2"}
    BY <1>5 DEF NormInv, ControlInv, Unfold, UnfoldEmpty, UnfoldBegin, UnfoldCode, UnfoldEnd, UnfoldDup
  <2> QED BY <2>1, NotEncoding
<1>6. CASE Negate
  <2>1. op \in {"negate", "negate-smp"} /\ op' = op /\ pc' \notin {"encode", "merge2"}
    BY <1>6 DEF NormInv, ControlInv, Negate, NegateEmpty, NegateBegin, NegateRange, NegateRest
  <2> QED BY <2>1, NotEncoding
<1>7. CASE \E o \in Ops, f \in Flags : Again(o, f)
  BY <1>7, NotEncoding DEF Again
<1>8. CASE UNCHANGED vars
  <2>1. /\ pc' = pc /\ arg' = arg /\ op' = op /\ flags' = flags /\ i' = i
        /\ lastcode' = lastcode /\ stack' = stack /\ code' = code
    BY <1>8 DEF vars, arg
  <2> QED BY <2>1 DEF EncodeInv, PlaceInv, LanguageInv, Encoding, Pushed, Enc
<1> QED BY <1>1, <1>2, <1>3, <1>4, <1>5, <1>6, <1>7, <1>8 DEF Next

\* At every step the alternatives stand for the encodings of what was pushed.
THEOREM EncodeInvariant == Spec => []EncodeInv
<1>1. Init => EncodeInv
  BY DEF Init, EncodeInv, PlaceInv, LanguageInv, Encoding
<1>2. (NormInv /\ LoopInv) /\ (FitInv /\ NegateInv) /\ EncodeInv /\ [Next]_vars => EncodeInv'
  BY EncodeInvStep
<1> QED BY <1>1, <1>2, NormInvariant, NegateInvariant, PTL DEF Spec

\* The alternatives of asbr.c and assr.c match exactly the encodings of the code points
\* of the class, at every step and however they were merged: for every class, in UTF-8
\* with its variants and in UTF-16.
THEOREM AlternativesExact == Spec => []LanguageExact
<1>1. (NormInv /\ LoopInv) /\ EncodeInv => LanguageExact
  <2> SUFFICES ASSUME NormInv, EncodeInv, Encoding, NEW w \in Words
               PROVE  Accepts(w, stack) <=> w \in {Enc(p) : p \in Seen}
    BY DEF LanguageExact, Accepts
  <2>1. w \in Seq(Int)
    BY WordsAssumption
  <2>2. Accepts(w, stack) <=> \E p \in Int : In(p, arg) /\ Pushed(p) /\ w = Enc(p)
    BY <2>1 DEF EncodeInv, LanguageInv
  <2>3. \A p : p \in Points(arg) <=> (p \in Int /\ In(p, arg))
    <3>1. \A k \in 1 .. Len(arg) : arg[k].start \in Int /\ arg[k].end \in Int
      BY Typed, RangedAt
    <3> QED BY <3>1 DEF Points, In, InPart
  <2>4. \A p : p \in Seen <=> (p \in Points(arg) /\ Pushed(p))
    BY DEF Seen, Pushed
  <2> QED BY <2>2, <2>3, <2>4
<1> QED BY <1>1, NormInvariant, EncodeInvariant, PTL

\* Where a supplementary code point was pushed as CESU-8, what was pushed is the UTF-8
\* of its surrogates.
THEOREM SurrogatesExact == Spec => []SurrogatesAgree
<1>1. (NormInv /\ LoopInv) => SurrogatesAgree
  <2> SUFFICES ASSUME NormInv, op = "asbr", "cesu" \in flags, code > BmpMax
               PROVE  Enc(code) = Utf(Chars(code)[1], flags) \o Utf(Chars(code)[2], flags)
    BY DEF SurrogatesAgree
  <2>1. code \in Nat
    BY Typed, SMT DEF BmpMax
  <2>2. Enc(code) = Utf(code, flags)
    BY DEF Enc
  <2> QED BY <2>1, <2>2, CesuIsUtfOfChars
<1> QED BY <1>1, NormInvariant, PTL

-----------------------------------------------------------------------------
(* No word in two alternatives                                             *)

LEMMA SeenFinite ==
    ASSUME NormInv, FitInv
    PROVE  IsFiniteSet(Seen) /\ Cardinality(Seen) \in Nat
<1>1. \A p \in Points(arg) : p \in 0 .. UniMax
  <2> SUFFICES ASSUME NEW p \in Points(arg) PROVE p \in 0 .. UniMax
    OBVIOUS
  <2>1. arg \in Seq(Ranged) /\ AllFit(arg, Bottom) /\ Bottom \in Int /\ Bottom >= 0
    BY Typed, BottomType DEF FitInv
  <2>2. p \in Int /\ In(p, arg)
    BY <2>1, PointsAre
  <2>3. PICK k \in 1 .. Len(arg) : arg[k].start <= p /\ p <= arg[k].end
    BY <2>2 DEF In, InPart
  <2>4. arg[k].start \in Int /\ arg[k].end \in Int /\ Bottom <= arg[k].start /\ arg[k].end <= UniMax
    BY <2>1, RangedAt DEF AllFit, Within
  <2> QED BY <2>1, <2>2, <2>3, <2>4, UniAssumption
<1>2. Seen \subseteq 0 .. UniMax
  BY <1>1 DEF Seen
<1>3. IsFiniteSet(0 .. UniMax)
  BY UniAssumption, FS_Interval
<1>4. IsFiniteSet(Seen)
  BY <1>2, <1>3, FS_Subset
<1> QED BY <1>4, FS_CardinalityType

\* The number of words, of all alternatives, is the number of code points pushed.
CountInv == Encoding => Count(stack) = Cardinality(Seen)

LEMMA CountBegin == NormInv /\ EncodeBegin => CountInv'
<1> SUFFICES ASSUME EncodeBegin PROVE Count(stack)' = Cardinality(Seen)'
  BY DEF CountInv
<1>1. pc' = "encode" /\ stack' = << >>
  BY DEF EncodeBegin
<1>2. Seen' = {}
  BY <1>1 DEF Seen
<1>3. Count(<< >>) = 0
  <2> DEFINE z == << >>
  <2>1. z \in Seq(Stacked) /\ Len(z) = 0
    OBVIOUS
  <2> HIDE DEF z
  <2>2. Volumes(z) \in Seq(Int)
    BY <2>1, VolumesType
  <2>3. SumTo(Volumes(z))[0] = 0
    BY <2>2, SumToFacts
  <2>4. Count(z) = 0
    BY <2>1, <2>3 DEF Count
  <2> QED BY <2>4 DEF z
<1>4. Count(stack)' = Count(stack')
  BY DEF Count, Volumes
<1> QED BY <1>1, <1>2, <1>3, <1>4, FS_EmptySet

LEMMA CountCode == NormInv /\ LoopInv /\ FitInv /\ EncodeInv /\ CountInv /\ EncodeCode => CountInv'
<1> SUFFICES ASSUME NormInv, LoopInv, FitInv, EncodeInv, CountInv, EncodeCode
             PROVE  Count(stack') = Cardinality(Seen')
  BY DEF CountInv, Count, Volumes
<1> DEFINE e == [closed |-> FALSE, alt |-> Single(Enc(code))]
<1>1. /\ pc = "encode" /\ pc' = "merge2" /\ i <= Len(arg) /\ arg' = arg /\ code' = code
      /\ stack' = Append(Finalized(stack), e)
  BY DEF EncodeCode, normVars, arg
<1>2. /\ arg \in Seq(Ranged) /\ Len(arg) \in Nat /\ AllFit(arg, Bottom) /\ Bottom \in Int /\ Bottom >= 0
      /\ i \in Nat /\ 1 <= i /\ code \in Int
  BY <1>1, EncodeFacts DEF LoopInv
<1>3. i \in 1 .. Len(arg) /\ arg[i].start <= code /\ code <= arg[i].end
  BY <1>1, <1>2 DEF EncodeInv, PlaceInv
<1>4. In(code, arg)
  BY <1>3 DEF In, InPart
<1>5. code \in Nat
  <2>1. arg[i].start \in Int /\ Bottom <= arg[i].start
    BY <1>2, <1>3, RangedAt DEF AllFit, Within
  <2> QED BY <1>2, <1>3, <2>1
<1>6. Enc(code) \in Seq(Int)
  BY <1>5, EncType
<1>7. e \in Stacked /\ Volume(e.alt) = 1
  <2>1. Single(Enc(code)) \in Alternative /\ Volume(Single(Enc(code))) = 1
    BY <1>6, SingleMatches, VolumeSingle
  <2> QED BY <2>1 DEF Stacked
<1> HIDE DEF e
<1>8. Encoding
  BY <1>1 DEF Encoding, NormInv, ControlInv
<1>9. stack \in Seq(Stacked) /\ Count(stack) = Cardinality(Seen)
  BY <1>8 DEF EncodeInv, LanguageInv, CountInv
<1>10. Count(stack') = Count(stack) + 1
  <2>1. Finalized(stack) \in Seq(Stacked) /\ Count(Finalized(stack)) = Count(stack)
    BY <1>9, AcceptsFinalized, CountFinalized
  <2> QED BY <1>1, <1>7, <2>1, CountAppend
<1>11. \A p : p \in Seen <=> (p \in Points(arg) /\ p < code)
  <2> TAKE p
  <2>1. p \in Points(arg) => p \in Int /\ In(p, arg)
    BY <1>2, PointsAre
  <2>2. p \in Int /\ In(p, arg) => (Pushed(p) <=> p < code)
    <3>1. ~(i > Len(arg))
      BY <1>1, <1>2
    <3> QED BY <1>1, <3>1 DEF EncodeInv, PlaceInv
  <2>3. p \in Seen <=> (p \in Points(arg) /\ Pushed(p))
    BY DEF Seen, Pushed
  <2> QED BY <2>1, <2>2, <2>3
<1>12. \A p : p \in Seen' <=> (p \in Points(arg) /\ p <= code)
  <2>1. Points(arg)' = Points(arg)
    BY <1>1 DEF Points
  <2> QED BY <1>1, <2>1 DEF Seen
<1>13. code \in Points(arg) /\ \A p \in Points(arg) : p \in Int
  BY <1>2, <1>4, PointsAre
<1>14. code \notin Seen
  BY <1>2, <1>11
<1>15. Seen' = Seen \cup {code}
  <2>1. ASSUME NEW p PROVE p \in Seen' <=> p \in Seen \/ p = code
    <3>1. p \in Points(arg) => (p <= code <=> p < code \/ p = code)
      BY <1>2, <1>13
    <3> QED BY <1>11, <1>12, <1>13, <3>1
  <2> QED BY <2>1
<1>16. Cardinality(Seen \cup {code}) = Cardinality(Seen) + 1
  BY <1>14, SeenFinite, FS_AddElement
<1> QED BY <1>9, <1>10, <1>15, <1>16

LEMMA CountTop == NormInv /\ EncodeInv /\ CountInv /\ MergeTop => CountInv'
<1> SUFFICES ASSUME NormInv, EncodeInv, CountInv, MergeTop
             PROVE  Count(stack') = Cardinality(Seen')
  BY DEF CountInv, Count, Volumes
<1> DEFINE n == Len(stack)
<1>1. /\ pc = "merge2" /\ pc' = "merge2" /\ arg' = arg /\ code' = code
      /\ n >= 2 /\ CanMerge(stack[n-1].alt, stack[n].alt)
      /\ stack' = [SubSeq(stack, 1, n - 1) EXCEPT ![n-1].alt = Merged(@, stack[n].alt)]
  BY DEF MergeTop, Mergeable, normVars, arg
<1>2. Encoding
  BY <1>1 DEF Encoding, NormInv, ControlInv
<1>3. stack \in Seq(Stacked) /\ Count(stack) = Cardinality(Seen)
  BY <1>2 DEF EncodeInv, LanguageInv, CountInv
<1>4. stack' = [SubSeq(stack, 1, n - 1) EXCEPT ![n-1].alt = Merged(stack[n-1].alt, stack[n].alt)]
  <2>1. n - 1 \in 1 .. n - 1 /\ SubSeq(stack, 1, n - 1)[n-1] = stack[n-1]
    BY <1>1, <1>3
  <2> HIDE DEF n
  <2> QED BY <1>1, <2>1
<1>5. Count(stack') = Count(stack)
  BY <1>1, <1>3, <1>4, CountMerged
<1>6. Seen' = Seen
  BY <1>1 DEF Seen, Points
<1> QED BY <1>3, <1>5, <1>6

LEMMA CountTopEnd == NormInv /\ EncodeInv /\ CountInv /\ (MergeTopEnd \/ EncodeEnd) => CountInv'
<1> SUFFICES ASSUME NormInv, EncodeInv, CountInv, MergeTopEnd \/ EncodeEnd
             PROVE  Count(stack') = Cardinality(Seen')
  BY DEF CountInv, Count, Volumes
<1>1. /\ pc \in {"merge2", "encode"} /\ arg' = arg /\ stack' = stack
      /\ (pc = "merge2" => lastcode' = code /\ pc' = "encode")
      /\ (pc = "encode" => lastcode' = lastcode /\ pc' = "done")
  BY DEF MergeTopEnd, EncodeEnd, normVars, arg
<1>2. Encoding
  BY <1>1 DEF Encoding, NormInv, ControlInv
<1>3. Count(stack) = Cardinality(Seen)
  BY <1>2 DEF CountInv
<1>4. Points(arg)' = Points(arg)
  BY <1>1 DEF Points
<1>5. CASE pc = "merge2"
  <2>1. stack # << >>
    BY <1>5 DEF EncodeInv, PlaceInv
  <2>2. Seen' = Seen
    BY <1>1, <1>4, <1>5, <2>1 DEF Seen
  <2> QED BY <1>1, <1>3, <2>2
<1>6. CASE pc = "encode"
  <2>1. Seen' = Seen
    BY <1>1, <1>4, <1>6 DEF Seen
  <2> QED BY <1>1, <1>3, <2>1
<1> QED BY <1>1, <1>5, <1>6

\* Elsewhere there are no alternatives.
LEMMA NotCounting ==
    ASSUME pc' \notin {"encode", "merge2"}, ~(pc' = "done" /\ op' \in {"asbr", "assr"})
    PROVE  CountInv'
BY DEF CountInv, Encoding

LEMMA CountStep ==
    NormInv /\ LoopInv /\ FitInv /\ EncodeInv /\ CountInv /\ [Next]_vars => CountInv'
<1> SUFFICES ASSUME NormInv, LoopInv, FitInv, EncodeInv, CountInv, [Next]_vars PROVE CountInv'
  OBVIOUS
<1>1. CASE Encode
  BY <1>1, CountBegin, CountCode, CountTop, CountTopEnd DEF Encode
<1>2. CASE Start
  BY <1>2, NotCounting DEF Start
<1>3. CASE CallNorm
  BY <1>3, NotCounting DEF CallNorm
<1>4. CASE Norm
  <2>1. pc' \in {"merge", "call", "dup"}
    BY <1>4 DEF Norm, NormKnown, NormShort, NormSort, MergeExtend, MergeShift, MergeLast, AfterNorm
  <2> QED BY <2>1, NotCounting
<1>5. CASE Unfold
  <2>1. op = "unfold" /\ op' = op /\ pc' \notin {"encode", "merge2"}
    BY <1>5 DEF NormInv, ControlInv, Unfold, UnfoldEmpty, UnfoldBegin, UnfoldCode, UnfoldEnd, UnfoldDup
  <2> QED BY <2>1, NotCounting
<1>6. CASE Negate
  <2>1. op \in {"negate", "negate-smp"} /\ op' = op /\ pc' \notin {"encode", "merge2"}
    BY <1>6 DEF NormInv, ControlInv, Negate, NegateEmpty, NegateBegin, NegateRange, NegateRest
  <2> QED BY <2>1, NotCounting
<1>7. CASE \E o \in Ops, f \in Flags : Again(o, f)
  BY <1>7, NotCounting DEF Again
<1>8. CASE UNCHANGED vars
  <2>1. /\ pc' = pc /\ arg' = arg /\ op' = op /\ lastcode' = lastcode /\ stack' = stack /\ code' = code
    BY <1>8 DEF vars, arg
  <2> QED BY <2>1 DEF CountInv, Encoding, Count, Volumes, Seen, Points
<1> QED BY <1>1, <1>2, <1>3, <1>4, <1>5, <1>6, <1>7, <1>8 DEF Next

\* No word is in two alternatives: with as many words in all of them together as there
\* are code points, and each encoding in one of them, none can be in a second one.
THEOREM AlternativesApart == Spec => []Unambiguous
<1>1. Init => CountInv
  BY DEF Init, CountInv, Encoding
<1>2. (NormInv /\ LoopInv) /\ (FitInv /\ NegateInv) /\ EncodeInv /\ CountInv /\ [Next]_vars => CountInv'
  BY CountStep
<1>3. CountInv => Unambiguous
  BY DEF CountInv, Unambiguous, Count
<1> QED BY <1>1, <1>2, <1>3, NormInvariant, NegateInvariant, EncodeInvariant, PTL DEF Spec

-----------------------------------------------------------------------------
(***************************************************************************)
(* marpatcl_scr_unfold yields the letters equal to a letter of the class,  *)
(* and its temporary class has room for all of them: for every class and   *)
(* every table of equal letters.                                           *)
(***************************************************************************)

\* The number of code points that the loop went through when it is at c of the k-th range.
Visited(cr, k, c) ==
    IF k > Len(cr) THEN Total(cr) ELSE SumTo(Sizes(cr))[k-1] + (c - cr[k].start)

\* The ranges have the letters of the class, and no others.
InFold(cr) == \A p \in Int : In(p, cr) <=> \E q \in Int : In(q, arg) /\ p \in Unfolded(q)

\* Where the loop is, the temporary class has the letters of the code points before,
\* and no more of them than there is room for.
FoldLoop ==
    /\ i <= Len(arg) => arg[i].start <= code /\ code <= arg[i].end
    /\ room = FoldMax * Total(arg)
    /\ Len(scr["temp"].cr) <= FoldMax * Visited(arg, i, code)
    /\ \A p \in Int : In(p, scr["temp"].cr) <=>
         \E q \in Int : In(q, arg) /\ (i > Len(arg) \/ q < code) /\ p \in Unfolded(q)

\* The temporary class on its way to the result.
FoldInv ==
    /\ pc = "unfold" => FoldLoop
    /\ pc = "norm" /\ work = "temp" => ~scr["temp"].canon /\ InFold(scr["temp"].cr)
    /\ pc = "merge" /\ work = "temp" => InFold(given["temp"])
    /\ pc = "dup" => scr["temp"].canon /\ InFold(given["temp"])
    /\ pc = "done" /\ op = "unfold" => Canonical(out) /\ InFold(out)

-----------------------------------------------------------------------------
(* The room                                                                *)

\* A range of code points has at least one of them.
LEMMA SizesType ==
    ASSUME NEW cr \in Seq(Ranged), NEW low, AllFit(cr, low)
    PROVE  /\ Sizes(cr) \in Seq(Int) /\ Len(Sizes(cr)) = Len(cr) /\ Len(cr) \in Nat
           /\ \A k \in 1 .. Len(cr) : /\ Sizes(cr)[k] = (cr[k].end - cr[k].start) + 1
                                      /\ Sizes(cr)[k] \in Nat
<1>1. ASSUME NEW k \in 1 .. Len(cr)
      PROVE  cr[k].start \in Int /\ cr[k].end \in Int /\ cr[k].start <= cr[k].end
  BY RangedAt DEF AllFit, Within
<1> DEFINE s == Sizes(cr)
<1>2. Len(cr) \in Nat
  OBVIOUS
<1>3. s = [k \in 1 .. Len(cr) |-> Size(cr[k])]
  BY DEF Sizes
<1> HIDE DEF s
<1>4. ASSUME NEW k \in 1 .. Len(cr)
      PROVE  s[k] = (cr[k].end - cr[k].start) + 1 /\ s[k] \in Nat /\ Size(cr[k]) \in Int
  <2>1. s[k] = cr[k].end - cr[k].start + 1
    BY <1>3 DEF Size
  <2> DEFINE x == cr[k].start
             y == cr[k].end
  <2>2. x \in Int /\ y \in Int /\ x <= y /\ s[k] = y - x + 1 /\ Size(cr[k]) = y - x + 1
    BY <1>1, <2>1 DEF Size
  <2> HIDE DEF x, y
  <2>3. s[k] = (y - x) + 1 /\ s[k] \in Nat /\ Size(cr[k]) \in Int
    BY <2>2
  <2> QED BY <2>3 DEF x, y
<1>5. s \in Seq(Int) /\ Len(s) = Len(cr)
  BY <1>2, <1>3, <1>4, IsSequence
<1> QED BY <1>2, <1>4, <1>5 DEF s

\* Sums of numbers that are not negative do not shrink.
LEMMA SumToGrows ==
    ASSUME NEW v \in Seq(Int), \A k \in 1 .. Len(v) : v[k] \in Nat
    PROVE  \A m \in 0 .. Len(v) : \A k \in 0 .. m : SumTo(v)[k] <= SumTo(v)[m]
<1> DEFINE sum == SumTo(v)
           n == Len(v)
           T == {m \in 0 .. n : \A k \in 0 .. m : sum[k] <= sum[m]}
<1>1. /\ n \in Nat /\ sum \in [0 .. n -> Int] /\ \A k \in 1 .. n : sum[k] = sum[k-1] + v[k]
      /\ \A k \in 1 .. n : v[k] \in Nat
  BY SumToFacts
<1> HIDE DEF sum, n
<1>2. 0 \in T
  <2>1. \A k \in 0 .. 0 : k = 0
    OBVIOUS
  <2>2. 0 \in 0 .. n /\ sum[0] \in Int
    BY <1>1
  <2>3. sum[0] <= sum[0]
    BY <2>2
  <2> QED BY <2>1, <2>2, <2>3
<1>3. ASSUME NEW m \in 0 .. n - 1, m \in T PROVE m + 1 \in T
  <2>1. m \in 0 .. n /\ m + 1 \in 1 .. n /\ m + 1 \in 0 .. n /\ (m + 1) - 1 = m
    BY <1>1
  <2>2. sum[m + 1] = sum[m] + v[m + 1] /\ sum[m] \in Int /\ sum[m + 1] \in Int /\ v[m + 1] \in Nat
    BY <1>1, <2>1
  <2>3. ASSUME NEW k \in 0 .. m + 1 PROVE sum[k] <= sum[m + 1]
    <3>1. CASE k = m + 1
      BY <2>2, <3>1
    <3>2. CASE k # m + 1
      <4>1. k \in 0 .. m /\ k \in 0 .. n
        BY <1>1, <3>2
      <4>2. sum[k] <= sum[m] /\ sum[k] \in Int
        BY <1>1, <1>3, <4>1
      <4> QED BY <2>2, <4>2
    <3> QED BY <3>1, <3>2
  <2> QED BY <2>1, <2>3
<1> HIDE DEF T
<1>4. \A m \in 0 .. n : m \in T
  BY <1>1, <1>2, <1>3, BoundedInduction
<1> QED BY <1>4 DEF T, sum, n

\* The loop begins with nothing behind it.
LEMMA VisitedFirst ==
    ASSUME NEW cr \in Seq(Ranged), NEW low, AllFit(cr, low), cr # << >>
    PROVE  Visited(cr, 1, cr[1].start) = 0 /\ Total(cr) \in Nat
<1>1. /\ Sizes(cr) \in Seq(Int) /\ Len(Sizes(cr)) = Len(cr) /\ Len(cr) \in Nat
      /\ \A k \in 1 .. Len(cr) : Sizes(cr)[k] \in Nat
  BY SizesType
<1> DEFINE sum == SumTo(Sizes(cr))
           n == Len(cr)
           x == cr[1].start
<1>2. /\ sum[0] = 0 /\ sum \in [0 .. n -> Int]
      /\ \A m \in 0 .. n : \A k \in 0 .. m : sum[k] <= sum[m]
  BY <1>1, SumToFacts, SumToGrows
<1>3. n \in Nat /\ 1 \in 1 .. n /\ ~(1 > n)
  BY <1>1
<1>4. x \in Int
  BY <1>3, RangedAt
<1>5. Visited(cr, 1, x) = sum[1 - 1] + (x - x)
  BY <1>3 DEF Visited
<1>6. Total(cr) = sum[n]
  BY DEF Total
<1> HIDE DEF sum, n, x
<1>7. 0 \in 0 .. n /\ n \in 0 .. n
  BY <1>3
<1>8. sum[n] \in Int /\ sum[0] <= sum[n]
  BY <1>2, <1>7
<1> QED BY <1>2, <1>4, <1>5, <1>6, <1>8 DEF x

\* Every step of the loop has one code point more behind it, and there are no more
\* than were counted.
LEMMA VisitedNext ==
    ASSUME arg \in Seq(Ranged), NEW low, AllFit(arg, low), i \in 1 .. Len(arg), code \in Int,
           arg[i].start <= code, code <= arg[i].end, NextCode
    PROVE  /\ Visited(arg, i, code) \in Nat
           /\ Visited(arg, i', code') = Visited(arg, i, code) + 1
<1> DEFINE sum == SumTo(Sizes(arg))
           n == Len(arg)
           x == arg[i].start
           y == arg[i].end
<1>1. /\ Sizes(arg) \in Seq(Int) /\ Len(Sizes(arg)) = Len(arg) /\ Len(arg) \in Nat
      /\ \A k \in 1 .. Len(arg) : /\ Sizes(arg)[k] = (arg[k].end - arg[k].start) + 1
                                  /\ Sizes(arg)[k] \in Nat
  BY SizesType
<1>2. /\ sum[0] = 0 /\ sum \in [0 .. n -> Int]
      /\ \A k \in 1 .. n : sum[k] = sum[k-1] + Sizes(arg)[k]
      /\ \A m \in 0 .. n : \A k \in 0 .. m : sum[k] <= sum[m]
  BY <1>1, SumToFacts, SumToGrows
<1>3. x \in Int /\ y \in Int /\ i \in 1 .. n
  BY RangedAt
<1>4. n \in Nat /\ i \in Int /\ i - 1 \in 0 .. n /\ i \in 0 .. n /\ 0 \in 0 .. i - 1 /\ ~(i > n) /\ i >= 1
  BY <1>1
<1>5. sum[i] = sum[i-1] + ((y - x) + 1)
  BY <1>1, <1>2
<1>6. Visited(arg, i, code) = sum[i-1] + (code - x)
  BY <1>4 DEF Visited
<1>7. Visited(arg, i', code') = IF i' > n THEN sum[n] ELSE sum[i'-1] + (code' - arg[i'].start)
  BY DEF Visited, Total
<1>8. x <= code /\ code <= y
  OBVIOUS
<1>9. IF code < y THEN code' = code + 1 /\ i' = i
                  ELSE i' = i + 1 /\ code' = IF i < n THEN arg[i+1].start ELSE code
  BY DEF NextCode
<1>10. i < n => i + 1 \in 1 .. n /\ arg[i+1].start \in Int
  <2>1. i < n => i + 1 \in 1 .. Len(arg)
    BY <1>4
  <2> QED BY <2>1, RangedAt
<1> HIDE DEF sum, n, x
<1>11. sum[i-1] \in Int /\ sum[0] <= sum[i-1]
  BY <1>2, <1>4
<1>12. CASE code < y
  <2>1. Visited(arg, i', code') = sum[i-1] + ((code + 1) - x)
    BY <1>4, <1>7, <1>9, <1>12 DEF x
  <2> HIDE DEF y
  <2> QED BY <1>2, <1>3, <1>6, <1>8, <1>11, <2>1
<1>13. CASE ~(code < y)
  <2>1. code = y /\ i' = i + 1
    BY <1>3, <1>8, <1>9, <1>13
  <2>2. Visited(arg, i', code') = sum[i]
    <3>1. CASE i < n
      <4>1. code' = arg[i+1].start /\ ~(i + 1 > n) /\ (i + 1) - 1 = i
        BY <1>4, <1>9, <1>13, <3>1
      <4>2. sum[i] \in Int
        BY <1>2, <1>4
      <4>3. Visited(arg, i', code') = sum[i] + (arg[i+1].start - arg[i+1].start)
        BY <1>7, <2>1, <4>1
      <4> DEFINE z == arg[i+1].start
      <4>4. z \in Int /\ Visited(arg, i', code') = sum[i] + (z - z)
        BY <1>10, <3>1, <4>3
      <4> HIDE DEF z
      <4> QED BY <4>2, <4>4
    <3>2. CASE ~(i < n)
      <4>1. i = n /\ i + 1 > n
        BY <1>4, <3>2
      <4> QED BY <1>7, <2>1, <4>1
    <3> QED BY <3>1, <3>2
  <2> HIDE DEF y
  <2> QED BY <1>2, <1>3, <1>5, <1>6, <1>8, <1>11, <2>1, <2>2
<1> QED BY <1>12, <1>13

\* Before the end there are no more code points behind the loop than in the class.
LEMMA VisitedBound ==
    ASSUME arg \in Seq(Ranged), NEW low, AllFit(arg, low), i \in 1 .. Len(arg) + 1, code \in Int,
           i <= Len(arg) => arg[i].start <= code /\ code <= arg[i].end
    PROVE  Visited(arg, i, code) \in Nat /\ Total(arg) \in Nat /\ Visited(arg, i, code) <= Total(arg)
<1> DEFINE sum == SumTo(Sizes(arg))
           n == Len(arg)
           x == arg[i].start
           y == arg[i].end
<1>1. /\ Sizes(arg) \in Seq(Int) /\ Len(Sizes(arg)) = Len(arg) /\ Len(arg) \in Nat
      /\ \A k \in 1 .. Len(arg) : /\ Sizes(arg)[k] = (arg[k].end - arg[k].start) + 1
                                  /\ Sizes(arg)[k] \in Nat
  BY SizesType
<1>2. /\ sum[0] = 0 /\ sum \in [0 .. n -> Int]
      /\ \A k \in 1 .. n : sum[k] = sum[k-1] + Sizes(arg)[k]
      /\ \A m \in 0 .. n : \A k \in 0 .. m : sum[k] <= sum[m]
  BY <1>1, SumToFacts, SumToGrows
<1>3. Total(arg) = sum[n]
  BY DEF Total
<1>4. i \in Int /\ n \in Nat /\ n \in 0 .. n /\ 0 \in 0 .. n /\ i \in 1 .. n + 1
  BY <1>1
<1>5. CASE i > n
  <2>1. Visited(arg, i, code) = sum[n]
    BY <1>3, <1>5 DEF Visited
  <2> HIDE DEF sum, n
  <2>2. sum[n] \in Int /\ sum[0] <= sum[n]
    BY <1>2, <1>4
  <2> QED BY <1>2, <1>3, <2>1, <2>2
<1>6. CASE ~(i > n)
  <2>1. i \in 1 .. n /\ i - 1 \in 0 .. n /\ i \in 0 .. n /\ 0 \in 0 .. i - 1
    BY <1>4, <1>6
  <2>2. x \in Int /\ y \in Int /\ x <= code /\ code <= y
    BY <1>6, <2>1, RangedAt
  <2>3. sum[i] = sum[i-1] + ((y - x) + 1) /\ sum[i-1] \in Int /\ sum[i] \in Int /\ sum[n] \in Int
    BY <1>1, <1>2, <1>4, <2>1
  <2>4. sum[0] <= sum[i-1] /\ sum[i] <= sum[n]
    BY <1>2, <1>4, <2>1
  <2>5. Visited(arg, i, code) = sum[i-1] + (code - x)
    BY <1>6 DEF Visited
  <2>6. sum[0] = 0
    BY <1>2
  <2> DEFINE a == sum[i-1]
             b == sum[i]
             c == sum[n]
  <2>7. /\ 0 <= a /\ b <= c /\ b = a + ((y - x) + 1) /\ a \in Int /\ b \in Int /\ c \in Int
        /\ Visited(arg, i, code) = a + (code - x) /\ Total(arg) = c
    BY <1>3, <2>3, <2>4, <2>5, <2>6
  <2> HIDE DEF sum, n, x, y, a, b, c
  <2> QED BY <2>2, <2>7
<1> QED BY <1>5, <1>6

\* More factors, not less of a product.
LEMMA Times ==
    ASSUME NEW m \in Nat, NEW x \in Nat, NEW y \in Nat, x <= y
    PROVE  m * x <= m * y
<1>1. PICK d \in Nat : y = x + d
  <2>1. y - x \in Nat /\ y = x + (y - x)
    OBVIOUS
  <2> QED BY <2>1
<1>2. m * y = m * x + m * d
  BY <1>1, Distributes
<1>3. m * d \in Nat /\ m * x \in Nat
  OBVIOUS
<1> QED BY <1>2, <1>3

-----------------------------------------------------------------------------
(* The loop over the code points, and what becomes of its letters          *)

LEMMA ConcatIn ==
    ASSUME NEW cr \in Seq(Ranged), NEW more \in Seq(Ranged), NEW p \in Int
    PROVE  In(p, cr \o more) <=> In(p, cr) \/ In(p, more)
<1> DEFINE all == cr \o more
           n == Len(cr)
           m == Len(more)
<1>1. /\ n \in Nat /\ m \in Nat /\ Len(all) = n + m
      /\ \A k \in 1 .. n : all[k] = cr[k]
      /\ \A k \in 1 .. m : all[n + k] = more[k]
  OBVIOUS
<1> HIDE DEF all, n, m
<1>2. ASSUME NEW k \in 1 .. n + m, all[k].start <= p, p <= all[k].end
      PROVE  InPart(p, cr, 1, n) \/ InPart(p, more, 1, m)
  <2>1. CASE k <= n
    <3>1. k \in 1 .. n
      BY <1>1, <2>1
    <3> QED BY <1>1, <1>2, <3>1 DEF InPart
  <2>2. CASE ~(k <= n)
    <3>1. k - n \in 1 .. m /\ n + (k - n) = k
      BY <1>1, <2>2
    <3>2. all[k] = more[k - n]
      BY <1>1, <3>1
    <3> QED BY <1>2, <3>1, <3>2 DEF InPart
  <2> QED BY <2>1, <2>2
<1>3. ASSUME NEW k \in 1 .. n, cr[k].start <= p, p <= cr[k].end
      PROVE  InPart(p, all, 1, n + m)
  <2>1. k \in 1 .. n + m
    BY <1>1
  <2> QED BY <1>1, <1>3, <2>1 DEF InPart
<1>4. ASSUME NEW k \in 1 .. m, more[k].start <= p, p <= more[k].end
      PROVE  InPart(p, all, 1, n + m)
  <2>1. n + k \in 1 .. n + m
    BY <1>1
  <2> QED BY <1>1, <1>4, <2>1 DEF InPart
<1>5. InPart(p, all, 1, n + m) <=> InPart(p, cr, 1, n) \/ InPart(p, more, 1, m)
  BY <1>2, <1>3, <1>4 DEF InPart
<1> QED BY <1>1, <1>5 DEF In, all, n, m

LEMMA FoldBegin == NormInv /\ LoopInv /\ FitInv /\ UnfoldBegin => FoldInv'
<1> SUFFICES ASSUME NormInv, LoopInv, FitInv, UnfoldBegin PROVE FoldInv'
  OBVIOUS
<1>1. /\ pc = "call" /\ op = "unfold" /\ pc' = "unfold" /\ i' = 1 /\ code' = arg[1].start
      /\ room' = FoldMax * Total(arg)
      /\ scr' = [scr EXCEPT !["temp"] = [cr |-> << >>, canon |-> FALSE]]
  BY DEF UnfoldBegin
<1>2. arg' = arg
  BY UnfoldBeginStep
<1>3. /\ arg \in Seq(Ranged) /\ Len(arg) \in Nat /\ AllFit(arg, Bottom) /\ Apart(arg, Len(arg))
      /\ arg # << >>
  BY <1>1, EncodeFacts DEF NormInv, ControlInv
<1>4. scr'["temp"].cr = << >>
  <2>1. "temp" \in Names /\ scr \in [Names -> Class]
    BY Typed DEF Names
  <2>2. scr'["temp"] = [cr |-> << >>, canon |-> FALSE]
    BY <1>1, <2>1
  <2> QED BY <2>2
<1>5. /\ 1 <= Len(arg) /\ arg[1].start \in Int /\ arg[1].start <= arg[1].end
      /\ \A p \in Int : In(p, arg) => ~(p < arg[1].start)
  BY <1>3, FirstCode
<1>6. Visited(arg, 1, arg[1].start) = 0 /\ FoldMax * 0 = 0 /\ Len(<< >>) = 0
  BY <1>3, VisitedFirst, FoldAssumption
<1>7. \A p \in Int : ~In(p, << >>)
  BY DEF In, InPart
<1>8. \A q \in Int : ~(In(q, arg) /\ (1 > Len(arg) \/ q < arg[1].start))
  BY <1>3, <1>5
<1>9. arg[1].start <= arg[1].start
  BY <1>5
<1>10. Len(scr'["temp"].cr) <= FoldMax * Visited(arg, 1, arg[1].start)
  BY <1>4, <1>6
<1>11. FoldLoop'
  BY <1>1, <1>2, <1>4, <1>5, <1>7, <1>8, <1>9, <1>10 DEF FoldLoop
<1> QED BY <1>1, <1>11 DEF FoldInv

LEMMA FoldCode == NormInv /\ LoopInv /\ FitInv /\ FoldInv /\ UnfoldCode => FoldInv'
<1> SUFFICES ASSUME NormInv, LoopInv, FitInv, FoldInv, UnfoldCode PROVE FoldInv'
  OBVIOUS
<1> DEFINE letters == Ascending(Unfolded(code))
           more == [k \in 1 .. Len(letters) |-> [start |-> letters[k], end |-> letters[k]]]
           cr == scr["temp"].cr
           before == Visited(arg, i, code)
<1>1. /\ pc = "unfold" /\ i <= Len(arg) /\ NextCode /\ pc' = "unfold" /\ room' = room
      /\ scr' = [scr EXCEPT !["temp"].cr = cr \o more]
  BY DEF UnfoldCode
<1>2. arg' = arg
  BY UnfoldCodeStep
<1>3. /\ arg \in Seq(Ranged) /\ Len(arg) \in Nat /\ AllFit(arg, Bottom) /\ Apart(arg, Len(arg))
      /\ i \in 1 .. Len(arg) /\ code \in Int
  <2>1. i \in Nat /\ 1 <= i
    BY <1>1, EncodeFacts DEF LoopInv
  <2> QED BY <1>1, <2>1, EncodeFacts
<1>4. FoldLoop
  BY <1>1 DEF FoldInv
<1>5. arg[i].start <= code /\ code <= arg[i].end
  BY <1>1, <1>4 DEF FoldLoop
<1>6. /\ i' <= Len(arg) => arg[i'].start <= code' /\ code' <= arg[i'].end
      /\ \A p \in Int : In(p, arg) => (p <= code <=> (i' > Len(arg) \/ p < code'))
  BY <1>1, <1>3, <1>5, FollowingCode
<1>7. before \in Nat /\ Visited(arg, i', code') = before + 1
  BY <1>1, <1>3, <1>5, VisitedNext
<1>8. /\ more \in Seq(Ranged) /\ Len(more) <= FoldMax
      /\ \A p \in Int : In(p, more) <=> p \in Unfolded(code)
  BY <1>3, LettersType
<1>9. cr \in Seq(Ranged)
  BY Typed DEF Names
<1> HIDE DEF more
<1>10. scr'["temp"].cr = cr \o more
  <2> DEFINE y == scr["temp"]
             new == cr \o more
  <2>1. "temp" \in Names /\ scr \in [Names -> Class] /\ y \in [cr : Seq(Ranged), canon : BOOLEAN]
    BY Typed DEF Names, Class
  <2>2. scr' = [scr EXCEPT !["temp"] = [y EXCEPT !.cr = new]]
    BY <1>1
  <2> HIDE DEF y, new
  <2>3. scr'["temp"].cr = new
    BY <2>1, <2>2
  <2> QED BY <2>3 DEF new
<1> HIDE DEF before
<1>11. Len(cr \o more) <= FoldMax * Visited(arg, i', code')
  <2>1. Len(cr) <= FoldMax * before
    BY <1>4 DEF FoldLoop, before
  <2>2. Len(cr \o more) = Len(cr) + Len(more) /\ Len(cr) \in Nat /\ Len(more) \in Nat
    BY <1>8, <1>9
  <2>3. FoldMax * (before + 1) = FoldMax * before + FoldMax
    BY <1>7, FoldAssumption
  <2>4. FoldMax * before \in Nat /\ FoldMax \in Nat
    BY <1>7, FoldAssumption
  <2> HIDE DEF cr
  <2> QED BY <1>7, <1>8, <2>1, <2>2, <2>3, <2>4
<1>12. ASSUME NEW p \in Int
       PROVE  In(p, cr \o more) <=>
                \E q \in Int : In(q, arg) /\ (i' > Len(arg) \/ q < code') /\ p \in Unfolded(q)
  <2>1. In(p, cr \o more) <=> In(p, cr) \/ p \in Unfolded(code)
    BY <1>8, <1>9, ConcatIn
  <2>2. In(p, cr) <=> \E q \in Int : In(q, arg) /\ (i > Len(arg) \/ q < code) /\ p \in Unfolded(q)
    BY <1>4 DEF FoldLoop
  <2>3. ~(i > Len(arg))
    BY <1>3
  <2>4. \A q \in Int : q <= code <=> (q < code \/ q = code)
    BY <1>3
  <2>5. In(code, arg)
    BY <1>3, <1>5 DEF In, InPart
  <2>6. ASSUME NEW q \in Int
        PROVE  (In(q, arg) /\ (i' > Len(arg) \/ q < code')) <=>
                 ((In(q, arg) /\ (i > Len(arg) \/ q < code)) \/ q = code)
    BY <1>6, <2>3, <2>4, <2>5
  <2> QED BY <1>3, <2>1, <2>2, <2>6
<1>13. FoldLoop'
  BY <1>1, <1>2, <1>4, <1>6, <1>10, <1>11, <1>12 DEF FoldLoop
<1> QED BY <1>1, <1>13 DEF FoldInv

LEMMA FoldUnfold == NormInv /\ LoopInv /\ FitInv /\ FoldInv /\ Unfold => FoldInv'
<1> SUFFICES ASSUME NormInv, LoopInv, FitInv, FoldInv, Unfold PROVE FoldInv'
  OBVIOUS
<1>1. CASE UnfoldEmpty
  <2>1. pc' = "done" /\ arg = << >> /\ arg' = arg /\ out' = << >>
    BY <1>1 DEF UnfoldEmpty, normVars, arg
  <2>2. Canonical(<< >>) /\ \A p \in Int : ~In(p, << >>)
    BY DEF Canonical, In, InPart
  <2> QED BY <2>1, <2>2 DEF FoldInv, InFold
<1>2. CASE UnfoldEnd
  <2>1. pc = "unfold" /\ i > Len(arg) /\ work' = "temp" /\ pc' = "norm" /\ scr' = scr /\ arg' = arg
    BY <1>2 DEF UnfoldEnd, arg
  <2>2. FoldLoop /\ ~scr["temp"].canon
    BY <2>1 DEF FoldInv, NormInv, ControlInv
  <2>3. InFold(scr["temp"].cr)
    BY <2>1, <2>2 DEF FoldLoop, InFold
  <2> QED BY <2>1, <2>2, <2>3 DEF FoldInv, InFold
<1>3. CASE UnfoldDup
  <2>1. pc = "dup" /\ pc' = "done" /\ arg' = arg /\ out' = scr["temp"].cr
    BY <1>3 DEF UnfoldDup, normVars, arg
  <2> DEFINE cr == scr["temp"].cr
  <2>2. /\ cr \in Seq(Ranged) /\ Apart(cr, Len(cr)) /\ InFold(given["temp"])
        /\ \A p \in Int : In(p, cr) <=> In(p, given["temp"])
    BY <2>1, Typed DEF FoldInv, NormInv, CanonInv, Names
  <2> HIDE DEF cr
  <2>3. Canonical(cr)
    <3>1. Len(cr) \in Nat
      BY <2>2
    <3> QED BY <2>2, <3>1 DEF Apart, Canonical
  <2>4. InFold(cr)
    BY <2>2 DEF InFold
  <2> QED BY <2>1, <2>3, <2>4 DEF FoldInv, InFold, cr
<1> QED BY <1>1, <1>2, <1>3, FoldBegin, FoldCode DEF Unfold

\* Normalisation of the temporary class starts with the letters, and leaves the class
\* they were unfolded from alone.
LEMMA FoldNorm == NormInv /\ FoldInv /\ Norm => FoldInv'
<1> SUFFICES ASSUME NormInv, FoldInv, Norm PROVE FoldInv'
  OBVIOUS
<1>1. /\ pc \in {"norm", "merge"} /\ work' = work /\ op' = op /\ work \in Names
      /\ pc' = "merge" \/ pc' = AfterNorm
  BY Typed DEF Norm, NormKnown, NormShort, NormSort, MergeExtend, MergeShift, MergeLast, normVars
<1>2. CASE work = "arg"
  <2>1. pc' \in {"merge", "call"} /\ work' = "arg"
    BY <1>1, <1>2 DEF AfterNorm
  <2> QED BY <2>1 DEF FoldInv
<1>3. CASE work = "temp"
  <2>1. pc' \in {"merge", "dup"} /\ pc' # "unfold" /\ pc' # "norm" /\ pc' # "done"
    BY <1>1, <1>3 DEF AfterNorm
  <2>2. scr \in [Names -> Class] /\ given \in [Names -> Seq(Ranged)] /\ "arg" \in Names /\ "temp" \in Names
    BY Typed DEF Names
  <2>3. arg' = arg
    <3>1. CASE NormKnown
      BY <3>1 DEF NormKnown, normVars, arg
    <3>2. CASE NormShort
      BY <1>3, <2>2, <3>2 DEF NormShort, arg
    <3>3. CASE NormSort
      BY <1>3, <2>2, <3>3 DEF NormSort, arg
    <3>4. CASE MergeExtend
      BY <1>3, <2>2, <3>4 DEF MergeExtend, arg
    <3>5. CASE MergeShift
      BY <1>3, <2>2, <3>5 DEF MergeShift, arg
    <3>6. CASE MergeLast
      BY <1>3, <2>2, <3>6 DEF MergeLast, arg
    <3> QED BY <3>1, <3>2, <3>3, <3>4, <3>5, <3>6 DEF Norm
  <2>4. InFold(given'["temp"])
    <3>1. CASE NormKnown
      BY <1>3, <3>1 DEF NormKnown, FoldInv
    <3>2. CASE NormShort \/ NormSort
      <4>1. given'["temp"] = scr["temp"].cr /\ pc = "norm"
        BY <1>3, <2>2, <3>2 DEF NormShort, NormSort
      <4> QED BY <1>3, <4>1 DEF FoldInv
    <3>3. CASE MergeExtend \/ MergeShift \/ MergeLast
      <4>1. given' = given /\ pc = "merge"
        BY <3>3 DEF MergeExtend, MergeShift, MergeLast
      <4> QED BY <1>3, <4>1 DEF FoldInv
    <3> QED BY <3>1, <3>2, <3>3 DEF Norm
  <2>5. InFold(given["temp"])'
    BY <2>3, <2>4 DEF InFold
  <2>6. pc' = "dup" => scr'["temp"].canon
    <3>1. CASE NormKnown
      BY <1>3, <3>1 DEF NormKnown, FoldInv
    <3>2. CASE NormShort
      <4> DEFINE y == scr["temp"]
      <4>1. scr'["temp"] = [y EXCEPT !.canon = TRUE] /\ y \in [cr : Seq(Ranged), canon : BOOLEAN]
        BY <1>3, <2>2, <3>2 DEF NormShort, Class
      <4> HIDE DEF y
      <4> QED BY <4>1
    <3>3. CASE NormSort \/ MergeExtend \/ MergeShift
      BY <3>3 DEF NormSort, MergeExtend, MergeShift
    <3>4. CASE MergeLast
      <4> DEFINE new == SubSeq(scr["temp"].cr, 1, previous)
      <4>1. scr' = [scr EXCEPT !["temp"] = [cr |-> new, canon |-> TRUE]]
        BY <1>3, <3>4 DEF MergeLast
      <4> HIDE DEF new
      <4> QED BY <2>2, <4>1
    <3> QED BY <3>1, <3>2, <3>3, <3>4 DEF Norm
  <2> QED BY <2>1, <2>5, <2>6 DEF FoldInv
<1> QED BY <1>1, <1>2, <1>3 DEF Names

LEMMA FoldStep == NormInv /\ LoopInv /\ FitInv /\ FoldInv /\ [Next]_vars => FoldInv'
<1> SUFFICES ASSUME NormInv, LoopInv, FitInv, FoldInv, [Next]_vars PROVE FoldInv'
  OBVIOUS
<1>1. CASE Start
  BY <1>1 DEF Start, FoldInv
<1>2. CASE CallNorm
  BY <1>2 DEF CallNorm, FoldInv
<1>3. CASE Negate
  <2>1. pc' \in {"negate", "done"} /\ op' # "unfold"
    BY <1>3 DEF Negate, NegateEmpty, NegateBegin, NegateRange, NegateRest, NormInv, ControlInv
  <2> QED BY <2>1 DEF FoldInv
<1>4. CASE Encode
  <2>1. pc' \in {"encode", "merge2", "done"} /\ op' # "unfold"
    BY <1>4 DEF Encode, EncodeBegin, EncodeCode, MergeTop, MergeTopEnd, EncodeEnd, NormInv, ControlInv
  <2> QED BY <2>1 DEF FoldInv
<1>5. CASE \E o \in Ops, f \in Flags : Again(o, f)
  BY <1>5 DEF Again, FoldInv
<1>6. CASE UNCHANGED vars
  BY <1>6 DEF vars, FoldInv, FoldLoop, InFold, arg, Visited
<1> QED BY <1>1, <1>2, <1>3, <1>4, <1>5, <1>6, FoldNorm, FoldUnfold DEF Next

\* Unfolding yields the letters equal to a letter of the class, and the temporary class,
\* whose size is checked only after it was written, has room for them (scr.c:381-413):
\* for every class, and every table of equal letters whose largest set has FoldMax.
THEOREM UnfoldedExact == Spec => []UnfoldExact
<1>1. Init => FoldInv
  BY DEF Init, FoldInv
<1>2. (NormInv /\ LoopInv) /\ (FitInv /\ NegateInv) /\ FoldInv /\ [Next]_vars => FoldInv'
  BY FoldStep
<1>3. (NormInv /\ LoopInv) /\ (FitInv /\ NegateInv) /\ FoldInv => UnfoldExact
  <2> SUFFICES ASSUME NormInv, LoopInv, FitInv, FoldInv PROVE UnfoldExact
    OBVIOUS
  <2>1. ASSUME pc = "unfold" PROVE Len(scr["temp"].cr) <= room
    <3>1. /\ arg \in Seq(Ranged) /\ Len(arg) \in Nat /\ AllFit(arg, Bottom) /\ i \in Nat
          /\ code \in Int /\ 1 <= i /\ i <= Len(arg) + 1 /\ FoldLoop
      BY <2>1, EncodeFacts DEF LoopInv, FoldInv
    <3> DEFINE v == Visited(arg, i, code)
    <3>2. v \in Nat /\ Total(arg) \in Nat /\ v <= Total(arg)
      BY <3>1, VisitedBound DEF FoldLoop
    <3>3. Len(scr["temp"].cr) <= FoldMax * v /\ room = FoldMax * Total(arg)
      BY <3>1 DEF FoldLoop
    <3>4. Len(scr["temp"].cr) \in Nat
      <4>1. scr["temp"].cr \in Seq(Ranged)
        BY Typed DEF Names
      <4> QED BY <4>1
    <3> HIDE DEF v
    <3>5. FoldMax * v <= FoldMax * Total(arg) /\ FoldMax * v \in Nat /\ FoldMax * Total(arg) \in Nat
      BY <3>2, Times, FoldAssumption
    <3> QED BY <3>3, <3>4, <3>5
  <2>2. ASSUME pc = "done", op = "unfold"
        PROVE  \A p \in Probes : In(p, out) <=> \E q \in Points(arg) : p \in Unfolded(q)
    <3>1. InFold(out) /\ \A q : q \in Points(arg) <=> q \in Int /\ In(q, arg)
      BY <2>2, Typed, PointsAre DEF FoldInv
    <3> QED BY <3>1, WordsAssumption DEF InFold
  <2> QED BY <2>1, <2>2 DEF UnfoldExact, FoldInv
<1> QED BY <1>1, <1>2, <1>3, NormInvariant, NegateInvariant, PTL DEF Spec

=============================================================================
