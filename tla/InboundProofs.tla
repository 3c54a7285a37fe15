--------------------------- MODULE InboundProofs ----------------------------
(***************************************************************************)
(* Proofs about Inbound, for every set of texts and extensions, malformed  *)
(* ones included, and every sequence of reading, giving back and moving by *)
(* users that keep away from the three uses that break the cursors.        *)
(***************************************************************************)
EXTENDS Inbound, FiniteSetTheorems, TLAPS

-----------------------------------------------------------------------------
(* Induction, about a set of numbers                                       *)

\* A set that has 0, and with every number the next one, has them all.  If n is
\* not in S, then the map to the next number takes the members below n to
\* members below n other than 0: a finite set into a smaller one.
LEMMA SetInduction ==
    ASSUME NEW S, 0 \in S, \A i \in Nat : i \in S => i + 1 \in S
    PROVE  \A n \in Nat : n \in S
<1> SUFFICES ASSUME NEW n \in Nat, n \notin S PROVE FALSE
  OBVIOUS
<1> DEFINE A == { i \in 0 .. n : i \in S }
           f == [i \in A |-> i + 1]
<1>1. IsFiniteSet(0 .. n)
  BY FS_Interval
<1>2. A \subseteq 0 .. n /\ 0 \in A
  OBVIOUS
<1>3. f \in [A -> A \ {0}]
  OBVIOUS
<1>4. \A i, j \in A : f[i] = f[j] => i = j
  OBVIOUS
<1> HIDE DEF f, A
<1>5. IsFiniteSet(A)
  BY <1>1, <1>2, FS_Subset
<1>6. /\ IsFiniteSet(A \ {0}) /\ Cardinality(A \ {0}) = Cardinality(A) - 1
      /\ Cardinality(A) \in Nat
  BY <1>2, <1>5, FS_RemoveElement, FS_CardinalityType
<1>7. Cardinality(A) > Cardinality(A \ {0})
  BY <1>6
<1>8. \E x, y \in A : x # y /\ f[x] = f[y]
  BY <1>3, <1>5, <1>6, <1>7, FS_PigeonHole
<1> QED BY <1>4, <1>8

\* The same up to a bound.
LEMMA BoundedInduction ==
    ASSUME NEW n \in Nat, NEW S, 0 \in S, \A i \in 0 .. n - 1 : i \in S => i + 1 \in S
    PROVE  \A i \in 0 .. n : i \in S
<1> DEFINE T == { i \in Nat : i <= n => i \in S }
<1>1. 0 \in T
  OBVIOUS
<1>2. ASSUME NEW i \in Nat, i \in T PROVE i + 1 \in T
  BY <1>2
<1> HIDE DEF T
<1>3. \A i \in Nat : i \in T
  BY <1>1, <1>2, SetInduction
<1> QED BY <1>3 DEF T

-----------------------------------------------------------------------------
(* The binary search                                                       *)

\* Its windows, and those of at most m runs.
Windows(keys)     == (1 .. Len(keys) + 1) \X (0 .. Len(keys))
Narrower(keys, m) == { w \in Windows(keys) : w[2] - w[1] < m }

\* What it finds in a window, given what it finds in smaller ones.
Halved(keys, x, f, w) ==
    LET mid == (w[1] + w[2]) \div 2
    IN IF w[1] > w[2] THEN w[2]
       ELSE IF keys[mid] = x THEN mid
       ELSE IF keys[mid] > x THEN f[<< w[1], mid - 1 >>]
       ELSE f[<< mid + 1, w[2] >>]

LEMMA HalvesNarrow ==
    ASSUME NEW keys, Len(keys) \in Nat, NEW w \in Windows(keys), w[1] <= w[2], NEW m \in Nat,
           w[2] - w[1] < m + 1
    PROVE  LET mid == (w[1] + w[2]) \div 2
           IN /\ mid \in w[1] .. w[2]
              /\ << w[1], mid - 1 >> \in Narrower(keys, m)
              /\ << mid + 1, w[2] >> \in Narrower(keys, m)
<1>1. w[1] \in 1 .. Len(keys) + 1 /\ w[2] \in 0 .. Len(keys)
  BY DEF Windows
<1>2. (w[1] + w[2]) \div 2 \in w[1] .. w[2]
  BY <1>1
<1> DEFINE mid == (w[1] + w[2]) \div 2
<1>3. mid \in w[1] .. w[2]
  BY <1>2
<1> HIDE DEF mid
<1>4. /\ << w[1], mid - 1 >> \in Windows(keys)
      /\ << mid + 1, w[2] >> \in Windows(keys)
  BY <1>1, <1>3 DEF Windows
<1>5. mid - 1 - w[1] < m /\ w[2] - (mid + 1) < m
  BY <1>1, <1>3
<1>6. /\ << w[1], mid - 1 >> \in Narrower(keys, m)
      /\ << mid + 1, w[2] >> \in Narrower(keys, m)
  BY <1>4, <1>5 DEF Narrower
<1> QED BY <1>3, <1>6 DEF mid

\* The search ends: there is a function that fits its definition.
LEMMA SearchExists ==
    ASSUME NEW keys, Len(keys) \in Nat, NEW x
    PROVE  \E f : f = [w \in Windows(keys) |-> Halved(keys, x, f, w)]
<1> DEFINE Fits(m, f) == f = [w \in Narrower(keys, m) |-> Halved(keys, x, f, w)]
           S == { m \in Nat : \E f : Fits(m, f) }
<1>1. 0 \in S
  <2> DEFINE g == [w \in Narrower(keys, 0) |-> w[2]]
  <2>1. \A w \in Narrower(keys, 0) : Halved(keys, x, g, w) = w[2]
    BY DEF Halved, Narrower, Windows
  <2>2. Fits(0, g)
    BY <2>1
  <2> QED BY <2>2
<1>2. ASSUME NEW m \in Nat, m \in S PROVE m + 1 \in S
  <2>1. PICK f : Fits(m, f)
    BY <1>2
  <2> DEFINE g == [w \in Narrower(keys, m + 1) |-> Halved(keys, x, f, w)]
  <2>2. ASSUME NEW w \in Narrower(keys, m) PROVE g[w] = f[w]
    BY <2>1 DEF Narrower, Windows
  <2>3. ASSUME NEW w \in Narrower(keys, m + 1) PROVE Halved(keys, x, g, w) = Halved(keys, x, f, w)
    <3>1. CASE w[1] > w[2]
      BY <3>1 DEF Halved
    <3>2. CASE ~ (w[1] > w[2])
      <4>1. w \in Windows(keys) /\ w[2] - w[1] < m + 1 /\ w[1] <= w[2]
        BY <3>2 DEF Narrower, Windows
      <4> DEFINE mid == (w[1] + w[2]) \div 2
      <4>2. /\ << w[1], mid - 1 >> \in Narrower(keys, m)
            /\ << mid + 1, w[2] >> \in Narrower(keys, m)
        BY <4>1, HalvesNarrow
      <4>3. /\ g[<< w[1], mid - 1 >>] = f[<< w[1], mid - 1 >>]
            /\ g[<< mid + 1, w[2] >>] = f[<< mid + 1, w[2] >>]
        BY <2>2, <4>2
      <4> HIDE DEF g
      <4> QED BY <4>3 DEF Halved
    <3> QED BY <3>1, <3>2
  <2>4. Fits(m + 1, g)
    BY <2>3
  <2> HIDE DEF g, Fits
  <2> QED BY <2>4
<1> HIDE DEF S
<1>3. Len(keys) \in S
  BY <1>1, <1>2, SetInduction
<1>4. Narrower(keys, Len(keys)) = Windows(keys)
  BY DEF Narrower, Windows
<1> QED BY <1>3, <1>4 DEF S

LEMMA SearchStep ==
    ASSUME NEW keys, Len(keys) \in Nat, NEW x, NEW w \in Windows(keys)
    PROVE  Search(keys, x)[w] = Halved(keys, x, Search(keys, x), w)
<1> DEFINE Fits(f) == f = [v \in Windows(keys) |-> Halved(keys, x, f, v)]
<1>1. Search(keys, x) = CHOOSE f : Fits(f)
  BY DEF Search, Halved, Windows
<1>2. \E f : Fits(f)
  BY SearchExists
<1> HIDE DEF Fits
<1>3. Fits(Search(keys, x))
  BY <1>1, <1>2
<1> QED BY <1>3 DEF Fits

Increasing(keys) == \A i \in 1 .. Len(keys) - 1 : keys[i] < keys[i + 1]

\* The last of the increasing keys that is at most x.
IsLast(keys, x, i) ==
    i \in 1 .. Len(keys) /\ keys[i] <= x /\ (i < Len(keys) => x < keys[i + 1])

\* What is in front of a window is at most x, and what is behind it is more.
Around(keys, x, w) ==
    w[1] <= w[2] + 1 /\ (w[1] > 1 => keys[w[1] - 1] <= x) /\ (w[2] < Len(keys) => x < keys[w[2] + 1])

LEMMA SearchFinds ==
    ASSUME NEW keys \in Seq(Int), NEW x \in Int, keys # << >>, keys[1] <= x,
           Increasing(keys)
    PROVE  \A w \in Windows(keys) : Around(keys, x, w) => IsLast(keys, x, Search(keys, x)[w])
<1> DEFINE S == { m \in Nat : \A w \in Narrower(keys, m) :
                       Around(keys, x, w) => IsLast(keys, x, Search(keys, x)[w]) }
<1>1. Len(keys) \in Nat /\ Len(keys) >= 1 /\ \A i \in 1 .. Len(keys) : keys[i] \in Int
  OBVIOUS
<1>2. ASSUME NEW w \in Windows(keys), w[1] > w[2], Around(keys, x, w)
      PROVE  IsLast(keys, x, Search(keys, x)[w])
  <2>1. w[1] \in 1 .. Len(keys) + 1 /\ w[2] \in 0 .. Len(keys)
    BY DEF Windows
  <2>2. Search(keys, x)[w] = Halved(keys, x, Search(keys, x), w)
    BY <1>1, SearchStep
  <2>4. Search(keys, x)[w] = w[2]
    BY <1>2, <2>2 DEF Halved
  <2>3. w[1] = w[2] + 1 /\ w[2] >= 1
    BY <1>1, <1>2, <2>1 DEF Around
  <2> QED BY <1>1, <1>2, <2>1, <2>4, <2>3 DEF Around, IsLast
<1>3. 0 \in S
  <2>1. \A w \in Narrower(keys, 0) : w \in Windows(keys) /\ w[1] > w[2]
    BY <1>1 DEF Narrower, Windows
  <2> QED BY <1>2, <2>1
<1>4. ASSUME NEW m \in Nat, m \in S PROVE m + 1 \in S
  <2> SUFFICES ASSUME NEW w \in Narrower(keys, m + 1), Around(keys, x, w)
               PROVE  IsLast(keys, x, Search(keys, x)[w])
    OBVIOUS
  <2>1. w \in Windows(keys) /\ w[2] - w[1] < m + 1
    BY DEF Narrower
  <2>2. CASE w[1] > w[2]
    BY <1>2, <2>1, <2>2
  <2>3. CASE ~ (w[1] > w[2])
    <3>1. w[1] \in 1 .. Len(keys) + 1 /\ w[2] \in 0 .. Len(keys)
      BY <2>1 DEF Windows
    <3>2. PICK mid \in Int : mid = (w[1] + w[2]) \div 2
      BY <3>1
    <3>9. w[1] <= w[2]
      BY <2>3, <3>1
    <3>3. /\ mid \in w[1] .. w[2]
          /\ << w[1], mid - 1 >> \in Narrower(keys, m)
          /\ << mid + 1, w[2] >> \in Narrower(keys, m)
      <4> HIDE <2>3
      <4> QED BY <1>1, <2>1, <3>9, <3>2, HalvesNarrow
    <3>4. mid \in 1 .. Len(keys) /\ keys[mid] \in Int
      <4>1. mid \in w[1] .. w[2]
        BY <3>3
      <4>2. mid \in 1 .. Len(keys)
        BY <1>1, <3>1, <4>1
      <4> QED BY <1>1, <4>2
    <3>10. Search(keys, x)[w] = Halved(keys, x, Search(keys, x), w)
      BY <1>1, <2>1, SearchStep
    <3>5. Search(keys, x)[w] = IF keys[mid] = x THEN mid
                               ELSE IF keys[mid] > x THEN Search(keys, x)[<< w[1], mid - 1 >>]
                               ELSE Search(keys, x)[<< mid + 1, w[2] >>]
      BY <2>3, <3>2, <3>10 DEF Halved
    <3>6. CASE keys[mid] = x
      <4>1. mid < Len(keys) => keys[mid] < keys[mid + 1]
        BY <1>1, <3>4 DEF Increasing
      <4> QED BY <1>1, <3>4, <3>5, <3>6, <4>1 DEF IsLast
    <3>7. CASE keys[mid] # x /\ keys[mid] > x
      <4>1. Around(keys, x, << w[1], mid - 1 >>)
        <5>1. mid \in w[1] .. w[2]
          BY <3>3
        <5> QED BY <3>1, <3>4, <3>7, <5>1 DEF Around
      <4> QED BY <1>4, <3>3, <3>5, <3>7, <4>1
    <3>8. CASE keys[mid] # x /\ ~ (keys[mid] > x)
      <4>1. Around(keys, x, << mid + 1, w[2] >>)
        <5>1. mid \in w[1] .. w[2]
          BY <3>3
        <5> QED BY <3>1, <3>4, <3>8, <5>1 DEF Around
      <4> QED BY <1>4, <3>3, <3>5, <3>8, <4>1
    <3> QED BY <3>6, <3>7, <3>8
  <2> QED BY <2>2, <2>3
<1> HIDE DEF S
<1>5. Len(keys) \in S
  BY <1>1, <1>3, <1>4, SetInduction
<1>6. Narrower(keys, Len(keys)) = Windows(keys)
  BY <1>1 DEF Narrower, Windows
<1> QED BY <1>5, <1>6 DEF S

\* LastAtMost is what its name says.
LEMMA RunFound ==
    ASSUME NEW keys \in Seq(Int), NEW x \in Int, keys # << >>, keys[1] <= x,
           Increasing(keys)
    PROVE  IsLast(keys, x, LastAtMost(keys, x))
<1>1. Len(keys) \in Nat /\ Len(keys) >= 1
  OBVIOUS
<1>2. CASE x >= keys[Len(keys)]
  BY <1>1, <1>2 DEF IsLast, LastAtMost
<1>3. CASE ~ (x >= keys[Len(keys)])
  <2>1. << 1, Len(keys) >> \in Windows(keys)
    BY <1>1 DEF Windows
  <2>2. Around(keys, x, << 1, Len(keys) >>)
    BY <1>1 DEF Around
  <2>3. IsLast(keys, x, Search(keys, x)[<< 1, Len(keys) >>])
    BY <2>1, <2>2, SearchFinds
  <2> QED BY <1>3, <2>3 DEF LastAtMost
<1> QED BY <1>2, <1>3

-----------------------------------------------------------------------------
(* Bytes and characters                                                    *)

\* The size of the character that starts at byte i.
Jump(t, i) == IF Whole(t, i) THEN Byte(t, i) ELSE 1

LEMMA ByteType ==
    ASSUME NEW t \in Seq(Role), NEW i \in Nat
    PROVE  Byte(t, i) \in Role
BY DEF Byte, Role

LEMMA JumpType ==
    ASSUME NEW t \in Seq(Role), NEW i \in Nat
    PROVE  /\ Jump(t, i) \in 1 .. 4
           /\ Whole(t, i) => Jump(t, i) = Byte(t, i) /\ i + Jump(t, i) <= Len(t)
BY ByteType DEF Jump, Whole, Role

\* What is inside of a character is a trailer.
LEMMA InsideTrails ==
    ASSUME NEW t \in Seq(Role), NEW i \in Nat, Whole(t, i), NEW k \in Nat, i < k, k < i + Byte(t, i)
    PROVE  k < Len(t) /\ Byte(t, k) = 0
<1>1. Byte(t, i) \in Nat /\ Len(t) \in Nat
  BY ByteType DEF Role
<1>2. k \in i + 1 .. i + Byte(t, i) - 1
  BY <1>1
<1>3. i + Byte(t, i) <= Len(t) /\ t[k + 1] = 0
  BY <1>2 DEF Whole
<1> QED BY <1>1, <1>3 DEF Byte

LEMMA StartsType ==
    ASSUME NEW t \in Seq(Role)
    PROVE  Starts(t) \subseteq 0 .. Len(t) /\ 0 \in Starts(t) /\ Len(t) \in Starts(t)
<1>1. Len(t) \in Nat
  OBVIOUS
<1>2. \A j \in 0 .. Len(t) - 1 : Whole(t, j) => j + Byte(t, j) <= Len(t)
  BY DEF Whole
<1> QED BY <1>1, <1>2 DEF Starts

\* A byte that is not a trailer starts a character.
LEMMA LeadStarts ==
    ASSUME NEW t \in Seq(Role), NEW i \in 0 .. Len(t), Byte(t, i) # 0
    PROVE  i \in Starts(t)
<1> SUFFICES ASSUME NEW j \in 0 .. i - 1, Whole(t, j) PROVE j + Byte(t, j) <= i
  BY DEF Starts
<1>1. j \in Nat /\ i \in Nat /\ j < i /\ Byte(t, j) \in Nat
  BY ByteType DEF Role
<1> QED BY <1>1, InsideTrails

\* The character behind the one that starts at byte i.
LEMMA NextStart ==
    ASSUME NEW t \in Seq(Role), NEW i \in Starts(t), i < Len(t)
    PROVE  /\ i + Jump(t, i) \in Starts(t)
           /\ \A k \in i + 1 .. i + Jump(t, i) - 1 : k \notin Starts(t)
<1>1. i \in 0 .. Len(t) /\ Len(t) \in Nat /\ Jump(t, i) \in 1 .. 4
  BY StartsType, JumpType
<1>2. i + Jump(t, i) \in 0 .. Len(t)
  BY <1>1, JumpType DEF Jump
<1>3. ASSUME NEW j \in 0 .. i + Jump(t, i) - 1, Whole(t, j)
      PROVE  j + Byte(t, j) <= i + Jump(t, i)
  <2>1. CASE j < i
    <3>1. j \in 0 .. i - 1 /\ Byte(t, j) \in Nat
      BY <1>1, <2>1, ByteType DEF Role
    <3>2. j + Byte(t, j) <= i
      BY <1>3, <3>1 DEF Starts
    <3> QED BY <1>1, <3>1, <3>2
  <2>2. CASE j = i
    BY <1>1, <1>3, <2>2 DEF Jump
  <2>3. CASE j > i
    <3>1. Whole(t, i)
      BY <1>1, <2>3 DEF Jump
    <3>2. Jump(t, i) = Byte(t, i)
      BY <3>1 DEF Jump
    <3>3. Byte(t, j) = 0
      BY <1>1, <2>3, <3>1, <3>2, InsideTrails
    <3> QED BY <1>3, <3>3 DEF Whole
  <2> QED BY <1>1, <2>1, <2>2, <2>3
<1>4. i + Jump(t, i) \in Starts(t)
  <2> DEFINE n == i + Jump(t, i)
  <2>1. n \in 0 .. Len(t)
    BY <1>2
  <2>3. ASSUME NEW j \in 0 .. n - 1, Whole(t, j) PROVE j + Byte(t, j) <= n
    BY <1>1, <1>3, <2>3
  <2> HIDE DEF n
  <2>2. n \in Starts(t)
    BY <2>1, <2>3 DEF Starts
  <2> QED BY <2>2 DEF n
<1>5. ASSUME NEW k \in i + 1 .. i + Jump(t, i) - 1 PROVE k \notin Starts(t)
  <2>1. Whole(t, i)
    BY <1>1 DEF Jump
  <2>2. Jump(t, i) = Byte(t, i)
    BY <2>1 DEF Jump
  <2>3. i \in 0 .. k - 1 /\ ~ (i + Byte(t, i) <= k)
    BY <1>1, <2>2
  <2> QED BY <2>1, <2>3 DEF Starts
<1> QED BY <1>4, <1>5

-----------------------------------------------------------------------------
(* Counting characters                                                     *)

\* The starts of characters up to byte b.
Until(t, b) == { i \in Starts(t) : i <= b }

LEMMA UntilFinite ==
    ASSUME NEW t \in Seq(Role), NEW b \in Int
    PROVE  /\ IsFiniteSet(Until(t, b)) /\ Cardinality(Until(t, b)) \in Nat
           /\ CharOf(t, b) = Cardinality(Until(t, b)) - 1
           /\ CharOf(t, b) \in Int
<1>1. IsFiniteSet(0 .. Len(t))
  BY FS_Interval
<1>2. Until(t, b) \in SUBSET (0 .. Len(t))
  BY StartsType DEF Until
<1>3. IsFiniteSet(Until(t, b)) /\ Cardinality(Until(t, b)) \in Nat
  BY <1>1, <1>2, FS_Subset, FS_CardinalityType
<1>4. CharOf(t, b) = Cardinality(Until(t, b)) - 1
  BY DEF CharOf, Until
<1> QED BY <1>3, <1>4

LEMMA CharOfNone ==
    ASSUME NEW t \in Seq(Role)
    PROVE  CharOf(t, -1) = -1
<1>1. Until(t, -1) = {}
  BY StartsType DEF Until
<1>2. Cardinality(Until(t, -1)) = 0
  BY <1>1, FS_EmptySet
<1> QED BY <1>2, UntilFinite

LEMMA CharOfNext ==
    ASSUME NEW t \in Seq(Role), NEW b \in Int
    PROVE  CharOf(t, b + 1) = CharOf(t, b) + (IF b + 1 \in Starts(t) THEN 1 ELSE 0)
<1>1. Starts(t) \subseteq Int
  BY StartsType
<1>2. CASE b + 1 \in Starts(t)
  <2>1. Until(t, b + 1) = Until(t, b) \cup {b + 1} /\ b + 1 \notin Until(t, b)
    BY <1>1, <1>2 DEF Until
  <2>2. Cardinality(Until(t, b + 1)) = Cardinality(Until(t, b)) + 1
    BY <2>1, UntilFinite, FS_AddElement
  <2> QED BY <1>2, <2>2, UntilFinite
<1>3. CASE b + 1 \notin Starts(t)
  <2>1. Until(t, b + 1) = Until(t, b)
    BY <1>1, <1>3 DEF Until
  <2>2. CharOf(t, b + 1) = CharOf(t, b) /\ CharOf(t, b) \in Int
    BY <2>1, UntilFinite
  <2> QED BY <1>3, <2>2
<1> QED BY <1>2, <1>3

LEMMA CharOfGrows ==
    ASSUME NEW t \in Seq(Role), NEW a \in Int, NEW b \in Int, a <= b
    PROVE  /\ CharOf(t, a) <= CharOf(t, b)
           /\ a < b /\ b \in Starts(t) => CharOf(t, a) < CharOf(t, b)
<1>1. ASSUME NEW c \in Int, NEW d \in Int, c <= d PROVE CharOf(t, c) <= CharOf(t, d)
  <2>1. Until(t, c) \in SUBSET Until(t, d)
    BY <1>1, StartsType DEF Until
  <2>2. Cardinality(Until(t, c)) <= Cardinality(Until(t, d))
    BY <2>1, UntilFinite, FS_Subset
  <2> QED BY <2>2, UntilFinite
<1>2. ASSUME a < b, b \in Starts(t) PROVE CharOf(t, a) < CharOf(t, b)
  <2>1. CharOf(t, a) <= CharOf(t, b - 1)
    BY <1>1, <1>2
  <2>2. PICK c \in Int : c = b - 1
    OBVIOUS
  <2>3. CharOf(t, c + 1) = CharOf(t, c) + (IF c + 1 \in Starts(t) THEN 1 ELSE 0)
    BY CharOfNext
  <2>4. c + 1 = b
    BY <2>2
  <2>5. CharOf(t, b) = CharOf(t, c) + 1
    BY <1>2, <2>3, <2>4
  <2>6. CharOf(t, c) \in Int /\ CharOf(t, a) \in Int
    BY UntilFinite
  <2> QED BY <2>1, <2>2, <2>5, <2>6
<1> QED BY <1>1, <1>2

\* A character starts at one byte only.
LEMMA StartUnique ==
    ASSUME NEW t \in Seq(Role), NEW i \in Starts(t), NEW j \in Starts(t), CharOf(t, i) = CharOf(t, j)
    PROVE  i = j
<1>1. i \in Int /\ j \in Int
  BY StartsType
<1>2. CharOf(t, i) \in Int /\ CharOf(t, j) \in Int
  BY <1>1, UntilFinite
<1> QED BY <1>1, <1>2, CharOfGrows

LEMMA StartOfUnique ==
    ASSUME NEW t \in Seq(Role), NEW i \in Starts(t)
    PROVE  StartOf(t, CharOf(t, i)) = i
BY StartUnique DEF StartOf

\* Every byte is in a character.
LEMMA CharStarts ==
    ASSUME NEW t \in Seq(Role), NEW b \in Nat
    PROVE  \E i \in Starts(t) : i <= b /\ CharOf(t, i) = CharOf(t, b)
<1> DEFINE S == { n \in Nat : \E i \in Starts(t) : i <= n /\ CharOf(t, i) = CharOf(t, n) }
<1>1. 0 \in S
  BY StartsType
<1>2. ASSUME NEW n \in Nat, n \in S PROVE n + 1 \in S
  <2>1. CASE n + 1 \in Starts(t)
    BY <2>1
  <2>2. CASE n + 1 \notin Starts(t)
    <3>1. CharOf(t, n + 1) = CharOf(t, n)
      BY <2>2, CharOfNext, UntilFinite
    <3>2. PICK i \in Starts(t) : i <= n /\ CharOf(t, i) = CharOf(t, n)
      BY <1>2
    <3>3. i <= n + 1
      BY <3>2, StartsType
    <3> QED BY <3>1, <3>2, <3>3
  <2> QED BY <2>1, <2>2
<1> HIDE DEF S
<1>3. b \in S
  BY <1>1, <1>2, SetInduction
<1> QED BY <1>3 DEF S

LEMMA CountIsLast ==
    ASSUME NEW t \in Seq(Role)
    PROVE  CharCount(t) = CharOf(t, Len(t))
<1>1. Until(t, Len(t)) = Starts(t)
  BY StartsType DEF Until
<1> QED BY <1>1 DEF CharCount, CharOf, Until

-----------------------------------------------------------------------------
(* A text and what is put behind it                                        *)

\* Text t starts with u, and does not go on with a trailer.
StartsWith(t, u) ==
    /\ Len(u) <= Len(t)
    /\ \A i \in 1 .. Len(u) : t[i] = u[i]
    /\ Len(u) < Len(t) => t[Len(u) + 1] # 0

LEMMA FrontSame ==
    ASSUME NEW t \in Seq(Role), NEW u \in Seq(Role), StartsWith(t, u)
    PROVE  \A i \in 0 .. Len(u) - 1 :
               Byte(t, i) = Byte(u, i) /\ Whole(t, i) = Whole(u, i) /\ Jump(t, i) = Jump(u, i)
<1> SUFFICES ASSUME NEW i \in 0 .. Len(u) - 1
             PROVE  Byte(t, i) = Byte(u, i) /\ Whole(t, i) = Whole(u, i) /\ Jump(t, i) = Jump(u, i)
  OBVIOUS
<1>1. Len(u) \in Nat /\ Len(t) \in Nat /\ Len(u) <= Len(t)
  BY DEF StartsWith
<1>2. Byte(t, i) = Byte(u, i) /\ Byte(t, i) \in Nat
  <2>1. t[i + 1] = u[i + 1]
    BY <1>1 DEF StartsWith
  <2> QED BY <1>1, <2>1, ByteType DEF Byte, Role
<1>3. ASSUME Whole(t, i) PROVE Whole(u, i)
  <2>1. i + Byte(t, i) <= Len(u)
    <3> SUFFICES ASSUME ~ (i + Byte(t, i) <= Len(u)) PROVE FALSE
      OBVIOUS
    <3>1. Len(u) < Len(t) /\ Byte(t, Len(u)) = 0
      BY <1>1, <1>2, <1>3, InsideTrails
    <3> QED BY <1>1, <3>1 DEF StartsWith, Byte
  <2>2. \A j \in i + 1 .. i + Byte(t, i) - 1 : j + 1 \in 1 .. Len(u) /\ t[j + 1] = 0
    BY <1>1, <1>2, <1>3, <2>1 DEF Whole
  <2>3. \A j \in i + 1 .. i + Byte(t, i) - 1 : u[j + 1] = 0
    BY <2>2 DEF StartsWith
  <2>4. Byte(t, i) > 1
    BY <1>3 DEF Whole
  <2> QED BY <1>2, <2>1, <2>3, <2>4 DEF Whole
<1>4. ASSUME Whole(u, i) PROVE Whole(t, i)
  <2>1. i + Byte(u, i) <= Len(u) /\ Byte(u, i) > 1
    BY <1>4 DEF Whole
  <2>2. \A j \in i + 1 .. i + Byte(u, i) - 1 : j + 1 \in 1 .. Len(u) /\ u[j + 1] = 0
    BY <1>1, <1>2, <1>4, <2>1 DEF Whole
  <2>3. \A j \in i + 1 .. i + Byte(t, i) - 1 : t[j + 1] = 0
    BY <1>2, <2>2 DEF StartsWith
  <2> QED BY <1>1, <1>2, <2>1, <2>3 DEF Whole
<1>5. Whole(t, i) \in BOOLEAN /\ Whole(u, i) \in BOOLEAN
  BY DEF Whole
<1>6. Whole(t, i) = Whole(u, i)
  BY <1>3, <1>4, <1>5
<1> QED BY <1>2, <1>6 DEF Jump

LEMMA FrontCounts ==
    ASSUME NEW t \in Seq(Role), NEW u \in Seq(Role), StartsWith(t, u)
    PROVE  /\ Starts(u) = Until(t, Len(u))
           /\ \A b \in Int : b <= Len(u) => CharOf(t, b) = CharOf(u, b)
           /\ CharCount(u) = CharOf(t, Len(u))
<1>1. Len(u) \in Nat /\ Len(t) \in Nat /\ Len(u) <= Len(t)
  BY DEF StartsWith
<1>2. ASSUME NEW i \in 0 .. Len(u) PROVE i \in Starts(u) <=> i \in Starts(t)
  <2>1. \A j \in 0 .. i - 1 : Byte(t, j) = Byte(u, j) /\ Whole(t, j) = Whole(u, j)
    BY <1>1, FrontSame
  <2>2. i \in 0 .. Len(t)
    BY <1>1
  <2> QED BY <2>1, <2>2 DEF Starts
<1>3. Starts(u) = Until(t, Len(u))
  BY <1>1, <1>2, StartsType DEF Until
<1>4. ASSUME NEW b \in Int, b <= Len(u) PROVE CharOf(t, b) = CharOf(u, b)
  <2>1. Until(t, b) = Until(u, b)
    BY <1>1, <1>3, <1>4, StartsType DEF Until
  <2> QED BY <2>1, UntilFinite
<1>5. CharCount(u) = CharOf(t, Len(u))
  <2>1. CharOf(t, Len(u)) = CharOf(u, Len(u))
    BY <1>1, <1>4
  <2> QED BY <2>1, CountIsLast
<1> QED BY <1>3, <1>4, <1>5

\* What an extension leaves as it was: all up to the byte that stood for the end.
LEMMA ExtendedFront ==
    ASSUME NEW u \in Seq(Role), NEW x \in Seq(Role)
    PROVE  /\ Extended(u, x) \in Seq(Role)
           /\ StartsWith(Extended(u, x), u)
           /\ Len(u) < Len(Extended(u, x))
           /\ Byte(Extended(u, x), Len(u)) = 1
<1>1. << 1 >> \in Seq(Role)
  BY DEF Role
<1> DEFINE v == u \o << 1 >>
<1>2. v \in Seq(Role) /\ Len(v) = Len(u) + 1 /\ v[Len(u) + 1] = 1
      /\ \A i \in 1 .. Len(u) : v[i] = u[i]
  BY <1>1
<1> HIDE DEF v
<1>3. v \o x \in Seq(Role) /\ Len(v \o x) = Len(v) + Len(x)
      /\ \A i \in 1 .. Len(v) : (v \o x)[i] = v[i]
  BY <1>2
<1>4. Extended(u, x) = v \o x
  BY DEF Extended, v
<1> DEFINE w == v \o x
<1>5. Len(u) \in Nat /\ Len(x) \in Nat
  OBVIOUS
<1>6. w \in Seq(Role) /\ Len(w) = Len(u) + 1 + Len(x) /\ w[Len(u) + 1] = 1
      /\ \A i \in 1 .. Len(u) : w[i] = u[i]
  BY <1>2, <1>3, <1>5
<1> HIDE DEF w
<1>7. Extended(u, x) = w
  BY <1>4 DEF w
<1> QED BY <1>5, <1>6, <1>7 DEF StartsWith, Byte

-----------------------------------------------------------------------------
(* The invariant                                                           *)

Run == [char : Nat, byte : Nat, blen : 1 .. 4]

Cursor == [location : Int, clocation : Int, trailer : Nat, maxchar : Int, maxbyte : Int,
           maxblen : 0 .. 4, runs : Seq(Run), broken : {"no", "gap", "scan", "before first run"}]

\* Byte b starts character c, of k bytes.
Begins(t, b, c, k) == b \in Starts(t) /\ CharOf(t, b) = c /\ Jump(t, b) = k

\* The last character of run i.
LastOf(s, i) == IF i = Len(s.runs) THEN s.maxchar ELSE s.runs[i + 1].char - 1

\* A run describes its characters, and the next one starts where it ends.
RunTrue(t, s, i) ==
    LET r == s.runs[i]
    IN /\ r.char <= LastOf(s, i)
       /\ \A c \in r.char .. LastOf(s, i) : Begins(t, ByteInRun(r, c), c, r.blen)
       /\ i < Len(s.runs) => s.runs[i + 1].byte = ByteInRun(r, s.runs[i + 1].char)

\* The index tells the truth of all characters visited.
IndexTrue(t, s) ==
    \/ s.maxchar = -1 /\ s.maxbyte = -1 /\ s.maxblen = 0 /\ s.runs = << >>
    \/ /\ s.maxchar >= 0 /\ Begins(t, s.maxbyte, s.maxchar, s.maxblen)
       /\ s.runs # << >> /\ s.runs[1].char = 0 /\ s.runs[1].byte = 0
       /\ s.runs[Len(s.runs)].blen = s.maxblen
       /\ \A i \in 1 .. Len(s.runs) : RunTrue(t, s, i)

\* The cursors are at one place, which was visited.
Placed(t, s) ==
    /\ s \in Cursor /\ s.broken = "no"
    /\ s.location \in -1 .. Len(t)
    /\ s.clocation = CharOf(t, s.location) /\ s.clocation <= s.maxchar
    /\ IndexTrue(t, s)

\* Where a trailer comes next, the count tells how many are still expected.
TrailersKnown(t, s) ==
    Byte(t, s.location + 1) = 0 =>
        /\ s.location + 1 + s.trailer \in Starts(t)
        /\ \A k \in s.location + 1 .. s.location + s.trailer : k \notin Starts(t)

TextInv ==
    /\ text \in Seq(Role) /\ psize \in 0 .. Len(text) /\ Byte(text, psize) # 0
    /\ csize = - psize \/ csize = CharOf(text, psize)

CursorInv ==
    /\ Placed(text, cur) /\ TrailersKnown(text, cur)
    /\ cur.location <= Len(text) - 1
    /\ begin \in Int /\ begin >= -1
    /\ pc \in {"idle", "loop", "handler"}

\* Handlers run between two characters.
HandlerInv == pc = "handler" => Byte(text, cur.location + 1) # 0

\* The character to stop after, if there is one, has one byte, and no trailer
\* follows.
StopInv ==
    /\ cstop \in -2 .. CharOf(text, Len(text)) - 1
    /\ \A s \in Starts(text) :
           CharOf(text, s) = cstop => ~ Whole(text, s) /\ Byte(text, s + 1) # 0

\* In front of the first byte nothing is indexed, and no handler runs unless the
\* primary input is empty.
FirstInv ==
    cur.location = -1 => cur.maxchar = -1 /\ (pc = "handler" \/ cstop # -2 => psize = 0)

AskedInv ==
    asked # None => cur.location + 1 \in Starts(text) /\ CharOf(text, cur.location + 1) = asked

InboundInv == TextInv /\ CursorInv /\ HandlerInv /\ StopInv /\ FirstInv /\ AskedInv

-----------------------------------------------------------------------------
(* The index                                                               *)

LEMMA InChar ==
    ASSUME NEW t \in Seq(Role), NEW i \in Starts(t), NEW b \in i .. i + Jump(t, i) - 1, b <= Len(t)
    PROVE  CharOf(t, b) = CharOf(t, i)
<1>1. i \in Nat /\ Len(t) \in Nat /\ Jump(t, i) \in 1 .. 4
  BY StartsType, JumpType
<1>2. b \in Nat /\ i <= b
  BY <1>1
<1>3. PICK j \in Starts(t) : j <= b /\ CharOf(t, j) = CharOf(t, b)
  BY <1>2, CharStarts
<1>4. j \in Nat
  BY StartsType
<1>5. j <= i
  <2> SUFFICES ASSUME j > i PROVE FALSE
    BY <1>1, <1>4
  <2>1. i < Len(t) /\ j \in i + 1 .. i + Jump(t, i) - 1
    BY <1>1, <1>2, <1>3, <1>4
  <2> QED BY <2>1, NextStart
<1>6. CharOf(t, j) <= CharOf(t, i) /\ CharOf(t, i) <= CharOf(t, b)
  BY <1>1, <1>2, <1>4, <1>5, CharOfGrows
<1>7. CharOf(t, i) \in Int /\ CharOf(t, b) \in Int
  BY <1>1, <1>2, UntilFinite
<1> QED BY <1>3, <1>6, <1>7

\* Products with the length of a character, one length at a time.
LEMMA Scaled ==
    ASSUME NEW k \in 1 .. 4, NEW a \in Int, NEW b \in Int
    PROVE  /\ k * a \in Int
           /\ a < b <=> k * a < k * b
           /\ k * (a + 1) = k * a + k
<1>1. CASE k = 1
  BY <1>1
<1>2. CASE k = 2
  BY <1>2
<1>3. CASE k = 3
  BY <1>3
<1>4. CASE k = 4
  BY <1>4
<1> QED BY <1>1, <1>2, <1>3, <1>4

LEMMA Divided ==
    ASSUME NEW k \in 1 .. 4, NEW d \in Nat
    PROVE  \E q \in Nat, m \in Nat : q = d \div k /\ m = k * q /\ m <= d /\ d < m + k
<1>1. CASE k = 1
  BY <1>1
<1>2. CASE k = 2
  BY <1>2
<1>3. CASE k = 3
  BY <1>3
<1>4. CASE k = 4
  BY <1>4
<1> QED BY <1>1, <1>2, <1>3, <1>4

LEMMA RunType ==
    ASSUME NEW s \in Cursor, NEW i \in 1 .. Len(s.runs)
    PROVE  /\ s.runs[i] \in Run
           /\ s.runs[i].char \in Nat /\ s.runs[i].byte \in Nat /\ s.runs[i].blen \in 1 .. 4
<1>1. s.runs \in Seq(Run)
  BY DEF Cursor
<1>2. s.runs[i] \in Run
  BY <1>1
<1> QED BY <1>2 DEF Run

\* The starts of the runs, as characters and as bytes.
Keys(s, key) == [j \in DOMAIN s.runs |-> s.runs[j][key]]

LEMMA KeysIncrease ==
    ASSUME NEW t \in Seq(Role), NEW s \in Cursor, IndexTrue(t, s), s.maxchar >= 0,
           NEW key \in {"char", "byte"}
    PROVE  /\ Keys(s, key) \in Seq(Int) /\ Len(Keys(s, key)) = Len(s.runs)
           /\ \A i \in 1 .. Len(s.runs) : Keys(s, key)[i] = s.runs[i][key]
           /\ Keys(s, key) # << >> /\ Keys(s, key)[1] = 0
           /\ Increasing(Keys(s, key))
<1> DEFINE n == Len(s.runs)
<1>1. s.runs \in Seq(Run) /\ n \in Nat /\ DOMAIN s.runs = 1 .. n
  <2>1. s.runs \in Seq(Run)
    BY DEF Cursor
  <2> QED BY <2>1
<1>2. /\ s.runs # << >> /\ s.runs[1].char = 0 /\ s.runs[1].byte = 0
      /\ \A i \in 1 .. n : RunTrue(t, s, i)
  BY DEF IndexTrue
<1>3. n >= 1
  BY <1>1, <1>2
<1>4. \A i \in 1 .. n : s.runs[i][key] \in Int
  BY RunType
<1>5. Keys(s, key) \in Seq(Int) /\ Len(Keys(s, key)) = n
      /\ \A i \in 1 .. n : Keys(s, key)[i] = s.runs[i][key]
  BY <1>1, <1>4 DEF Keys
<1>6. Keys(s, key)[1] = 0
  BY <1>1, <1>2, <1>3, <1>5
<1>7. ASSUME NEW i \in 1 .. n - 1 PROVE Keys(s, key)[i] < Keys(s, key)[i + 1]
  <2>1. i \in 1 .. n /\ i + 1 \in 1 .. n /\ i # n /\ i < n
    BY <1>1
  <2>2. RunTrue(t, s, i)
    BY <1>2, <2>1
  <2> DEFINE r == s.runs[i]
             q == s.runs[i + 1]
  <2>3. /\ r.char \in Nat /\ r.byte \in Nat /\ r.blen \in 1 .. 4
        /\ q.char \in Nat /\ q.byte \in Nat
    BY <2>1, RunType
  <2>4. r.char <= q.char - 1 /\ q.byte = ByteInRun(r, q.char)
    BY <2>1, <2>2 DEF RunTrue, LastOf
  <2> HIDE DEF r, q
  <2>5. PICK d \in Int : d = q.char - r.char /\ 0 < d
    BY <2>3, <2>4
  <2>8. r.blen * 0 < r.blen * d /\ r.blen * d \in Int /\ r.blen * 0 = 0
    BY <2>3, <2>5, Scaled
  <2>6. r.byte < q.byte
    BY <2>3, <2>4, <2>5, <2>8 DEF ByteInRun
  <2>7. r.char < q.char
    BY <2>3, <2>4
  <2> QED BY <1>5, <2>1, <2>6, <2>7 DEF r, q
<1>8. Keys(s, key) # << >>
  BY <1>3, <1>5
<1> QED BY <1>5, <1>6, <1>7, <1>8 DEF Increasing

\* The run that is found.
LEMMA KeyFound ==
    ASSUME NEW t \in Seq(Role), NEW s \in Cursor, IndexTrue(t, s), s.maxchar >= 0,
           NEW key \in {"char", "byte"}, NEW x \in Nat
    PROVE  \E i \in 1 .. Len(s.runs) :
               /\ i = LastAtMost(Keys(s, key), x) /\ i # 0
               /\ RunTrue(t, s, i) /\ s.runs[i][key] <= x
               /\ i # Len(s.runs) => i + 1 \in 1 .. Len(s.runs) /\ x < s.runs[i + 1][key]
               /\ LastOf(s, i) \in Int
<1> DEFINE K == Keys(s, key)
           n == Len(s.runs)
           i == LastAtMost(K, x)
<1>1. /\ K \in Seq(Int) /\ Len(K) = n /\ K # << >> /\ K[1] = 0 /\ Increasing(K)
      /\ \A j \in 1 .. n : K[j] = s.runs[j][key]
  BY KeysIncrease
<1>2. n \in Nat /\ s.maxchar \in Int
  <2>1. s.runs \in Seq(Run) /\ s.maxchar \in Int
    BY DEF Cursor
  <2> QED BY <2>1
<1>3. \A j \in 1 .. n : RunTrue(t, s, j) /\ s.runs[j].char \in Nat
  BY <1>2, RunType DEF IndexTrue
<1> HIDE DEF K, n, i
<1>4. IsLast(K, x, i)
  BY <1>1, RunFound DEF i
<1>5. /\ i \in 1 .. n /\ K[i] <= x
      /\ i # n => i + 1 \in 1 .. n /\ x < K[i + 1]
  BY <1>1, <1>2, <1>4 DEF IsLast
<1>6. i # 0
  BY <1>2, <1>5
<1>7. LastOf(s, i) \in Int
  <2>1. CASE i = n
    BY <1>2, <2>1 DEF LastOf, n
  <2>2. CASE i # n
    <3>1. s.runs[i + 1].char \in Nat
      BY <1>3, <1>5, <2>2
    <3> QED BY <2>2, <3>1 DEF LastOf, n
  <2> QED BY <2>1, <2>2
<1>8. RunTrue(t, s, i) /\ s.runs[i][key] <= x /\ (i # n => i + 1 \in 1 .. n /\ x < s.runs[i + 1][key])
  BY <1>1, <1>3, <1>5
<1> QED BY <1>5, <1>6, <1>7, <1>8 DEF i, K, n

\* A character visited is found at its first byte.
LEMMA ByteFound ==
    ASSUME NEW t \in Seq(Role), NEW s \in Cursor, IndexTrue(t, s), NEW c \in 0 .. s.maxchar
    PROVE  /\ FindByte(t, s, c) = Found(s, StartOf(t, c))
           /\ StartOf(t, c) \in Starts(t) /\ CharOf(t, StartOf(t, c)) = c
<1>0. s.maxchar \in Int
  BY DEF Cursor
<1>1. s.maxchar \in Int /\ s.maxchar >= 0 /\ c \in Nat
  BY <1>0
<1>2. Begins(t, s.maxbyte, s.maxchar, s.maxblen)
  BY <1>1 DEF IndexTrue
<1>3. CASE c = s.maxchar
  <2>1. StartOf(t, c) = s.maxbyte
    BY <1>2, <1>3, StartOfUnique DEF Begins
  <2> QED BY <1>2, <1>3, <2>1 DEF Begins, FindByte
<1>4. CASE c # s.maxchar
  <2>1. PICK i \in 1 .. Len(s.runs) :
            /\ i = LastAtMost(Keys(s, "char"), c) /\ i # 0
            /\ RunTrue(t, s, i) /\ s.runs[i].char <= c
            /\ i # Len(s.runs) => i + 1 \in 1 .. Len(s.runs) /\ c < s.runs[i + 1].char
            /\ LastOf(s, i) \in Int
    BY <1>1, KeyFound
  <2>2. s.runs[i].char \in Nat
    BY RunType
  <2>3. c <= LastOf(s, i)
    <3>1. CASE i = Len(s.runs)
      BY <1>1, <3>1 DEF LastOf
    <3>2. CASE i # Len(s.runs)
      <4>1. s.runs[i + 1].char \in Nat
        BY <2>1, <3>2, RunType
      <4> QED BY <1>1, <2>1, <3>2, <4>1 DEF LastOf
    <3> QED BY <3>1, <3>2
  <2>4. Begins(t, ByteInRun(s.runs[i], c), c, s.runs[i].blen)
    <3>1. c \in s.runs[i].char .. LastOf(s, i)
      BY <1>1, <2>1, <2>2, <2>3
    <3> QED BY <2>1, <3>1 DEF RunTrue
  <2>5. StartOf(t, c) = ByteInRun(s.runs[i], c)
    BY <2>4, StartOfUnique DEF Begins
  <2>6. FindByte(t, s, c) = Found(s, ByteInRun(s.runs[i], c))
    <3>1. ~ (c > s.maxchar) /\ s.runs # << >>
      BY <1>1 DEF IndexTrue
    <3> QED BY <1>4, <2>1, <3>1 DEF FindByte, ByRun, Keys
  <2> QED BY <2>4, <2>5, <2>6 DEF Begins
<1> QED BY <1>3, <1>4

\* A byte visited is found in its character.
LEMMA CharFound ==
    ASSUME NEW t \in Seq(Role), NEW s \in Cursor, IndexTrue(t, s), s.maxchar >= 0,
           NEW b \in 0 .. s.maxbyte
    PROVE  CharOfVisited(s, b) = Found(s, CharOf(t, b))
<1>1. s.maxchar \in Int /\ s.maxbyte \in Int
  BY DEF Cursor
<1>2. Begins(t, s.maxbyte, s.maxchar, s.maxblen) /\ s.maxblen \in 1 .. 4
  <2>1. Begins(t, s.maxbyte, s.maxchar, s.maxblen)
    BY <1>1 DEF IndexTrue
  <2> QED BY <2>1, StartsType, JumpType DEF Begins
<1>3. CASE b = s.maxbyte
  BY <1>2, <1>3 DEF Begins, CharOfVisited
<1>4. CASE b # s.maxbyte
  <2>0. b \in Nat /\ b < s.maxbyte /\ s.maxbyte <= Len(t) /\ Len(t) \in Nat
    BY <1>1, <1>2, <1>4, StartsType DEF Begins
  <2>1. PICK i \in 1 .. Len(s.runs) :
            /\ i = LastAtMost(Keys(s, "byte"), b) /\ i # 0
            /\ RunTrue(t, s, i) /\ s.runs[i].byte <= b
            /\ i # Len(s.runs) => i + 1 \in 1 .. Len(s.runs) /\ b < s.runs[i + 1].byte
            /\ LastOf(s, i) \in Int
    BY <1>1, <2>0, KeyFound
  <2> DEFINE r == s.runs[i]
             q == (b - r.byte) \div r.blen
             c == CharInRun(r, b)
  <2>2. r.char \in Nat /\ r.byte \in Nat /\ r.blen \in 1 .. 4
    BY RunType
  <2>3. r.byte <= b /\ r.char <= LastOf(s, i)
    BY <2>1 DEF RunTrue
  <2>4. /\ q \in Nat /\ c = r.char + q
        /\ ByteInRun(r, c) = r.byte + r.blen * q
        /\ r.byte + r.blen * q <= b /\ b < r.byte + r.blen * q + r.blen
    <3> HIDE DEF r
    <3>1. PICK d \in Nat : d = b - r.byte
      BY <2>0, <2>2, <2>3
    <3>2. PICK n \in Nat, m \in Nat :
              n = d \div r.blen /\ m = r.blen * n /\ m <= d /\ d < m + r.blen
      BY <2>2, <3>1, Divided
    <3>3. q = n
      BY <3>1, <3>2
    <3>4. c = r.char + q
      BY DEF CharInRun
    <3> HIDE DEF q, c
    <3>5. q \in Nat /\ r.blen * q = m
      BY <3>2, <3>3
    <3>6. c - r.char = q
      BY <2>2, <3>4, <3>5
    <3>7. ByteInRun(r, c) = r.byte + r.blen * q
      BY <3>6 DEF ByteInRun
    <3>10. r.byte + r.blen * q <= b /\ b < r.byte + r.blen * q + r.blen
      <4>1. r.byte + m <= b /\ b < r.byte + m + r.blen
        <5>1. m <= d /\ d < m + r.blen
          BY <3>2
        <5>2. b \in Int /\ r.byte \in Int /\ r.blen \in Int
          BY <2>0, <2>2
        <5> QED BY <3>1, <5>1, <5>2
      <4> QED BY <3>5, <4>1
    <3> QED BY <3>4, <3>5, <3>7, <3>10
  <2> HIDE DEF q, c
  <2>5. c <= LastOf(s, i)
    <3>1. CASE i = Len(s.runs)
      <4>1. LastOf(s, i) = s.maxchar
        BY <3>1 DEF LastOf
      <4>2. Begins(t, ByteInRun(r, s.maxchar), s.maxchar, r.blen)
        BY <1>1, <2>1, <2>2, <2>3, <4>1 DEF RunTrue
      <4>3. s.maxbyte = ByteInRun(r, s.maxchar)
        BY <1>2, <4>2, StartUnique DEF Begins
      <4> HIDE DEF r
      <4>4. PICK d \in Int : d = s.maxchar - r.char
        BY <1>1, <2>2
      <4>5. s.maxbyte = r.byte + r.blen * d
        BY <4>3, <4>4 DEF ByteInRun
      <4>6. r.blen * q < r.blen * d
        <5>1. r.blen * q \in Int /\ r.blen * d \in Int
          BY <2>2, <2>4, <4>4, Scaled
        <5> QED BY <2>0, <2>2, <2>4, <4>5, <5>1
      <4>7. q < d
        BY <2>2, <2>4, <4>4, <4>6, Scaled
      <4> QED BY <1>1, <2>2, <2>4, <4>1, <4>4, <4>7
    <3>2. CASE i # Len(s.runs)
      <4> DEFINE p == s.runs[i + 1]
      <4>1. p.char \in Nat /\ p.byte \in Nat /\ b < p.byte
        BY <2>1, <3>2, RunType
      <4>2. LastOf(s, i) = p.char - 1
        BY <3>2 DEF LastOf
      <4>3. p.byte = ByteInRun(r, p.char)
        <5>1. i < Len(s.runs)
          <6>1. s.runs \in Seq(Run)
            BY DEF Cursor
          <6>2. Len(s.runs) \in Nat
            BY <6>1
          <6> QED BY <3>2, <6>2
        <5> QED BY <2>1, <5>1 DEF RunTrue
      <4> HIDE DEF r, p
      <4>4. PICK d \in Int : d = p.char - r.char
        BY <2>2, <4>1
      <4>5. p.byte = r.byte + r.blen * d
        BY <4>3, <4>4 DEF ByteInRun
      <4>6. r.blen * q < r.blen * d
        <5>1. r.blen * q \in Int /\ r.blen * d \in Int
          BY <2>2, <2>4, <4>4, Scaled
        <5> QED BY <2>0, <2>2, <2>4, <4>1, <4>5, <5>1
      <4>7. q < d
        BY <2>2, <2>4, <4>4, <4>6, Scaled
      <4> QED BY <2>2, <2>4, <4>1, <4>2, <4>4, <4>7
    <3> QED BY <3>1, <3>2
  <2>6. Begins(t, ByteInRun(r, c), c, r.blen)
    <3>1. c \in r.char .. LastOf(s, i)
      <4> HIDE DEF r
      <4> QED BY <2>1, <2>2, <2>4, <2>5
    <3> QED BY <2>1, <3>1 DEF RunTrue
  <2>7. CharOf(t, b) = c
    <3> HIDE DEF r
    <3>1. PICK j \in Starts(t) : j = ByteInRun(r, c) /\ CharOf(t, j) = c /\ Jump(t, j) = r.blen
      BY <2>6 DEF Begins
    <3>2. j \in Nat /\ j <= b /\ b < j + r.blen
      BY <2>4, <3>1, StartsType
    <3>3. b \in j .. j + Jump(t, j) - 1
      BY <2>0, <2>2, <3>1, <3>2
    <3>5. b <= Len(t)
      BY <1>1, <2>0
    <3>4. CharOf(t, b) = CharOf(t, j)
      BY <3>1, <3>3, <3>5, InChar
    <3> QED BY <3>1, <3>4
  <2>8. CharOfVisited(s, b) = Found(s, c)
    <3>1. s.runs # << >>
      BY <1>1 DEF IndexTrue
    <3> QED BY <1>4, <2>1, <3>1 DEF CharOfVisited, ByRun, Keys, c
  <2> QED BY <2>7, <2>8
<1> QED BY <1>3, <1>4

-----------------------------------------------------------------------------
(* A step of the cursors                                                   *)

LEMMA BytesOfNext ==
    ASSUME NEW r, r.char \in Nat, r.byte \in Nat, r.blen \in 1 .. 4, NEW c \in Int
    PROVE  /\ ByteInRun(r, c + 1) = ByteInRun(r, c) + r.blen
           /\ ByteInRun(r, r.char) = r.byte
<1>1. CASE r.blen = 1
  BY <1>1 DEF ByteInRun
<1>2. CASE r.blen = 2
  BY <1>2 DEF ByteInRun
<1>3. CASE r.blen = 3
  BY <1>3 DEF ByteInRun
<1>4. CASE r.blen = 4
  BY <1>4 DEF ByteInRun
<1> QED BY <1>1, <1>2, <1>3, <1>4

\* The character behind the largest one visited is where the last run goes on.
LEMMA RunGoesOn ==
    ASSUME NEW t \in Seq(Role), NEW s \in Cursor, IndexTrue(t, s), s.maxchar >= 0,
           NEW i \in Starts(t), CharOf(t, i) = s.maxchar + 1
    PROVE  /\ Len(s.runs) \in Nat \ {0} /\ s.runs[Len(s.runs)].blen = s.maxblen
           /\ i = ByteInRun(s.runs[Len(s.runs)], s.maxchar + 1)
<1> DEFINE n == Len(s.runs)
           r == s.runs[n]
<1>1. s.maxchar \in Int /\ s.maxbyte \in Int /\ n \in Nat /\ s.runs # << >>
  <2>1. s.runs \in Seq(Run) /\ s.maxchar \in Int /\ s.maxbyte \in Int
    BY DEF Cursor
  <2>2. s.runs # << >>
    BY <2>1 DEF IndexTrue
  <2> QED BY <2>1, <2>2
<1>2. n \in 1 .. n /\ n # 0
  <2>1. s.runs \in Seq(Run)
    BY DEF Cursor
  <2>2. n # 0
    BY <1>1, <2>1
  <2> QED BY <1>1, <2>2
<1>3. r.char \in Nat /\ r.byte \in Nat /\ r.blen \in 1 .. 4
  BY <1>2, RunType
<1>4. Begins(t, s.maxbyte, s.maxchar, s.maxblen) /\ r.blen = s.maxblen /\ RunTrue(t, s, n)
  BY <1>1, <1>2 DEF IndexTrue
<1>5. r.char <= s.maxchar /\ Begins(t, ByteInRun(r, s.maxchar), s.maxchar, r.blen)
  BY <1>1, <1>3, <1>4 DEF RunTrue, LastOf
<1> HIDE DEF r, n
<1>6. s.maxbyte = ByteInRun(r, s.maxchar)
  BY <1>4, <1>5, StartUnique DEF Begins
<1>7. i = s.maxbyte + s.maxblen
  <2>1. i \in Nat /\ i <= Len(t) /\ Len(t) \in Nat /\ s.maxbyte \in Nat
    BY <1>4, StartsType DEF Begins
  <2>2. s.maxbyte < i
    <3> SUFFICES ASSUME i <= s.maxbyte PROVE FALSE
      BY <2>1
    <3>1. CharOf(t, i) <= CharOf(t, s.maxbyte)
      BY <2>1, CharOfGrows
    <3> QED BY <1>1, <1>4, <3>1 DEF Begins
  <2>3. /\ s.maxbyte + s.maxblen \in Starts(t)
        /\ \A k \in s.maxbyte + 1 .. s.maxbyte + s.maxblen - 1 : k \notin Starts(t)
    BY <1>4, <2>1, <2>2, NextStart DEF Begins
  <2>4. PICK e \in Starts(t) : e = s.maxbyte + s.maxblen
    BY <2>3
  <2>5. e \in Nat /\ s.maxblen \in 1 .. 4
    BY <1>3, <1>4, <2>4, StartsType
  <2>6. e <= i
    BY <2>1, <2>2, <2>3, <2>4, <2>5
  <2>7. CharOf(t, s.maxbyte) < CharOf(t, e) /\ CharOf(t, e) <= CharOf(t, i)
    BY <2>1, <2>4, <2>5, <2>6, CharOfGrows
  <2>8. CharOf(t, e) = CharOf(t, i)
    <3>2. e \in Int /\ i \in Int
      BY <2>1, <2>5
    <3>1. CharOf(t, e) \in Int /\ CharOf(t, i) \in Int
      BY <3>2, UntilFinite
    <3> QED BY <1>1, <1>4, <2>7, <3>1 DEF Begins
  <2> QED BY <2>4, <2>8, StartUnique
<1>8. ByteInRun(r, s.maxchar + 1) = ByteInRun(r, s.maxchar) + r.blen
  BY <1>1, <1>3, BytesOfNext
<1>9. i = ByteInRun(r, s.maxchar + 1)
  BY <1>4, <1>6, <1>7, <1>8
<1> QED BY <1>1, <1>2, <1>4, <1>9 DEF r, n

\* The index stays true when the next character is noted.
LEMMA UpdateTrue ==
    ASSUME NEW t \in Seq(Role), NEW s \in Cursor, IndexTrue(t, s), s.broken = "no",
           NEW k \in 1 .. 4, Begins(t, s.location, s.clocation, k), s.clocation <= s.maxchar + 1
    PROVE  /\ Update(s, k) \in Cursor /\ IndexTrue(t, Update(s, k)) /\ Update(s, k).broken = "no"
           /\ Update(s, k).location = s.location /\ Update(s, k).clocation = s.clocation
           /\ Update(s, k).trailer = s.trailer
           /\ s.clocation <= Update(s, k).maxchar /\ s.maxchar <= Update(s, k).maxchar
           /\ s.clocation = s.maxchar + 1 => Update(s, k).maxchar = s.clocation
<1> DEFINE r == Update(s, k)
           n == Len(s.runs)
<1>1. /\ s.maxchar \in Int /\ s.clocation \in Int /\ s.location \in Int /\ s.runs \in Seq(Run)
  BY DEF Cursor
<1>2. n \in Nat
  BY <1>1
<1>3. CASE s.clocation <= s.maxchar
  <2>1. r = s
    BY <1>3 DEF Update
  <2> QED BY <1>1, <1>3, <2>1
<1>4. CASE ~ (s.clocation <= s.maxchar)
  <2>1. s.clocation = s.maxchar + 1
    BY <1>1, <1>4
  <2>2. s.location \in Nat /\ s.clocation \in Nat /\ s.location \in Starts(t)
        /\ CharOf(t, s.location) = s.clocation
    <3>1. s.maxchar >= -1
      BY <1>1 DEF IndexTrue
    <3> QED BY <1>1, <2>1, <3>1, StartsType DEF Begins
  <2> DEFINE new == [char |-> s.clocation, byte |-> s.location, blen |-> k]
             more == IF k = s.maxblen THEN s.runs ELSE Append(s.runs, new)
  <2>3. /\ r = [s EXCEPT !.maxchar = s.clocation, !.maxbyte = s.location, !.maxblen = k,
                         !.runs = more]
    BY <1>4, <2>1 DEF Update, Cursor
  <2>4. new \in Run /\ more \in Seq(Run)
    <3>1. new \in Run
      BY <2>2 DEF Run
    <3> HIDE DEF new
    <3> QED BY <1>1, <3>1
  <2>9. new.char = s.clocation /\ new.byte = s.location /\ new.blen = k
    OBVIOUS
  <2> HIDE DEF r, more, new
  <2>5. /\ r \in Cursor /\ r.maxchar = s.clocation /\ r.maxbyte = s.location /\ r.maxblen = k
        /\ r.runs = more /\ r.location = s.location /\ r.clocation = s.clocation
        /\ r.trailer = s.trailer /\ r.broken = "no"
    <3>1. k \in 0 .. 4
      OBVIOUS
    <3> QED BY <1>1, <2>3, <2>4, <3>1 DEF Cursor
  <2>6. IndexTrue(t, r)
    <3>1. Begins(t, r.maxbyte, r.maxchar, r.maxblen) /\ r.maxchar >= 0
      BY <2>2, <2>5
    <3>2. CASE s.maxchar = -1
      <4>1. s.runs = << >> /\ s.maxblen = 0 /\ s.clocation = 0
        BY <2>1, <3>2 DEF IndexTrue
      <4>2. more = << new >>
        BY <4>1 DEF more
      <4>3. s.location = 0
        <5>1. CharOf(t, 0) = CharOf(t, -1) + (IF 0 \in Starts(t) THEN 1 ELSE 0)
          <6>1. PICK b \in Int : b = -1
            OBVIOUS
          <6>2. CharOf(t, b + 1) = CharOf(t, b) + (IF b + 1 \in Starts(t) THEN 1 ELSE 0)
            BY CharOfNext
          <6>3. b + 1 = 0
            BY <6>1
          <6> QED BY <6>1, <6>2, <6>3
        <5>2. CharOf(t, 0) = 0
          BY <5>1, CharOfNone, StartsType
        <5> QED BY <2>2, <4>1, <5>2, StartUnique, StartsType
      <4>4. RunTrue(t, r, 1)
        <5>1. LastOf(r, 1) = 0 /\ r.runs[1] = new /\ Len(r.runs) = 1
          BY <2>5, <4>1, <4>2 DEF LastOf
        <5>2. ByteInRun(new, 0) = 0
          BY <2>2, <2>9, <4>1, <4>3, BytesOfNext
        <5>3. Begins(t, 0, 0, k)
          BY <4>1, <4>3
        <5>4. \A c \in 0 .. 0 : c = 0
          OBVIOUS
        <5> QED BY <2>9, <4>1, <5>1, <5>2, <5>3, <5>4 DEF RunTrue
      <4>5. r.runs # << >> /\ Len(r.runs) = 1 /\ r.runs[1] = new
        BY <2>5, <4>2
      <4>6. \A j \in 1 .. 1 : j = 1
        OBVIOUS
      <4> QED BY <2>5, <2>9, <3>1, <4>1, <4>3, <4>4, <4>5, <4>6 DEF IndexTrue
    <3>3. CASE s.maxchar # -1
      <4>1. /\ s.maxchar >= 0 /\ s.runs # << >> /\ s.runs[1].char = 0 /\ s.runs[1].byte = 0
            /\ \A j \in 1 .. n : RunTrue(t, s, j)
        BY <3>3 DEF IndexTrue
      <4>2. /\ n \in Nat \ {0} /\ s.runs[n].blen = s.maxblen
            /\ s.location = ByteInRun(s.runs[n], s.maxchar + 1)
        BY <2>1, <2>2, <4>1, RunGoesOn
      <4>3. \A j \in 1 .. n - 1 : j # n /\ j < n /\ j \in 1 .. n /\ j + 1 \in 1 .. n
        BY <1>2
      <4>4. CASE k = s.maxblen
        <5>1. more = s.runs
          BY <4>4 DEF more
        <5>2. \A j \in 1 .. n - 1 : RunTrue(t, r, j)
          <6> TAKE j \in 1 .. n - 1
          <6>1. RunTrue(t, s, j) /\ LastOf(r, j) = LastOf(s, j)
            BY <2>5, <4>1, <4>3, <5>1 DEF LastOf
          <6> QED BY <2>5, <4>3, <5>1, <6>1 DEF RunTrue
        <5>3. RunTrue(t, r, n)
          <6>1. LastOf(s, n) = s.maxchar /\ LastOf(r, n) = s.maxchar + 1
            BY <2>1, <2>5, <5>1 DEF LastOf
          <6>2. s.runs[n].char \in Nat /\ s.runs[n].char <= s.maxchar
            <7>1. RunTrue(t, s, n)
              BY <1>2, <4>1, <4>2
            <7> QED BY <1>2, <4>2, <6>1, <7>1, RunType DEF RunTrue
          <6>3. ASSUME NEW c \in s.runs[n].char .. s.maxchar + 1
                PROVE  Begins(t, ByteInRun(s.runs[n], c), c, s.runs[n].blen)
            <7>1. CASE c = s.maxchar + 1
              BY <2>1, <4>2, <4>4, <7>1
            <7>2. CASE c # s.maxchar + 1
              <8>1. c \in s.runs[n].char .. LastOf(s, n)
                BY <1>1, <6>1, <6>2, <7>2
              <8>2. RunTrue(t, s, n)
                BY <1>2, <4>1, <4>2
              <8> QED BY <8>1, <8>2 DEF RunTrue
            <7> QED BY <7>1, <7>2
          <6>4. ~ (n < Len(r.runs)) /\ r.runs = s.runs
            BY <1>2, <2>5, <5>1
          <6>5. s.runs[n].char <= s.maxchar + 1
            BY <1>1, <6>2
          <6> QED BY <6>1, <6>3, <6>4, <6>5 DEF RunTrue
        <5>4. \A j \in 1 .. n : RunTrue(t, r, j)
          BY <1>2, <5>2, <5>3
        <5> QED BY <2>5, <3>1, <4>1, <4>2, <4>4, <5>1, <5>4 DEF IndexTrue
      <4>5. CASE k # s.maxblen
        <5>1. /\ Len(r.runs) = n + 1 /\ r.runs[n + 1] = new
              /\ \A j \in 1 .. n : r.runs[j] = s.runs[j]
          BY <1>1, <2>4, <2>5, <4>5 DEF more
        <5>2. \A j \in 1 .. n - 1 : RunTrue(t, r, j)
          <6> TAKE j \in 1 .. n - 1
          <6>1. /\ r.runs[j] = s.runs[j] /\ r.runs[j + 1] = s.runs[j + 1]
                /\ j < Len(r.runs) /\ j # Len(r.runs)
            <7>1. j \in 1 .. n /\ j + 1 \in 1 .. n
              BY <4>3
            <7>2. j < n + 1 /\ j # n + 1
              BY <1>2
            <7> QED BY <5>1, <7>1, <7>2
          <6>2. RunTrue(t, s, j) /\ LastOf(r, j) = LastOf(s, j)
            BY <4>1, <4>3, <6>1 DEF LastOf
          <6> QED BY <4>3, <6>1, <6>2 DEF RunTrue
        <5>3. RunTrue(t, r, n)
          <6>1. r.runs[n] = s.runs[n] /\ n # n + 1 /\ n < n + 1
            BY <1>2, <4>2, <5>1
          <6>2. LastOf(s, n) = s.maxchar /\ LastOf(r, n) = s.maxchar
            <7>1. s.clocation - 1 = s.maxchar
              BY <1>1, <2>1
            <7>2. n # Len(r.runs)
              BY <1>2, <5>1
            <7> QED BY <2>9, <5>1, <7>1, <7>2 DEF LastOf
          <6>3. RunTrue(t, s, n)
            BY <1>2, <4>1, <4>2
          <6>4. r.runs[n + 1].byte = ByteInRun(r.runs[n], r.runs[n + 1].char)
            BY <2>1, <2>9, <4>2, <5>1, <6>1
          <6> QED BY <6>1, <6>2, <6>3, <6>4 DEF RunTrue
        <5>4. RunTrue(t, r, n + 1)
          <6>1. LastOf(r, n + 1) = s.clocation
            BY <2>5, <5>1 DEF LastOf
          <6>2. ByteInRun(new, s.clocation) = s.location
            BY <2>2, <2>9, BytesOfNext
          <6>3. \A c \in s.clocation .. s.clocation : c = s.clocation
            BY <1>1
          <6>4. ~ (n + 1 < Len(r.runs)) /\ s.clocation <= s.clocation
            BY <1>1, <1>2, <5>1
          <6> QED BY <2>9, <5>1, <6>1, <6>2, <6>3, <6>4 DEF RunTrue
        <5>5. \A j \in 1 .. n + 1 : RunTrue(t, r, j)
          BY <1>2, <5>2, <5>3, <5>4
        <5>6. r.runs[1] = s.runs[1] /\ r.runs # << >>
          <6>1. 1 \in 1 .. n
            BY <4>2
          <6>2. r.runs \in Seq(Run)
            BY <2>4, <2>5
          <6> QED BY <1>2, <5>1, <6>1, <6>2
        <5> QED BY <2>5, <2>9, <3>1, <4>1, <5>1, <5>5, <5>6 DEF IndexTrue
      <4> QED BY <4>4, <4>5
    <3> QED BY <3>2, <3>3
  <2> QED BY <1>1, <2>1, <2>5, <2>6 DEF r
<1> QED BY <1>3, <1>4

\* A step, also onto the \0 behind the text, keeps cursors and index together.
LEMMA StepPlaced ==
    ASSUME NEW t \in Seq(Role), NEW s, Placed(t, s), TrailersKnown(t, s), s.location < Len(t)
    PROVE  /\ Placed(t, Step(t, s)) /\ TrailersKnown(t, Step(t, s))
           /\ Step(t, s).location = s.location + 1
           /\ s.maxchar <= Step(t, s).maxchar
           /\ s.clocation = s.maxchar => Step(t, s).clocation = Step(t, s).maxchar
<1> DEFINE i == s.location + 1
           r == Step(t, s)
<1>1. /\ s \in Cursor /\ s.broken = "no" /\ s.location \in -1 .. Len(t) /\ Len(t) \in Nat
      /\ s.clocation = CharOf(t, s.location) /\ s.clocation <= s.maxchar /\ IndexTrue(t, s)
  BY DEF Placed
<1>2. s.location \in Int /\ s.clocation \in Int /\ s.trailer \in Nat /\ s.maxchar \in Int
  BY <1>1 DEF Cursor
<1>3. i \in 0 .. Len(t) /\ i \in Nat /\ i \in Int
  BY <1>1, <1>2
<1>4. CharOf(t, i) = s.clocation + (IF i \in Starts(t) THEN 1 ELSE 0)
  BY <1>1, <1>2, CharOfNext
<1>5. CASE Byte(t, i) = 0 /\ s.trailer > 0
  <2>1. r = [s EXCEPT !.location = i, !.trailer = @ - 1]
    BY <1>5 DEF Step
  <2>2. /\ i + s.trailer \in Starts(t)
        /\ \A k \in i .. s.location + s.trailer : k \notin Starts(t)
    BY <1>5 DEF TrailersKnown
  <2>3. i \notin Starts(t)
    BY <1>2, <1>3, <1>5, <2>2
  <2> HIDE DEF r
  <2>4. /\ r \in Cursor /\ r.location = i /\ r.trailer = s.trailer - 1 /\ r.clocation = s.clocation
        /\ r.maxchar = s.maxchar /\ r.maxbyte = s.maxbyte /\ r.maxblen = s.maxblen
        /\ r.runs = s.runs /\ r.broken = "no"
    <3>1. s.trailer - 1 \in Nat /\ i \in Int
      BY <1>2, <1>3, <1>5
    <3> HIDE DEF i
    <3> QED BY <1>1, <2>1, <3>1 DEF Cursor
  <2>5. IndexTrue(t, r)
    BY <1>1, <2>4 DEF IndexTrue, RunTrue, LastOf
  <2>6. r.clocation = CharOf(t, r.location)
    BY <1>2, <1>4, <2>3, <2>4
  <2>7. TrailersKnown(t, r)
    <3>3. r.location = i /\ r.trailer = s.trailer - 1
      BY <2>4
    <3>1. r.location + 1 + r.trailer = i + s.trailer
      <4>1. i + 1 + (s.trailer - 1) = i + s.trailer
        BY <1>2, <1>3
      <4> HIDE DEF i
      <4> QED BY <3>3, <4>1
    <3>2. \A k \in r.location + 1 .. r.location + r.trailer : k \in i .. s.location + s.trailer
      BY <1>2, <1>3, <2>4
    <3> QED BY <2>2, <3>1, <3>2 DEF TrailersKnown
  <2>8. Placed(t, r)
    BY <1>1, <1>3, <2>4, <2>5, <2>6 DEF Placed
  <2> QED BY <1>2, <2>4, <2>7, <2>8 DEF r
<1>6. CASE ~ (Byte(t, i) = 0 /\ s.trailer > 0)
  <2> DEFINE k == Jump(t, i)
             q == [s EXCEPT !.location = i, !.trailer = k - 1, !.clocation = @ + 1]
  <2>1. i \in Starts(t)
    <3>1. CASE Byte(t, i) # 0
      BY <1>3, <3>1, LeadStarts
    <3>2. CASE Byte(t, i) = 0
      <4>1. s.trailer = 0
        BY <1>2, <1>6, <3>2
      <4>2. i + s.trailer \in Starts(t)
        BY <3>2 DEF TrailersKnown
      <4> QED BY <1>3, <4>1, <4>2
    <3> QED BY <3>1, <3>2
  <2>2. k \in 1 .. 4
    BY <1>3, JumpType
  <2>3. r = Update(q, k)
    BY <1>1, <1>6 DEF Step, Move, Cursor, Jump
  <2> HIDE DEF k, r
  <2>4. q \in Cursor /\ q.location = i /\ q.trailer = k - 1 /\ q.clocation = s.clocation + 1
        /\ q.maxchar = s.maxchar /\ q.maxbyte = s.maxbyte /\ q.maxblen = s.maxblen
        /\ q.runs = s.runs /\ q.broken = "no"
    <3>1. k - 1 \in Nat /\ i \in Int /\ s.clocation + 1 \in Int
      BY <1>2, <1>3, <2>2
    <3> HIDE DEF i
    <3> QED BY <1>1, <3>1 DEF Cursor
  <2> HIDE DEF q
  <2>5. IndexTrue(t, q)
    BY <1>1, <2>4 DEF IndexTrue, RunTrue, LastOf
  <2>6. Begins(t, q.location, q.clocation, k) /\ q.clocation <= q.maxchar + 1
    BY <1>1, <1>2, <1>4, <2>1, <2>4 DEF Begins, k
  <2>7. /\ r \in Cursor /\ IndexTrue(t, r) /\ r.broken = "no"
        /\ r.location = i /\ r.clocation = q.clocation /\ r.trailer = k - 1
        /\ q.clocation <= r.maxchar /\ q.maxchar <= r.maxchar
        /\ q.clocation = q.maxchar + 1 => r.maxchar = q.clocation
    BY <2>2, <2>3, <2>4, <2>5, <2>6, UpdateTrue
  <2>8. Placed(t, r)
    BY <1>3, <2>4, <2>6, <2>7 DEF Placed, Begins
  <2>9. TrailersKnown(t, r)
    <3>1. CASE i < Len(t)
      <4>1. i + k \in Starts(t) /\ \A j \in i + 1 .. i + k - 1 : j \notin Starts(t)
        BY <2>1, <3>1, NextStart DEF k
      <4>2. r.location + 1 + r.trailer = i + k /\ r.location + r.trailer = i + k - 1
        BY <1>3, <2>2, <2>7
      <4> QED BY <2>7, <4>1, <4>2 DEF TrailersKnown
    <3>2. CASE ~ (i < Len(t))
      <4>1. Byte(t, i + 1) = 1
        BY <1>1, <1>3, <3>2 DEF Byte
      <4> QED BY <2>7, <4>1 DEF TrailersKnown
    <3> QED BY <3>1, <3>2
  <2> QED BY <1>2, <2>4, <2>7, <2>8, <2>9 DEF r
<1> QED BY <1>5, <1>6

-----------------------------------------------------------------------------
(* The scans                                                               *)

From(s) == [s EXCEPT !.location = s.maxbyte, !.clocation = s.maxchar]

\* State k of a scan, given the states before.
Onward(t, s, key, x, f, k) ==
    IF k = 0 THEN From(s)
    ELSE LET r == f[k - 1] IN IF r[key] < x THEN Step(t, r) ELSE r

IsScan(t, s, key, x, n, f) == f = [k \in 0 .. n |-> Onward(t, s, key, x, f, k)]

LEMMA ScannedExists ==
    ASSUME NEW t, NEW s, NEW key, NEW x, NEW n \in Nat
    PROVE  \E f : IsScan(t, s, key, x, n, f)
<1> DEFINE Fits(m, f) == f = [k \in 0 .. m |-> Onward(t, s, key, x, f, k)]
           S == { m \in Nat : \E f : Fits(m, f) }
<1>1. 0 \in S
  <2> DEFINE g == [k \in 0 .. 0 |-> From(s)]
  <2>1. \A k \in 0 .. 0 : Onward(t, s, key, x, g, k) = From(s)
    BY DEF Onward
  <2>2. Fits(0, g)
    BY <2>1
  <2> HIDE DEF g, Fits
  <2> QED BY <2>2
<1>2. ASSUME NEW m \in Nat, m \in S PROVE m + 1 \in S
  <2>1. PICK f : Fits(m, f)
    BY <1>2
  <2> DEFINE g == [k \in 0 .. m + 1 |-> Onward(t, s, key, x, f, k)]
  <2>2. \A k \in 0 .. m : g[k] = f[k]
    BY <2>1
  <2>3. \A k \in 0 .. m + 1 : k = 0 \/ k - 1 \in 0 .. m
    OBVIOUS
  <2>4. ASSUME NEW k \in 0 .. m + 1 PROVE Onward(t, s, key, x, g, k) = Onward(t, s, key, x, f, k)
    <3> HIDE DEF g
    <3>1. CASE k = 0
      BY <3>1 DEF Onward
    <3>2. CASE k # 0
      <4>1. g[k - 1] = f[k - 1]
        BY <2>2, <2>3, <3>2
      <4> QED BY <3>2, <4>1 DEF Onward
    <3> QED BY <3>1, <3>2
  <2>5. Fits(m + 1, g)
    BY <2>4
  <2> HIDE DEF g, Fits
  <2> QED BY <2>5
<1> HIDE DEF S
<1>3. n \in S
  BY <1>1, <1>2, SetInduction
<1> QED BY <1>3 DEF S, IsScan

LEMMA ScannedSteps ==
    ASSUME NEW t, Len(t) \in Nat, NEW s, NEW key, NEW x
    PROVE  LET at == Scanned(t, s, key, x)
           IN /\ at[0] = From(s)
              /\ \A k \in 0 .. Len(t) + 1 :
                     at[k + 1] = IF at[k][key] < x THEN Step(t, at[k]) ELSE at[k]
<1> DEFINE n == Len(t) + 2
           at == Scanned(t, s, key, x)
<1>1. at = CHOOSE f : IsScan(t, s, key, x, n, f)
  BY DEF Scanned, Onward, From, IsScan
<1>2. n \in Nat
  OBVIOUS
<1> HIDE DEF n, at
<1>3. \E f : IsScan(t, s, key, x, n, f)
  BY <1>2, ScannedExists
<1>4. IsScan(t, s, key, x, n, at)
  BY <1>1, <1>3
<1>5. \A k \in 0 .. n : at[k] = Onward(t, s, key, x, at, k)
  BY <1>4 DEF IsScan
<1>6. at[0] = From(s)
  <2>1. 0 \in 0 .. n
    BY <1>2
  <2>2. at[0] = Onward(t, s, key, x, at, 0)
    BY <1>5, <2>1
  <2> HIDE DEF Onward
  <2>3. Onward(t, s, key, x, at, 0) = From(s)
    BY DEF Onward
  <2> QED BY <2>2, <2>3
<1>7. ASSUME NEW k \in 0 .. Len(t) + 1
      PROVE  at[k + 1] = IF at[k][key] < x THEN Step(t, at[k]) ELSE at[k]
  <2>1. k + 1 \in 0 .. n /\ k + 1 # 0 /\ (k + 1) - 1 = k
    BY DEF n
  <2> QED BY <1>5, <2>1 DEF Onward
<1> QED BY <1>6, <1>7 DEF at

\* A place that a scan can get to.
Within(t, key, x) == IF key = "location" THEN x <= Len(t) ELSE x <= CharOf(t, Len(t) - 1)

\* A scan from the end of the visited part, when it is the end of a character,
\* comes to the place x and makes it the largest visited.
LEMMA ScanReaches ==
    ASSUME NEW t \in Seq(Role), NEW s \in Cursor, s.broken = "no", IndexTrue(t, s),
           Byte(t, s.maxbyte + 1) # 0,
           NEW key \in {"location", "clocation"}, NEW x \in Int, Within(t, key, x),
           From(s)[key] <= x
    PROVE  LET e == Scanned(t, s, key, x)[Len(t) + 2]
           IN /\ Placed(t, e) /\ TrailersKnown(t, e)
              /\ e[key] = x /\ e.clocation = e.maxchar /\ s.maxchar <= e.maxchar
<1> DEFINE at == Scanned(t, s, key, x)
           n == Len(t)
           Fine(k) == /\ Placed(t, at[k]) /\ TrailersKnown(t, at[k])
                      /\ at[k].clocation = at[k].maxchar /\ s.maxchar <= at[k].maxchar
                      /\ at[k][key] <= x
                      /\ at[k].location = s.maxbyte + k \/ at[k][key] = x
           S == { k \in Nat : Fine(k) }
<1>1. s \in Cursor /\ s.broken = "no" /\ n \in Nat /\ IndexTrue(t, s)
  OBVIOUS
<1>2. /\ at[0] = From(s)
      /\ \A k \in 0 .. n + 1 : at[k + 1] = IF at[k][key] < x THEN Step(t, at[k]) ELSE at[k]
  BY <1>1, ScannedSteps
<1>3. s.maxbyte \in Int /\ s.maxchar \in Int
  BY <1>1 DEF Cursor
<1>4. s.maxbyte \in -1 .. n /\ CharOf(t, s.maxbyte) = s.maxchar
  BY <1>1, <1>3, CharOfNone, StartsType DEF IndexTrue, Begins
<1> HIDE DEF at
<1>5. 0 \in S
  <2> DEFINE f == From(s)
  <2>1. /\ f \in Cursor /\ f.broken = "no" /\ f.location = s.maxbyte /\ f.clocation = s.maxchar
        /\ f.maxchar = s.maxchar /\ f.maxbyte = s.maxbyte /\ f.maxblen = s.maxblen
        /\ f.runs = s.runs
    BY <1>1, <1>3 DEF From, Cursor
  <2> HIDE DEF f
  <2>2. IndexTrue(t, f)
    BY <1>1, <2>1 DEF IndexTrue, RunTrue, LastOf
  <2>3. Placed(t, f)
    BY <1>3, <1>4, <2>1, <2>2 DEF Placed
  <2>4. TrailersKnown(t, f)
    BY <2>1 DEF TrailersKnown
  <2>5. f = From(s)
    BY DEF f
  <2> QED BY <1>2, <1>3, <2>1, <2>3, <2>4, <2>5
<1>6. ASSUME NEW k \in 0 .. n + 1, k \in S PROVE k + 1 \in S
  <2> DEFINE r == at[k]
  <2>1. Fine(k) /\ at[k + 1] = IF r[key] < x THEN Step(t, r) ELSE r
    BY <1>2, <1>6
  <2>2. /\ Placed(t, r) /\ TrailersKnown(t, r)
        /\ r.clocation = r.maxchar /\ s.maxchar <= r.maxchar
        /\ r[key] <= x /\ (r.location = s.maxbyte + k \/ r[key] = x)
    BY <2>1
  <2> HIDE DEF r
  <2>3. /\ r.location \in Int /\ r.location <= n /\ r.clocation \in Int /\ r.maxchar \in Int
        /\ r.clocation = CharOf(t, r.location)
    <3>1. r \in Cursor /\ r.location \in -1 .. n /\ r.clocation = CharOf(t, r.location)
      BY <2>2 DEF Placed
    <3>2. r.clocation \in Int /\ r.maxchar \in Int
      BY <3>1 DEF Cursor
    <3> QED BY <1>1, <3>1, <3>2
  <2>4. CASE ~ (r[key] < x)
    <3>1. at[k + 1] = r /\ r[key] = x
      BY <2>1, <2>2, <2>3, <2>4
    <3> QED BY <2>2, <3>1
  <2>5. CASE r[key] < x
    <3>1. r.location < n
      <4>1. CASE key = "location"
        BY <1>1, <2>3, <2>5, <4>1 DEF Within
      <4>2. CASE key = "clocation"
        <5> SUFFICES ASSUME r.location >= n PROVE FALSE
          BY <1>1, <2>3
        <5>1. CharOf(t, n - 1) <= CharOf(t, r.location)
          BY <1>1, <2>3, CharOfGrows
        <5>2. x <= CharOf(t, n - 1) /\ r.clocation < x
          BY <2>5, <4>2 DEF Within
        <5>3. CharOf(t, n - 1) \in Int
          BY <1>1, UntilFinite
        <5> QED BY <2>3, <5>1, <5>2, <5>3
      <4> QED BY <4>1, <4>2
    <3> DEFINE q == Step(t, r)
    <3>2. /\ Placed(t, q) /\ TrailersKnown(t, q) /\ q.location = r.location + 1
          /\ r.maxchar <= q.maxchar /\ q.clocation = q.maxchar
      BY <2>2, <3>1, StepPlaced
    <3>3. at[k + 1] = q
      BY <2>1, <2>5
    <3> HIDE DEF q
    <3>4. q.maxchar \in Int /\ q.clocation = CharOf(t, q.location)
      BY <3>2 DEF Placed, Cursor
    <3>5. q[key] <= x
      <4>1. CASE key = "location"
        BY <2>3, <2>5, <3>2, <4>1
      <4>2. CASE key = "clocation"
        <5>1. q.clocation <= r.clocation + 1
          <6>1. CharOf(t, r.location + 1) = CharOf(t, r.location)
                                    + (IF r.location + 1 \in Starts(t) THEN 1 ELSE 0)
            BY <2>3, CharOfNext
          <6>2. q.clocation = CharOf(t, r.location + 1) /\ r.clocation = CharOf(t, r.location)
            BY <2>3, <3>2, <3>4
          <6> QED BY <2>3, <6>1, <6>2
        <5> QED BY <2>3, <2>5, <3>2, <3>4, <4>2, <5>1
      <4> QED BY <4>1, <4>2
    <3>6. q.location = s.maxbyte + (k + 1)
      BY <1>3, <2>2, <2>3, <2>5, <3>2
    <3>7. s.maxchar <= q.maxchar
      BY <1>3, <2>2, <2>3, <3>2, <3>4
    <3> QED BY <3>2, <3>3, <3>5, <3>6, <3>7
  <2> QED BY <2>4, <2>5
<1> HIDE DEF S
<1>7. n + 2 \in S
  <2>1. n + 2 \in Nat /\ (n + 2) - 1 = n + 1
    BY <1>1
  <2>2. \A k \in 0 .. n + 2 : k \in S
    BY <1>5, <1>6, <2>1, BoundedInduction
  <2> QED BY <2>1, <2>2
<1>8. Fine(n + 2)
  BY <1>7 DEF S
<1>9. at[n + 2][key] = x
  <2>1. at[n + 2].location <= n
    BY <1>8 DEF Placed
  <2>2. at[n + 2].location # s.maxbyte + (n + 2)
    BY <1>1, <1>4, <2>1
  <2> QED BY <1>8, <2>2
<1> QED BY <1>8, <1>9 DEF at

-----------------------------------------------------------------------------
(* Looking for places, and moving                                          *)

\* A cursor where something was visited.
LEMMA Visited ==
    ASSUME NEW t \in Seq(Role), NEW s \in Cursor, IndexTrue(t, s),
           NEW b \in Int, b >= 0, CharOf(t, b) <= s.maxchar
    PROVE  /\ s.maxchar >= 0 /\ Begins(t, s.maxbyte, s.maxchar, s.maxblen)
           /\ b \in Starts(t) => b <= s.maxbyte
<1>1. s.maxchar \in Int
  BY DEF Cursor
<1>2. s.maxchar >= 0
  <2>1. PICK z \in Starts(t) : z = 0
    BY StartsType
  <2>2. PICK a \in Int : a = -1
    OBVIOUS
  <2>3. z \in Int /\ z <= b /\ a < z /\ a <= z
    BY <2>1, <2>2
  <2>4. CharOf(t, a) < CharOf(t, z) /\ CharOf(t, z) <= CharOf(t, b)
    BY <2>2, <2>3, CharOfGrows
  <2>5. CharOf(t, z) \in Int /\ CharOf(t, b) \in Int
    BY <2>3, UntilFinite
  <2>6. CharOf(t, a) = -1
    BY <2>2, CharOfNone
  <2> QED BY <1>1, <2>4, <2>5, <2>6
<1>3. Begins(t, s.maxbyte, s.maxchar, s.maxblen)
  BY <1>2 DEF IndexTrue
<1>4. ASSUME b \in Starts(t) PROVE b <= s.maxbyte
  <2>1. s.maxbyte \in Int /\ CharOf(t, s.maxbyte) = s.maxchar
    BY <1>3, StartsType DEF Begins
  <2> SUFFICES ASSUME s.maxbyte < b PROVE FALSE
    BY <2>1
  <2>2. CharOf(t, s.maxbyte) < CharOf(t, b)
    BY <1>4, <2>1, CharOfGrows
  <2>3. CharOf(t, b) \in Int
    BY UntilFinite
  <2> QED BY <1>1, <2>1, <2>2, <2>3
<1> QED BY <1>2, <1>3, <1>4

\* What `last` looks for.
LEMMA CharSought ==
    ASSUME NEW t \in Seq(Role), NEW s, Placed(t, s), Byte(t, s.maxbyte + 1) # 0,
           NEW b \in 1 .. Len(t), Byte(t, b) # 0
    PROVE  LET f == FindChar(t, s, b)
           IN /\ f.at = CharOf(t, b) /\ Placed(t, f.cur)
              /\ f.cur.location = s.location /\ s.maxchar <= f.cur.maxchar
<1>1. /\ s \in Cursor /\ s.broken = "no" /\ s.location \in -1 .. Len(t) /\ Len(t) \in Nat
      /\ s.clocation = CharOf(t, s.location) /\ s.clocation <= s.maxchar /\ IndexTrue(t, s)
  BY DEF Placed
<1>2. s.maxbyte \in Int /\ s.maxchar \in Int /\ b \in Nat /\ s.clocation \in Int
  <2>1. s.maxbyte \in Int /\ s.maxchar \in Int /\ s.clocation \in Int
    BY <1>1 DEF Cursor
  <2> QED BY <1>1, <2>1
<1>3. CASE b <= s.maxbyte
  <2>1. s.maxchar >= 0
    BY <1>1, <1>2, <1>3 DEF IndexTrue
  <2>2. b \in 0 .. s.maxbyte
    BY <1>2, <1>3
  <2>3. FindChar(t, s, b) = Found(s, CharOf(t, b))
    BY <1>1, <1>3, <2>1, <2>2, CharFound DEF FindChar
  <2> QED BY <1>2, <2>3 DEF Found
<1>4. CASE ~ (b <= s.maxbyte)
  <2> DEFINE e == Scanned(t, s, "location", b)[Len(t) + 2]
             r == Scan(t, s, "location", b)
  <2>1. Within(t, "location", b) /\ From(s)["location"] <= b
    <3>1. From(s).location = s.maxbyte
      BY <1>1 DEF From, Cursor
    <3> QED BY <1>2, <1>4, <3>1 DEF Within
  <2>2. Placed(t, e) /\ e.location = b /\ e.clocation = e.maxchar /\ s.maxchar <= e.maxchar
    BY <1>1, <1>2, <2>1, ScanReaches
  <2>3. r = [e EXCEPT !.location = s.location, !.clocation = s.clocation]
    BY DEF Scan
  <2> HIDE DEF e, r
  <2>4. e \in Cursor /\ e.broken = "no" /\ IndexTrue(t, e) /\ e.maxchar = CharOf(t, b)
    BY <2>2 DEF Placed
  <2>5. e.maxchar \in Int /\ e.maxbyte \in Int
    BY <2>4 DEF Cursor
  <2>6. e.maxbyte = b
    <3>1. Begins(t, e.maxbyte, e.maxchar, e.maxblen)
      BY <1>2, <2>4, <2>5, Visited
    <3>2. b \in Starts(t)
      BY <1>1, <1>2, LeadStarts
    <3> QED BY <2>4, <3>1, <3>2, StartUnique DEF Begins
  <2>7. /\ r \in Cursor /\ r.broken = "no" /\ r.location = s.location /\ r.clocation = s.clocation
        /\ r.maxchar = e.maxchar /\ r.maxbyte = e.maxbyte /\ r.maxblen = e.maxblen
        /\ r.runs = e.runs
    BY <1>1, <1>2, <2>3, <2>4 DEF Cursor
  <2>8. IndexTrue(t, r)
    BY <2>4, <2>7 DEF IndexTrue, RunTrue, LastOf
  <2>9. Placed(t, r)
    BY <1>1, <1>2, <2>2, <2>5, <2>7, <2>8 DEF Placed
  <2>10. FindChar(t, s, b) = Found(r, CharOf(t, b))
    <3>1. b <= r.maxbyte /\ b = r.maxbyte
      BY <1>2, <2>6, <2>7
    <3> QED BY <1>4, <2>4, <2>7, <3>1 DEF FindChar, CharOfVisited, r
  <2> QED BY <2>2, <2>7, <2>9, <2>10 DEF Found
<1> QED BY <1>3, <1>4

\* A move by characters goes to the first byte of one, and makes it known.
LEMMA MoveToPlaced ==
    ASSUME NEW t \in Seq(Role), NEW s, Placed(t, s), NEW c \in Nat, c <= CharOf(t, Len(t) - 1),
           c > s.maxchar => Byte(t, s.maxbyte + 1) # 0
    PROVE  LET r == MoveTo(t, s, c)
           IN /\ Placed(t, r) /\ r.clocation = c /\ s.maxchar <= r.maxchar
              /\ r.location \in Starts(t) /\ r.location = StartOf(t, c)
<1> DEFINE s1 == [s EXCEPT !.clocation = c]
           r == MoveTo(t, s, c)
<1>1. /\ s \in Cursor /\ s.broken = "no" /\ s.location \in -1 .. Len(t) /\ Len(t) \in Nat
      /\ IndexTrue(t, s)
  BY DEF Placed
<1>2. s.maxbyte \in Int /\ s.maxchar \in Int /\ s.location \in Int
  BY <1>1 DEF Cursor
<1>3. /\ s1 \in Cursor /\ s1.broken = "no" /\ s1.clocation = c /\ s1.location = s.location
      /\ s1.maxchar = s.maxchar /\ s1.maxbyte = s.maxbyte /\ s1.maxblen = s.maxblen
      /\ s1.runs = s.runs
  <2>1. c \in Int
    OBVIOUS
  <2> QED BY <1>1, <2>1 DEF Cursor
<1> HIDE DEF s1
<1>4. IndexTrue(t, s1)
  BY <1>1, <1>3 DEF IndexTrue, RunTrue, LastOf
<1>5. r = [FindByte(t, s1, c).cur EXCEPT !.location = FindByte(t, s1, c).at]
  BY DEF MoveTo, s1
<1>6. ASSUME NEW e \in Cursor, e.broken = "no", IndexTrue(t, e), s.maxchar <= e.maxchar,
             e.clocation = c, c <= e.maxchar, NEW i \in Starts(t), CharOf(t, i) = c,
             r = [e EXCEPT !.location = i]
      PROVE  /\ Placed(t, r) /\ r.clocation = c /\ s.maxchar <= r.maxchar
             /\ r.location \in Starts(t) /\ r.location = StartOf(t, c)
  <2> HIDE DEF r
  <2>1. i \in 0 .. Len(t) /\ i \in Int
    BY <1>1, StartsType
  <2>2. /\ r \in Cursor /\ r.broken = "no" /\ r.clocation = c /\ r.location = i
        /\ r.maxchar = e.maxchar /\ r.maxbyte = e.maxbyte /\ r.maxblen = e.maxblen
        /\ r.runs = e.runs
    BY <1>6, <2>1 DEF Cursor
  <2>3. IndexTrue(t, r)
    BY <1>6, <2>2 DEF IndexTrue, RunTrue, LastOf
  <2>4. StartOf(t, c) = i
    BY <1>6, StartOfUnique
  <2>5. i \in -1 .. Len(t)
    BY <1>1, <2>1
  <2> QED BY <1>6, <2>2, <2>3, <2>4, <2>5 DEF Placed
<1> HIDE DEF r
<1>7. CASE c <= s.maxchar
  <2>1. c \in 0 .. s1.maxchar
    BY <1>2, <1>3, <1>7
  <2>2. /\ FindByte(t, s1, c) = Found(s1, StartOf(t, c))
        /\ StartOf(t, c) \in Starts(t) /\ CharOf(t, StartOf(t, c)) = c
    BY <1>3, <1>4, <2>1, ByteFound
  <2>3. r = [s1 EXCEPT !.location = StartOf(t, c)]
    BY <1>5, <2>2 DEF Found
  <2>4. s.maxchar <= s1.maxchar /\ c <= s1.maxchar
    BY <1>2, <1>3, <1>7
  <2> QED BY <1>3, <1>4, <1>6, <2>2, <2>3, <2>4 DEF r
<1>8. CASE ~ (c <= s.maxchar)
  <2> DEFINE d == Scanned(t, s1, "clocation", c)[Len(t) + 2]
             e == Scan(t, s1, "clocation", c)
  <2>1. Within(t, "clocation", c) /\ From(s1)["clocation"] <= c
    <3>1. From(s1).clocation = s.maxchar
      BY <1>3 DEF From, Cursor
    <3> QED BY <1>2, <1>8, <3>1 DEF Within
  <2>2. c \in Int /\ Byte(t, s1.maxbyte + 1) # 0
    BY <1>2, <1>3, <1>8
  <2>3. Placed(t, d) /\ d.clocation = c /\ d.clocation = d.maxchar /\ s1.maxchar <= d.maxchar
    BY <1>3, <1>4, <2>1, <2>2, ScanReaches
  <2>4. e = [d EXCEPT !.location = s1.location, !.clocation = s1.clocation]
    BY DEF Scan
  <2>5. FindByte(t, s1, c) = Found(e, e.maxbyte)
    BY <1>2, <1>3, <1>8 DEF FindByte
  <2> HIDE DEF d, e
  <2>6. d \in Cursor /\ d.broken = "no" /\ IndexTrue(t, d) /\ d.maxchar = c
    BY <2>3 DEF Placed
  <2>7. /\ e \in Cursor /\ e.broken = "no" /\ e.clocation = c
        /\ e.maxchar = d.maxchar /\ e.maxbyte = d.maxbyte /\ e.maxblen = d.maxblen
        /\ e.runs = d.runs
    BY <1>2, <1>3, <2>4, <2>6 DEF Cursor
  <2>8. IndexTrue(t, e)
    BY <2>6, <2>7 DEF IndexTrue, RunTrue, LastOf
  <2>9. e.maxbyte \in Starts(t) /\ CharOf(t, e.maxbyte) = c
    BY <2>6, <2>7 DEF IndexTrue, Begins
  <2>10. r = [e EXCEPT !.location = e.maxbyte]
    BY <1>5, <2>5 DEF Found
  <2>11. s.maxchar <= e.maxchar /\ c <= e.maxchar
    BY <1>2, <1>8, <2>6, <2>7
  <2> QED BY <1>6, <2>7, <2>8, <2>9, <2>10, <2>11 DEF r
<1> QED BY <1>2, <1>7, <1>8 DEF r

\* Bytes given back, up to the end of a character.
LEMMA MoveBytePlaced ==
    ASSUME NEW t \in Seq(Role), NEW s, Placed(t, s), NEW d \in Int, d < 0,
           s.location + d >= 0, Byte(t, s.location + d + 1) # 0
    PROVE  LET r == MoveByte(t, s, d)
           IN /\ Placed(t, r) /\ TrailersKnown(t, r)
              /\ r.location = s.location + d /\ r.maxchar = s.maxchar
<1> DEFINE b == s.location + d
           q == [s EXCEPT !.location = b]
           r == MoveByte(t, s, d)
<1>1. /\ s \in Cursor /\ s.broken = "no" /\ s.location \in -1 .. Len(t) /\ Len(t) \in Nat
      /\ s.clocation = CharOf(t, s.location) /\ s.clocation <= s.maxchar /\ IndexTrue(t, s)
  BY DEF Placed
<1>2. /\ s.maxbyte \in Int /\ s.maxchar \in Int /\ s.location \in Int /\ s.clocation \in Int
      /\ b \in Nat /\ b + 1 <= s.location /\ b + 1 \in 0 .. Len(t) /\ b + 1 \in Int /\ b + 1 >= 0
  <2>1. s.maxbyte \in Int /\ s.maxchar \in Int /\ s.location \in Int /\ s.clocation \in Int
    BY <1>1 DEF Cursor
  <2> QED BY <1>1, <2>1
<1>3. Byte(t, b + 1) # 0
  OBVIOUS
<1>4. b + 1 \in Starts(t)
  BY <1>2, <1>3, LeadStarts
<1>5. CharOf(t, b + 1) <= s.maxchar
  <2>1. CharOf(t, b + 1) <= CharOf(t, s.location) /\ CharOf(t, b + 1) \in Int
    BY <1>2, CharOfGrows, UntilFinite
  <2> QED BY <1>1, <1>2, <2>1
<1>6. /\ s.maxchar >= 0 /\ Begins(t, s.maxbyte, s.maxchar, s.maxblen) /\ b + 1 <= s.maxbyte
  BY <1>1, <1>2, <1>4, <1>5, Visited
<1>7. /\ q \in Cursor /\ q.broken = "no" /\ q.location = b /\ q.clocation = s.clocation
      /\ q.maxchar = s.maxchar /\ q.maxbyte = s.maxbyte /\ q.maxblen = s.maxblen
      /\ q.runs = s.runs
  <2>1. b \in Int
    BY <1>2
  <2> HIDE DEF b
  <2> QED BY <1>1, <2>1 DEF Cursor
<1>8. r = [FindChar(t, q, b).cur EXCEPT !.clocation = FindChar(t, q, b).at]
  BY DEF MoveByte
<1> HIDE DEF q, r, b
<1>9. IndexTrue(t, q)
  BY <1>1, <1>7 DEF IndexTrue, RunTrue, LastOf
<1>10. FindChar(t, q, b) = Found(q, CharOf(t, b))
  <2>1. b \in 0 .. q.maxbyte /\ b <= q.maxbyte /\ q.maxchar >= 0
    BY <1>2, <1>6, <1>7
  <2> QED BY <1>7, <1>9, <2>1, CharFound DEF FindChar
<1>11. r = [q EXCEPT !.clocation = CharOf(t, b)]
  BY <1>8, <1>10 DEF Found
<1>12. CharOf(t, b) \in Int /\ CharOf(t, b) <= s.maxchar
  <2>1. b \in Int /\ b <= s.maxbyte
    BY <1>2, <1>6
  <2>2. CharOf(t, b) <= CharOf(t, s.maxbyte) /\ CharOf(t, b) \in Int
    BY <1>2, <2>1, CharOfGrows, UntilFinite
  <2> QED BY <1>6, <2>2 DEF Begins
<1>13. /\ r \in Cursor /\ r.broken = "no" /\ r.location = b /\ r.clocation = CharOf(t, b)
       /\ r.maxchar = s.maxchar /\ r.maxbyte = s.maxbyte /\ r.maxblen = s.maxblen
       /\ r.runs = s.runs
  BY <1>7, <1>11, <1>12 DEF Cursor
<1>14. IndexTrue(t, r)
  BY <1>1, <1>13 DEF IndexTrue, RunTrue, LastOf
<1>15. b \in -1 .. Len(t)
  BY <1>1, <1>2
<1>16. Placed(t, r)
  BY <1>12, <1>13, <1>14, <1>15 DEF Placed
<1>17. TrailersKnown(t, r)
  BY <1>3, <1>13 DEF TrailersKnown
<1> QED BY <1>13, <1>16, <1>17 DEF r, b

LEMMA RedoPlaced ==
    ASSUME NEW t \in Seq(Role), NEW s, Placed(t, s), TrailersKnown(t, s), NEW n \in Nat,
           n > 0 => s.location - n >= 0 /\ Byte(t, s.location - n + 1) # 0
    PROVE  LET r == Redo(t, s, n)
           IN /\ Placed(t, r) /\ TrailersKnown(t, r)
              /\ r.location = s.location - n /\ r.maxchar = s.maxchar
<1>1. s.location \in Int
  BY DEF Placed
<1>2. CASE n = 0
  BY <1>1, <1>2 DEF Redo
<1>3. CASE n # 0
  <2>1. PICK d \in Int : d = -n
    OBVIOUS
  <2>2. d < 0 /\ s.location + d = s.location - n
    BY <1>1, <1>3, <2>1
  <2>3. s.location + d >= 0 /\ Byte(t, s.location + d + 1) # 0
    BY <1>3, <2>2
  <2>4. Redo(t, s, n) = MoveByte(t, s, d)
    BY <1>3, <2>1 DEF Redo
  <2> QED BY <2>2, <2>3, <2>4, MoveBytePlaced
<1> QED BY <1>2, <1>3

-----------------------------------------------------------------------------
(* The invariant is kept                                                   *)

LEMMA StartChar ==
    ASSUME NEW t \in Seq(Role), NEW i \in Nat
    PROVE  CharOf(t, i) \in Nat
<1>1. PICK z \in Starts(t) : z = 0
  BY StartsType
<1>2. PICK a \in Int : a = -1
  OBVIOUS
<1>3. z \in Int /\ i \in Int /\ z <= i /\ a < z /\ a <= z
  BY <1>1, <1>2
<1>4. CharOf(t, a) < CharOf(t, z) /\ CharOf(t, z) <= CharOf(t, i)
  BY <1>2, <1>3, CharOfGrows
<1>5. CharOf(t, z) \in Int /\ CharOf(t, i) \in Int
  BY <1>3, UntilFinite
<1>6. CharOf(t, a) = -1
  BY <1>2, CharOfNone
<1> QED BY <1>4, <1>5, <1>6

\* A text that was given, and the cursors in front of it.
LEMMA Fresh ==
    ASSUME NEW t \in Texts
    PROVE  /\ t \in Seq(Role) /\ Len(t) \in Nat /\ Byte(t, Len(t)) = 1
           /\ Placed(t, Start) /\ TrailersKnown(t, Start)
           /\ Start.location = -1 /\ Start.maxchar = -1
           /\ -2 \in -2 .. CharOf(t, Len(t)) - 1
           /\ \A s \in Starts(t) : CharOf(t, s) # -2
<1>1. t \in Seq(Role) /\ Len(t) \in Nat /\ Byte(t, Len(t)) = 1
  <2>1. t \in Seq(Role)
    BY TextAssumption
  <2> QED BY <2>1 DEF Byte
<1>2. Start \in Cursor
  <2>1. << >> \in Seq(Run)
    OBVIOUS
  <2> QED BY <2>1 DEF Start, Cursor
<1>3. Placed(t, Start)
  BY <1>1, <1>2, CharOfNone DEF Placed, Start, IndexTrue
<1>4. TrailersKnown(t, Start)
  BY <1>1, StartsType DEF TrailersKnown, Start
<1>5. CharOf(t, Len(t)) \in Nat
  BY <1>1, StartChar
<1>6. ASSUME NEW s \in Starts(t) PROVE CharOf(t, s) # -2
  <2>1. s \in Nat
    BY <1>1, StartsType
  <2>2. CharOf(t, s) \in Nat
    BY <1>1, <2>1, StartChar
  <2> QED BY <2>2
<1> QED BY <1>1, <1>3, <1>4, <1>5, <1>6 DEF Start

LEMMA EnteredCorrect ==
    ASSUME NEW t \in Texts, Entered(t)
    PROVE  InboundInv
<1>1. text = t /\ psize = Len(t) /\ csize = - Len(t) /\ cur = Start
      /\ cstop = -2 /\ begin = -1 /\ pc = "loop" /\ asked = None
  BY DEF Entered
<1>2. TextInv
  BY <1>1, Fresh DEF TextInv
<1>3. CursorInv
  BY <1>1, Fresh DEF CursorInv
<1>4. StopInv
  BY <1>1, Fresh DEF StopInv
<1>5. HandlerInv /\ FirstInv /\ AskedInv
  BY <1>1, Fresh DEF HandlerInv, FirstInv, AskedInv
<1> QED BY <1>2, <1>3, <1>4, <1>5 DEF InboundInv

LEMMA ProcessCorrect ==
    ASSUME NEW t \in Texts, Process(t)
    PROVE  InboundInv'
<1>1. text' = t /\ psize' = Len(t) /\ csize' = - Len(t) /\ cur' = Start
      /\ cstop' = -2 /\ begin' = -1 /\ pc' = "loop" /\ asked' = None
  BY DEF Process
<1>2. TextInv'
  BY <1>1, Fresh DEF TextInv
<1>3. CursorInv'
  BY <1>1, Fresh DEF CursorInv
<1>4. StopInv'
  BY <1>1, Fresh DEF StopInv
<1>5. HandlerInv' /\ FirstInv' /\ AskedInv'
  BY <1>1, Fresh DEF HandlerInv, FirstInv, AskedInv
<1> QED BY <1>2, <1>3, <1>4, <1>5 DEF InboundInv

\* What a step has to establish that leaves the text and the stop marker alone.
LEMMA Kept ==
    ASSUME InboundInv, UNCHANGED << text, psize, cstop >>,
           csize' = csize \/ csize' = CharOf(text, psize),
           Placed(text, cur'), TrailersKnown(text, cur'), cur'.location <= Len(text) - 1,
           begin' \in Int, begin' >= -1, pc' \in {"idle", "loop", "handler"},
           pc' = "handler" => Byte(text, cur'.location + 1) # 0,
           cur'.location = -1 => cur'.maxchar = -1 /\ (pc' = "handler" \/ cstop # -2 => psize = 0),
           asked' # None => /\ cur'.location + 1 \in Starts(text)
                            /\ CharOf(text, cur'.location + 1) = asked'
    PROVE  InboundInv'
<1>1. TextInv' /\ CursorInv' /\ HandlerInv'
  BY DEF InboundInv, TextInv, CursorInv, HandlerInv
<1>2. StopInv' /\ FirstInv' /\ AskedInv'
  BY DEF InboundInv, StopInv, FirstInv, AskedInv
<1> QED BY <1>1, <1>2 DEF InboundInv

\* The facts the steps start from.
LEMMA Facts ==
    ASSUME InboundInv
    PROVE  /\ text \in Seq(Role) /\ Len(text) \in Nat
           /\ psize \in 0 .. Len(text) /\ psize \in Nat /\ Byte(text, psize) # 0
           /\ cur \in Cursor /\ Placed(text, cur) /\ TrailersKnown(text, cur)
           /\ cur.location \in Int /\ cur.location >= -1 /\ cur.location <= Len(text) - 1
           /\ cur.maxchar \in Int /\ cur.clocation \in Int
           /\ cur.clocation = CharOf(text, cur.location) /\ cur.clocation <= cur.maxchar
           /\ cur.broken = "no" /\ IndexTrue(text, cur)
           /\ begin \in Int /\ begin >= -1
<1>1. text \in Seq(Role) /\ psize \in 0 .. Len(text) /\ Byte(text, psize) # 0
  BY DEF InboundInv, TextInv
<1>2. Placed(text, cur) /\ TrailersKnown(text, cur) /\ cur.location <= Len(text) - 1
      /\ begin \in Int /\ begin >= -1
  BY DEF InboundInv, CursorInv
<1>3. /\ cur \in Cursor /\ cur.location \in -1 .. Len(text)
      /\ cur.clocation = CharOf(text, cur.location) /\ cur.clocation <= cur.maxchar
      /\ cur.broken = "no" /\ IndexTrue(text, cur)
  BY <1>2 DEF Placed
<1>4. cur.location \in Int /\ cur.maxchar \in Int /\ cur.clocation \in Int
  BY <1>3 DEF Cursor
<1> QED BY <1>1, <1>2, <1>3, <1>4

LEMMA ReachStopKeeps ==
    ASSUME InboundInv, ReachStop
    PROVE  InboundInv'
<1>1. cur.clocation = cstop /\ cstop' = -2 /\ pc' = "handler" /\ asked' = None
      /\ UNCHANGED << text, psize, csize, cur, begin, calls >>
  BY DEF ReachStop
<1>2. Byte(text, cur.location + 1) # 0 /\ (cur.location = -1 => cstop # -2)
  <2>1. CASE cur.location = -1
    <3>1. cstop = -1
      BY <1>1, <2>1, Facts, CharOfNone
    <3>2. psize = 0
      BY <2>1, <3>1 DEF InboundInv, FirstInv
    <3>3. cur.location + 1 = psize
      BY <2>1, <3>2
    <3> QED BY <3>1, <3>3, Facts
  <2>2. CASE cur.location # -1
    <3>1. cur.location \in Nat
      BY <2>2, Facts
    <3>2. PICK s \in Starts(text) : s <= cur.location /\ CharOf(text, s) = CharOf(text, cur.location)
      BY <3>1, CharStarts, Facts
    <3>3. ~ Whole(text, s) /\ Byte(text, s + 1) # 0
      BY <1>1, <3>2, Facts DEF InboundInv, StopInv
    <3>4. s \in Nat /\ s + 1 \in 0 .. Len(text) /\ s < s + 1 /\ s + 1 \in Int /\ s \in Int
      BY <3>1, <3>2, StartsType, Facts
    <3>5. s + 1 \in Starts(text)
      BY <3>3, <3>4, LeadStarts, Facts
    <3>6. s = cur.location
      <4> SUFFICES ASSUME s + 1 <= cur.location PROVE FALSE
        BY <3>1, <3>2, <3>4
      <4>1. CharOf(text, s) < CharOf(text, s + 1)
        BY <3>4, <3>5, CharOfGrows, Facts
      <4>2. CharOf(text, s + 1) <= CharOf(text, cur.location)
        BY <3>1, <3>4, CharOfGrows, Facts
      <4>3. CharOf(text, s) \in Int /\ CharOf(text, s + 1) \in Int
        BY <3>4, UntilFinite, Facts
      <4> QED BY <3>2, <4>1, <4>2, <4>3, Facts
    <3> QED BY <2>2, <3>3, <3>6
  <2> QED BY <2>1, <2>2
<1>3. StopInv'
  <2>1. CharOf(text, Len(text)) \in Nat
    BY Facts, StartChar
  <2>2. ASSUME NEW s \in Starts(text) PROVE CharOf(text, s) # -2
    <3>1. s \in Nat
      BY Facts, StartsType
    <3>2. CharOf(text, s) \in Nat
      BY <3>1, StartChar, Facts
    <3> QED BY <3>2
  <2>3. text' = text
    BY <1>1
  <2> QED BY <1>1, <2>1, <2>2, <2>3 DEF StopInv
<1>4. TextInv' /\ CursorInv' /\ HandlerInv' /\ AskedInv'
  BY <1>1, <1>2 DEF InboundInv, TextInv, CursorInv, HandlerInv, AskedInv
<1>5. FirstInv'
  BY <1>1, <1>2 DEF InboundInv, FirstInv
<1> QED BY <1>3, <1>4, <1>5 DEF InboundInv

LEMMA ReachEofKeeps ==
    ASSUME InboundInv, Uses = {}, NEW n \in Nat, NEW next \in {"loop", "handler"},
           ReachEof(n, next)
    PROVE  InboundInv'
<1>1. /\ cur.location = psize - 1 /\ cur.location - n >= begin
      /\ n > 0 => Byte(text, cur.location - n + 1) # 0 /\ cur.location - n >= 0
      /\ cur' = Redo(text, cur, n) /\ begin' = cur'.location
      /\ Continue(IF next = "loop" /\ cur'.location = psize - 1 THEN "idle" ELSE next)
      /\ asked' = None /\ UNCHANGED << text, psize, csize, cstop, calls >>
  BY DEF ReachEof, Between, Behind
<1> DEFINE r == Redo(text, cur, n)
<1>2. /\ Placed(text, r) /\ TrailersKnown(text, r)
      /\ r.location = cur.location - n /\ r.maxchar = cur.maxchar
  BY <1>1, Facts, RedoPlaced
<1> HIDE DEF r
<1>3. cur' = r
  BY <1>1 DEF r
<1>4. r.broken = "no"
  BY <1>2 DEF Placed
<1>5. pc' \in {"idle", "loop", "handler"}
  BY <1>1, <1>3, <1>4 DEF Continue
<1>6. r.location \in Int /\ r.location >= -1 /\ r.location <= Len(text) - 1
  BY <1>1, <1>2, Facts
<1>7. Byte(text, r.location + 1) # 0
  <2>1. CASE n = 0
    <3>1. r.location + 1 = psize
      BY <1>1, <1>2, <2>1, Facts
    <3> QED BY <3>1, Facts
  <2>2. CASE n # 0
    BY <1>1, <1>2, <2>2
  <2> QED BY <2>1, <2>2
<1>8. r.location = -1 => r.maxchar = -1 /\ psize = 0
  <2> SUFFICES ASSUME r.location = -1 PROVE r.maxchar = -1 /\ psize = 0
    OBVIOUS
  <2>1. n = 0
    BY <1>1, <1>2
  <2>2. cur.location = -1
    BY <1>2, <2>1, Facts
  <2> QED BY <1>1, <1>2, <2>2, Facts DEF InboundInv, FirstInv
<1> QED BY <1>1, <1>2, <1>3, <1>5, <1>6, <1>7, <1>8, Kept

LEMMA AcceptKeeps ==
    ASSUME InboundInv, Accept
    PROVE  InboundInv'
<1>1. /\ cur.location # Len(text) - 1 /\ cur' = Step(text, cur) /\ Continue("loop")
      /\ asked' = None /\ UNCHANGED << text, psize, csize, cstop, begin, calls >>
  BY DEF Accept, Reading
<1> DEFINE r == Step(text, cur)
<1>2. cur.location < Len(text) - 1
  BY <1>1, Facts
<1>3. Placed(text, r) /\ TrailersKnown(text, r) /\ r.location = cur.location + 1
  BY <1>2, Facts, StepPlaced
<1> HIDE DEF r
<1>4. cur' = r /\ r.broken = "no"
  BY <1>1, <1>3 DEF r, Placed
<1>5. pc' = "loop"
  BY <1>1, <1>4 DEF Continue
<1>6. r.location <= Len(text) - 1 /\ r.location # -1
  BY <1>2, <1>3, Facts
<1> QED BY <1>1, <1>3, <1>4, <1>5, <1>6, Facts, Kept

LEMMA AcceptLastKeeps ==
    ASSUME InboundInv, Uses = {}, NEW n \in Nat, NEW next \in {"loop", "handler"},
           AcceptLast(n, next)
    PROVE  InboundInv'
<1> DEFINE s == Step(text, cur)
           r == Redo(text, s, n)
<1>1. /\ cur.location # Len(text) - 1 /\ s.location - n > begin
      /\ Byte(text, s.location - n + 1) # 0 /\ s.location - n >= 0
      /\ cur' = r /\ begin' = cur'.location /\ Continue(next)
      /\ asked' = None /\ UNCHANGED << text, psize, csize, cstop, calls >>
  BY DEF AcceptLast, Reading, Between, Behind
<1>2. cur.location < Len(text) - 1
  BY <1>1, Facts
<1>3. Placed(text, s) /\ TrailersKnown(text, s) /\ s.location = cur.location + 1
  BY <1>2, Facts, StepPlaced
<1> HIDE DEF s
<1>4. Placed(text, r) /\ TrailersKnown(text, r) /\ r.location = s.location - n
  BY <1>1, <1>3, Facts, RedoPlaced
<1> HIDE DEF r
<1>5. cur' = r /\ r.broken = "no"
  BY <1>1, <1>4 DEF Placed
<1>6. pc' = next
  BY <1>1, <1>5 DEF Continue
<1>7. r.location \in Int /\ r.location >= 0 /\ r.location <= Len(text) - 1 /\ r.location # -1
  BY <1>1, <1>2, <1>3, <1>4, Facts
<1>8. Byte(text, r.location + 1) # 0
  BY <1>1, <1>4
<1> QED BY <1>1, <1>4, <1>5, <1>6, <1>7, <1>8, Kept

LEMMA RefuseKeeps ==
    ASSUME InboundInv, Uses = {}, NEW n \in Nat, NEW next \in {"loop", "handler"},
           Refuse(n, next)
    PROVE  InboundInv'
<1> DEFINE q == Step(text, cur)
           s == MoveByte(text, q, -1)
           r == Redo(text, s, n)
<1>1. /\ cur.location # Len(text) - 1
      /\ Byte(text, cur.location + 1) # 0 /\ Byte(text, cur.location - n + 1) # 0
      /\ cur.location >= 0 /\ cur.location - n >= 0
      /\ cur' = IF s.broken = "no" THEN r ELSE s
      /\ begin' = cur'.location /\ Continue(next)
      /\ asked' = None /\ UNCHANGED << text, psize, csize, cstop, calls >>
  BY DEF Refuse, Reading, Between, Behind
<1>2. cur.location < Len(text) - 1
  BY <1>1, Facts
<1>3. Placed(text, q) /\ q.location = cur.location + 1
  BY <1>2, Facts, StepPlaced
<1> HIDE DEF q
<1>4. Placed(text, s) /\ TrailersKnown(text, s) /\ s.location = cur.location
  <2>1. PICK d \in Int : d = -1
    OBVIOUS
  <2>2. d < 0 /\ q.location + d = cur.location
    BY <1>3, <2>1, Facts
  <2>3. q.location + d >= 0 /\ Byte(text, q.location + d + 1) # 0
    BY <1>1, <2>2
  <2>4. /\ Placed(text, MoveByte(text, q, d)) /\ TrailersKnown(text, MoveByte(text, q, d))
        /\ MoveByte(text, q, d).location = q.location + d
    BY <1>3, <2>2, <2>3, Facts, MoveBytePlaced
  <2> QED BY <2>1, <2>2, <2>4
<1> HIDE DEF s
<1>5. Placed(text, r) /\ TrailersKnown(text, r) /\ r.location = cur.location - n
  BY <1>1, <1>4, Facts, RedoPlaced
<1> HIDE DEF r
<1>6. s.broken = "no" /\ r.broken = "no"
  BY <1>4, <1>5 DEF Placed
<1>7. cur' = r /\ pc' = next
  BY <1>1, <1>6 DEF Continue
<1>8. r.location \in Int /\ r.location >= 0 /\ r.location <= Len(text) - 1 /\ r.location # -1
  BY <1>1, <1>2, <1>5, Facts
<1>9. Byte(text, r.location + 1) # 0
  BY <1>1, <1>5
<1> QED BY <1>1, <1>5, <1>7, <1>8, <1>9, Kept

LEMMA CallFromKeeps ==
    ASSUME InboundInv, Uses = {}, NEW p \in 0 .. CharCount(text), CallFrom(p)
    PROVE  InboundInv'
<1> DEFINE r == MoveTo(text, cur, p - 1)
<1>1. /\ pc = "handler" /\ Narrow(p - 1) /\ (Behind(p - 1) \/ p - 1 = cur.maxchar)
      /\ p - 1 > cur.maxchar => Scannable
      /\ cur' = r /\ begin' = cur'.location /\ asked' = p /\ Continue("handler")
      /\ UNCHANGED << text, psize, csize, cstop >>
  BY DEF CallFrom, Calling
<1>2. CharCount(text) = CharOf(text, Len(text)) /\ CharOf(text, Len(text)) \in Int
  BY Facts, CountIsLast, UntilFinite
<1>3. p \in Nat /\ p <= CharOf(text, Len(text))
  BY <1>2
<1>4. CASE p = 0
  <2>1. cur.maxchar = -1
    BY <1>1, <1>4 DEF Behind
  <2>2. cur.location = -1
    <3> SUFFICES ASSUME cur.location # -1 PROVE FALSE
      OBVIOUS
    <3>1. cur.location \in Nat
      BY Facts
    <3>2. CharOf(text, cur.location) \in Nat
      BY <3>1, Facts, StartChar
    <3> QED BY <2>1, <3>2, Facts
  <2>3. cur.clocation = -1 /\ cur.maxbyte = -1
    <3>1. CharOf(text, -1) = -1
      BY Facts, CharOfNone
    <3> QED BY <2>1, <2>2, <3>1, Facts DEF IndexTrue
  <2>4. r = cur
    <3>1. [cur EXCEPT !.clocation = -1] = cur /\ [cur EXCEPT !.location = -1] = cur
      BY <2>2, <2>3, Facts DEF Cursor
    <3>2. p - 1 = -1
      BY <1>4
    <3>3. FindByte(text, cur, -1) = Found(cur, -1)
      BY <2>1, <2>3 DEF FindByte
    <3> QED BY <3>1, <3>2, <3>3 DEF MoveTo, Found
  <2> HIDE DEF r
  <2>5. cur' = cur /\ pc' = "handler"
    BY <1>1, <2>4, Facts DEF Continue
  <2>6. Byte(text, cur.location + 1) # 0 /\ (cur.location = -1 => psize = 0)
    BY <1>1 DEF InboundInv, HandlerInv, FirstInv
  <2>7. cur.location + 1 \in Starts(text) /\ CharOf(text, cur.location + 1) = p
    <3>1. cur.location + 1 = 0
      BY <2>2
    <3>2. PICK z \in Starts(text) : z = 0
      BY Facts, StartsType
    <3>3. CharOf(text, cur.location + 1) = CharOf(text, cur.location)
                                     + (IF cur.location + 1 \in Starts(text) THEN 1 ELSE 0)
      BY Facts, CharOfNext
    <3> QED BY <1>4, <2>3, <3>1, <3>2, <3>3, Facts
  <2> QED BY <1>1, <2>1, <2>5, <2>6, <2>7, Facts, Kept
<1>5. CASE p # 0
  <2>1. PICK c \in Nat : c = p - 1
    BY <1>3, <1>5
  <2>2. Single(text, c) /\ Byte(text, StartOf(text, c) + 1) # 0
    BY <1>1, <2>1 DEF Narrow
  <2>3. CharOf(text, Len(text)) = CharOf(text, Len(text) - 1) + 1
        /\ CharOf(text, Len(text) - 1) \in Int
    <3>0. Len(text) - 1 \in Int
      BY Facts
    <3>1. PICK m \in Int : m = Len(text) - 1
      BY <3>0
    <3>2. CharOf(text, m + 1) = CharOf(text, m) + (IF m + 1 \in Starts(text) THEN 1 ELSE 0)
      BY Facts, CharOfNext
    <3>3. m + 1 = Len(text) /\ Len(text) \in Starts(text)
      BY <3>1, Facts, StartsType
    <3>4. CharOf(text, m) \in Int
      BY Facts, UntilFinite
    <3> QED BY <3>1, <3>2, <3>3, <3>4
  <2>4. c <= CharOf(text, Len(text) - 1)
    BY <1>2, <1>3, <2>1, <2>3
  <2>5. c > cur.maxchar => Byte(text, cur.maxbyte + 1) # 0
    BY <1>1, <2>1 DEF Scannable
  <2>6. r = MoveTo(text, cur, c)
    BY <2>1
  <2> HIDE DEF r
  <2>7. /\ Placed(text, r) /\ r.clocation = c /\ r.location \in Starts(text)
        /\ r.location = StartOf(text, c)
    BY <2>4, <2>5, <2>6, Facts, MoveToPlaced
  <2>8. Byte(text, r.location + 1) # 0
    BY <2>2, <2>7
  <2>9. r.location \in 0 .. Len(text) /\ CharOf(text, r.location) = c /\ r.broken = "no"
    BY <2>7, Facts, StartsType DEF Placed
  <2>10. r.location # Len(text)
    BY <1>2, <2>3, <2>4, <2>9
  <2>11. r.location \in Int /\ r.location + 1 \in 0 .. Len(text) /\ r.location <= Len(text) - 1
         /\ r.location # -1 /\ r.location >= -1
    BY <2>9, <2>10, Facts
  <2>12. r.location + 1 \in Starts(text)
    BY <2>8, <2>11, Facts, LeadStarts
  <2>13. CharOf(text, r.location + 1) = p
    <3>1. CharOf(text, r.location + 1) = CharOf(text, r.location) + 1
      BY <2>11, <2>12, Facts, CharOfNext
    <3> QED BY <1>3, <2>1, <2>9, <3>1
  <2>14. TrailersKnown(text, r)
    BY <2>8 DEF TrailersKnown
  <2>15. cur' = r /\ pc' = "handler"
    BY <1>1, <2>9 DEF Continue
  <2> QED BY <1>1, <2>7, <2>8, <2>11, <2>12, <2>13, <2>14, <2>15, Kept
<1> QED BY <1>4, <1>5

LEMMA CallToKeeps ==
    ASSUME InboundInv, Uses = {}, NEW c \in -2 .. CharCount(text) - 1, CallTo(c)
    PROVE  InboundInv'
<1>1. /\ pc = "handler" /\ Narrow(c) /\ cstop' = c
      /\ UNCHANGED << text, psize, csize, cur, begin, pc, asked >>
  BY DEF CallTo, Calling
<1>2. StopInv'
  <2>1. CharCount(text) = CharOf(text, Len(text)) /\ CharOf(text, Len(text)) \in Int
    BY Facts, CountIsLast, UntilFinite
  <2>2. c \in -2 .. CharOf(text, Len(text)) - 1
    BY <2>1
  <2>3. ASSUME NEW s \in Starts(text), CharOf(text, s) = c
        PROVE  ~ Whole(text, s) /\ Byte(text, s + 1) # 0
    <3>1. s \in Nat
      BY Facts, StartsType
    <3>2. CharOf(text, s) \in Nat
      BY <3>1, Facts, StartChar
    <3>3. StartOf(text, c) = s
      BY <2>3, Facts, StartOfUnique
    <3>4. Single(text, c) /\ Byte(text, StartOf(text, c) + 1) # 0
      BY <1>1, <2>3, <3>2 DEF Narrow
    <3> QED BY <3>3, <3>4 DEF Single
  <2>4. text' = text /\ cstop' = c
    BY <1>1
  <2> QED BY <2>2, <2>3, <2>4 DEF StopInv
<1>3. TextInv' /\ CursorInv' /\ HandlerInv' /\ AskedInv'
  BY <1>1 DEF InboundInv, TextInv, CursorInv, HandlerInv, AskedInv
<1>4. FirstInv'
  BY <1>1 DEF InboundInv, FirstInv
<1> QED BY <1>2, <1>3, <1>4 DEF InboundInv

LEMMA CallLastKeeps ==
    ASSUME InboundInv, Uses = {}, CallLast
    PROVE  InboundInv'
<1> DEFINE f == FindChar(text, cur, - csize)
<1>1. /\ pc = "handler" /\ Byte(text, cur.maxbyte + 1) # 0
      /\ IF csize < 0 THEN cur' = f.cur /\ csize' = f.at ELSE UNCHANGED << cur, csize >>
      /\ Continue("handler") /\ UNCHANGED << text, psize, cstop, begin, asked >>
  BY DEF CallLast, Calling, Scannable
<1>2. Byte(text, cur.location + 1) # 0 /\ (cur.location = -1 => psize = 0)
  BY <1>1 DEF InboundInv, HandlerInv, FirstInv
<1>3. asked # None => cur.location + 1 \in Starts(text) /\ CharOf(text, cur.location + 1) = asked
  BY DEF InboundInv, AskedInv
<1>4. CASE csize < 0
  <2>1. CharOf(text, psize) \in Nat
    BY Facts, StartChar
  <2>2. psize \in 1 .. Len(text) /\ - csize = psize
    BY <1>4, <2>1, Facts DEF InboundInv, TextInv
  <2>3. f.at = CharOf(text, psize) /\ Placed(text, f.cur) /\ f.cur.location = cur.location
    BY <1>1, <2>2, Facts, CharSought
  <2> HIDE DEF f
  <2>4. cur' = f.cur /\ csize' = CharOf(text, psize) /\ cur'.location = cur.location
    BY <1>1, <1>4, <2>3
  <2>5. f.cur.broken = "no"
    BY <2>3 DEF Placed
  <2>6. pc' = "handler"
    BY <1>1, <2>4, <2>5 DEF Continue
  <2>7. TrailersKnown(text, cur')
    BY <1>2, <2>4 DEF TrailersKnown
  <2>8. cur.location # -1
    BY <1>2, <2>2
  <2> QED BY <1>1, <1>2, <1>3, <2>3, <2>4, <2>6, <2>7, <2>8, Facts, Kept
<1>5. CASE ~ (csize < 0)
  <2>1. cur' = cur /\ csize' = csize
    BY <1>1, <1>5
  <2>2. pc' = "handler"
    BY <1>1, <2>1, Facts DEF Continue
  <2>3. cur.location = -1 => cur.maxchar = -1
    BY DEF InboundInv, FirstInv
  <2> QED BY <1>1, <1>2, <1>3, <2>1, <2>2, <2>3, Facts, Kept
<1> QED BY <1>4, <1>5

\* What an extension leaves of the bytes, the characters and the index.
LEMMA ExtensionKeeps ==
    ASSUME NEW u \in Seq(Role), NEW x \in Seq(Role), NEW t, t = Extended(u, x)
    PROVE  /\ t \in Seq(Role) /\ Len(t) \in Nat /\ Len(u) \in Nat /\ Len(u) < Len(t)
           /\ \A i \in 0 .. Len(u) :
                  Byte(t, i) = Byte(u, i) /\ Whole(t, i) = Whole(u, i) /\ Jump(t, i) = Jump(u, i)
           /\ \A b \in Int : b <= Len(u) => CharOf(t, b) = CharOf(u, b)
           /\ Starts(u) = Until(t, Len(u))
<1>1. t \in Seq(Role) /\ StartsWith(t, u) /\ Len(u) < Len(t) /\ Byte(t, Len(u)) = 1
  BY ExtendedFront
<1>2. Len(t) \in Nat /\ Len(u) \in Nat
  BY <1>1
<1>3. Byte(u, Len(u)) = 1
  BY DEF Byte
<1>4. Whole(t, Len(u)) = FALSE /\ Whole(u, Len(u)) = FALSE
  BY <1>1, <1>3 DEF Whole
<1>5. ASSUME NEW i \in 0 .. Len(u)
      PROVE  Byte(t, i) = Byte(u, i) /\ Whole(t, i) = Whole(u, i) /\ Jump(t, i) = Jump(u, i)
  <2>1. CASE i = Len(u)
    BY <1>1, <1>3, <1>4, <2>1 DEF Jump
  <2>2. CASE i # Len(u)
    <3>1. i \in 0 .. Len(u) - 1
      BY <1>2, <2>2
    <3> QED BY <1>1, <3>1, FrontSame
  <2> QED BY <2>1, <2>2
<1>6. Starts(u) = Until(t, Len(u)) /\ \A b \in Int : b <= Len(u) => CharOf(t, b) = CharOf(u, b)
  BY <1>1, FrontCounts
<1> QED BY <1>1, <1>2, <1>5, <1>6

LEMMA ExtensionIndexed ==
    ASSUME NEW u \in Seq(Role), NEW x \in Seq(Role), NEW t, t = Extended(u, x),
           NEW s \in Cursor, IndexTrue(u, s)
    PROVE  IndexTrue(t, s)
<1>1. ASSUME NEW b, NEW c, NEW k, Begins(u, b, c, k) PROVE Begins(t, b, c, k)
  <2>1. b \in Starts(u) /\ CharOf(u, b) = c /\ Jump(u, b) = k
    BY <1>1 DEF Begins
  <2>2. b \in 0 .. Len(u) /\ b \in Int /\ b <= Len(u)
    BY <2>1, StartsType
  <2>3. b \in Starts(t)
    BY <2>1, ExtensionKeeps DEF Until
  <2>4. CharOf(t, b) = c /\ Jump(t, b) = k
    BY <2>1, <2>2, ExtensionKeeps
  <2> QED BY <2>3, <2>4 DEF Begins
<1>2. ASSUME NEW i \in 1 .. Len(s.runs), RunTrue(u, s, i) PROVE RunTrue(t, s, i)
  BY <1>1, <1>2 DEF RunTrue
<1>3. CASE s.maxchar = -1 /\ s.maxbyte = -1 /\ s.maxblen = 0 /\ s.runs = << >>
  BY <1>3 DEF IndexTrue
<1>4. CASE ~ (s.maxchar = -1 /\ s.maxbyte = -1 /\ s.maxblen = 0 /\ s.runs = << >>)
  <2>1. /\ s.maxchar >= 0 /\ Begins(u, s.maxbyte, s.maxchar, s.maxblen)
        /\ s.runs # << >> /\ s.runs[1].char = 0 /\ s.runs[1].byte = 0
        /\ s.runs[Len(s.runs)].blen = s.maxblen
        /\ \A i \in 1 .. Len(s.runs) : RunTrue(u, s, i)
    BY <1>4 DEF IndexTrue
  <2>2. Begins(t, s.maxbyte, s.maxchar, s.maxblen) /\ \A i \in 1 .. Len(s.runs) : RunTrue(t, s, i)
    BY <1>1, <1>2, <2>1
  <2> QED BY <2>1, <2>2 DEF IndexTrue
<1> QED BY <1>3, <1>4

LEMMA CallExtendKeeps ==
    ASSUME InboundInv, NEW x \in Extensions, CallExtend(x)
    PROVE  InboundInv'
<1>1. /\ text' = Extended(text, x)
      /\ UNCHANGED << psize, csize, cstop, cur, begin, pc, asked >>
  BY DEF CallExtend
<1>2. x \in Seq(Role) /\ text \in Seq(Role)
  BY TextAssumption, Facts
<1> DEFINE t == text'
<1>3. /\ t \in Seq(Role) /\ Len(t) \in Nat /\ Len(text) \in Nat /\ Len(text) < Len(t)
      /\ \A i \in 0 .. Len(text) :
             Byte(t, i) = Byte(text, i) /\ Whole(t, i) = Whole(text, i) /\ Jump(t, i) = Jump(text, i)
      /\ \A b \in Int : b <= Len(text) => CharOf(t, b) = CharOf(text, b)
      /\ Starts(text) = Until(t, Len(text))
  BY <1>1, <1>2, ExtensionKeeps
<1>4. Placed(t, cur)
  <2>1. IndexTrue(t, cur)
    BY <1>1, <1>2, Facts, ExtensionIndexed
  <2>2. cur.location \in -1 .. Len(t) /\ cur.clocation = CharOf(t, cur.location)
    BY <1>3, Facts
  <2> QED BY <2>1, <2>2, Facts DEF Placed
<1>5. cur.location + 1 \in 0 .. Len(text) /\ cur.location + 1 \in Int
      /\ cur.location + 1 <= Len(text)
  BY Facts
<1>6. Byte(t, cur.location + 1) = Byte(text, cur.location + 1)
      /\ CharOf(t, cur.location + 1) = CharOf(text, cur.location + 1)
      /\ (cur.location + 1 \in Starts(text) => cur.location + 1 \in Starts(t))
  BY <1>3, <1>5 DEF Until
<1>7. TrailersKnown(t, cur)
  <2> SUFFICES ASSUME Byte(t, cur.location + 1) = 0
               PROVE  /\ cur.location + 1 + cur.trailer \in Starts(t)
                      /\ \A k \in cur.location + 1 .. cur.location + cur.trailer : k \notin Starts(t)
    BY DEF TrailersKnown
  <2>1. /\ cur.location + 1 + cur.trailer \in Starts(text)
        /\ \A k \in cur.location + 1 .. cur.location + cur.trailer : k \notin Starts(text)
    BY <1>6, Facts DEF TrailersKnown
  <2>2. cur.location + 1 + cur.trailer \in 0 .. Len(text) /\ cur.trailer \in Nat
    <3>1. cur.trailer \in Nat
      BY Facts DEF Cursor
    <3> QED BY <1>2, <2>1, <3>1, StartsType
  <2>3. ASSUME NEW k \in cur.location + 1 .. cur.location + cur.trailer PROVE k \notin Starts(t)
    <3>1. k <= Len(text)
      BY <1>3, <2>2, Facts
    <3> QED BY <1>3, <2>1, <3>1 DEF Until
  <2> QED BY <1>3, <2>1, <2>3 DEF Until
<1>8. TextInv'
  <2>1. psize \in 0 .. Len(text) /\ psize \in Int /\ psize <= Len(text)
    BY Facts
  <2>2. psize \in 0 .. Len(t) /\ Byte(t, psize) # 0 /\ CharOf(t, psize) = CharOf(text, psize)
    BY <1>3, <2>1, Facts
  <2>3. csize = - psize \/ csize = CharOf(text, psize)
    BY DEF InboundInv, TextInv
  <2> QED BY <1>1, <1>3, <2>2, <2>3 DEF TextInv
<1>9. CursorInv'
  <2>1. pc \in {"idle", "loop", "handler"}
    BY DEF InboundInv, CursorInv
  <2>2. cur.location <= Len(t) - 1
    BY <1>3, Facts
  <2> QED BY <1>1, <1>4, <1>7, <2>1, <2>2, Facts DEF CursorInv
<1>10. StopInv'
  <2>1. Len(t) \in Int /\ Len(text) \in Int /\ Len(text) <= Len(t)
    BY <1>3
  <2>2. CharOf(t, Len(text)) <= CharOf(t, Len(t)) /\ CharOf(t, Len(text)) = CharOf(text, Len(text))
    BY <1>3, <2>1, CharOfGrows
  <2>3. CharOf(t, Len(t)) \in Int /\ CharOf(text, Len(text)) \in Int
    BY <1>2, <1>3, <2>1, UntilFinite
  <2>4. cstop \in -2 .. CharOf(text, Len(text)) - 1
    BY DEF InboundInv, StopInv
  <2>5. cstop \in -2 .. CharOf(t, Len(t)) - 1
    BY <2>2, <2>3, <2>4
  <2>6. ASSUME NEW s \in Starts(t), CharOf(t, s) = cstop
        PROVE  ~ Whole(t, s) /\ Byte(t, s + 1) # 0
    <3>1. s \in Nat /\ s \in Int
      BY <1>3, StartsType
    <3>2. s < Len(text)
      <4> SUFFICES ASSUME Len(text) <= s PROVE FALSE
        BY <1>3, <3>1
      <4>1. CharOf(t, Len(text)) <= CharOf(t, s)
        BY <1>3, <2>1, <3>1, CharOfGrows
      <4> QED BY <2>2, <2>3, <2>4, <2>6, <4>1
    <3>3. s \in 0 .. Len(text) /\ s + 1 \in 0 .. Len(text) /\ s <= Len(text)
      BY <1>3, <3>1, <3>2
    <3>4. s \in Starts(text) /\ CharOf(text, s) = cstop
      BY <1>3, <2>6, <3>1, <3>3 DEF Until
    <3>5. ~ Whole(text, s) /\ Byte(text, s + 1) # 0
      BY <3>4 DEF InboundInv, StopInv
    <3> QED BY <1>3, <3>3, <3>5
  <2> QED BY <1>1, <2>5, <2>6 DEF StopInv
<1>11. HandlerInv'
  <2>1. pc = "handler" => Byte(text, cur.location + 1) # 0
    BY DEF InboundInv, HandlerInv
  <2> QED BY <1>1, <1>6, <2>1 DEF HandlerInv
<1>12. FirstInv'
  BY <1>1 DEF InboundInv, FirstInv
<1>13. AskedInv'
  <2>1. asked # None => /\ cur.location + 1 \in Starts(text)
                        /\ CharOf(text, cur.location + 1) = asked
    BY DEF InboundInv, AskedInv
  <2> QED BY <1>1, <1>6, <2>1 DEF AskedInv
<1> QED BY <1>8, <1>9, <1>10, <1>11, <1>12, <1>13 DEF InboundInv

LEMMA ReachOverKeeps ==
    ASSUME InboundInv, ReachOver
    PROVE  InboundInv'
<1>1. pc = "loop" /\ pc' = "idle"
      /\ UNCHANGED << text, psize, csize, cstop, cur, begin, calls, asked >>
  BY DEF ReachOver
<1>2. TextInv' /\ CursorInv' /\ HandlerInv'
  BY <1>1 DEF InboundInv, TextInv, CursorInv, HandlerInv
<1>3. StopInv' /\ FirstInv' /\ AskedInv'
  BY <1>1 DEF InboundInv, StopInv, FirstInv, AskedInv
<1> QED BY <1>2, <1>3 DEF InboundInv

LEMMA HandlerDoneKeeps ==
    ASSUME InboundInv, HandlerDone
    PROVE  InboundInv'
<1>1. pc = "handler" /\ pc' = "loop"
      /\ UNCHANGED << text, psize, csize, cstop, cur, begin, calls, asked >>
  BY DEF HandlerDone
<1>2. TextInv' /\ CursorInv' /\ HandlerInv'
  BY <1>1 DEF InboundInv, TextInv, CursorInv, HandlerInv
<1>3. StopInv' /\ FirstInv' /\ AskedInv'
  BY <1>1 DEF InboundInv, StopInv, FirstInv, AskedInv
<1> QED BY <1>2, <1>3 DEF InboundInv

-----------------------------------------------------------------------------
(* The theorems                                                            *)

\* With none of the uses that break the index (`Uses` is empty), and for every
\* text, the cursors of runtime-c/inbound.c and the index of runtime-c/clindex.c
\* tell the truth of the text at all times: what reading, giving back, moving,
\* asking for the size and extending leave behind describes the characters visited.
THEOREM InboundCorrect == ASSUME Uses = {} PROVE Spec => []InboundInv
<1>1. Init => InboundInv
  BY EnteredCorrect DEF Init
<1>2. InboundInv /\ [Next]_vars => InboundInv'
  <2> SUFFICES ASSUME InboundInv, [Next]_vars PROVE InboundInv'
    OBVIOUS
  <2>1. ASSUME NEW t \in Texts, Process(t) PROVE InboundInv'
    BY <2>1, ProcessCorrect
  <2>2. CASE ReachStop
    BY <2>2, ReachStopKeeps
  <2>3. CASE ReachOver
    BY <2>3, ReachOverKeeps
  <2>4. CASE Accept
    BY <2>4, AcceptKeeps
  <2>5. ASSUME NEW n \in 0 .. Len(text), NEW next \in {"loop", "handler"},
               ReachEof(n, next) \/ AcceptLast(n, next) \/ Refuse(n, next)
        PROVE  InboundInv'
    <3>1. n \in Nat
      BY Facts
    <3> QED BY <2>5, <3>1, ReachEofKeeps, AcceptLastKeeps, RefuseKeeps
  <2>6. ASSUME NEW p \in 0 .. CharCount(text), CallFrom(p) PROVE InboundInv'
    BY <2>6, CallFromKeeps
  <2>7. ASSUME NEW c \in -2 .. CharCount(text) - 1, CallTo(c) PROVE InboundInv'
    BY <2>7, CallToKeeps
  <2>8. CASE CallLast
    BY <2>8, CallLastKeeps
  <2>9. ASSUME NEW x \in Extensions, CallExtend(x) PROVE InboundInv'
    BY <2>9, CallExtendKeeps
  <2>10. CASE HandlerDone
    BY <2>10, HandlerDoneKeeps
  <2>11. CASE UNCHANGED vars
    <3>1. TextInv' /\ CursorInv' /\ HandlerInv'
      BY <2>11 DEF InboundInv, TextInv, CursorInv, HandlerInv, vars
    <3>2. StopInv' /\ FirstInv' /\ AskedInv'
      BY <2>11 DEF InboundInv, StopInv, FirstInv, AskedInv, vars
    <3> QED BY <3>1, <3>2 DEF InboundInv
  <2> QED BY <2>1, <2>2, <2>3, <2>4, <2>5, <2>6, <2>7, <2>8, <2>9, <2>10, <2>11 DEF Next
<1> QED BY <1>1, <1>2, PTL DEF Spec

\* The two cursors stay together: the character cursor of inbound.c names the
\* character that its byte cursor is in.
THEOREM CursorsTogether == ASSUME Uses = {} PROVE Spec => []CursorsAgree
<1>1. InboundInv => CursorsAgree
  BY Facts DEF CursorsAgree
<1> QED BY <1>1, InboundCorrect, PTL

\* clindex_find and clindex_find_c answer for all that was visited as the text
\* does.
THEOREM IndexCorrect == ASSUME Uses = {} PROVE Spec => []IndexExact
<1>1. ASSUME InboundInv PROVE IndexExact
  <2>1. ASSUME NEW c \in 0 .. cur.maxchar PROVE FindByte(text, cur, c).at = StartOf(text, c)
    BY <1>1, <2>1, Facts, ByteFound DEF Found
  <2>2. ASSUME NEW b \in 0 .. cur.maxbyte PROVE FindChar(text, cur, b).at = CharOf(text, b)
    <3>1. cur.maxbyte \in Int
      BY <1>1, Facts DEF Cursor
    <3>2. cur.maxchar >= 0
      BY <1>1, <3>1, Facts DEF IndexTrue
    <3>3. CharOfVisited(cur, b) = Found(cur, CharOf(text, b))
      BY <1>1, <3>2, Facts, CharFound
    <3>4. b <= cur.maxbyte
      BY <3>1
    <3> QED BY <3>3, <3>4 DEF FindChar, Found
  <2> QED BY <2>1, <2>2 DEF IndexExact
<1> QED BY <1>1, InboundCorrect, PTL

\* The size in characters, once it is computed, is that of the primary input,
\* also when it is asked for after an extension.
THEOREM LengthCorrect == ASSUME Uses = {} PROVE Spec => []LengthExact
<1>1. ASSUME InboundInv, csize > 0 PROVE csize = CharCount(SubSeq(text, 1, psize))
  <2>1. csize = CharOf(text, psize)
    <3>1. psize \in Nat /\ (csize = - psize \/ csize = CharOf(text, psize))
      BY <1>1, Facts DEF InboundInv, TextInv
    <3> QED BY <1>1, <3>1
  <2> DEFINE u == SubSeq(text, 1, psize)
  <2>2. u \in Seq(Role) /\ Len(u) = psize /\ \A i \in 1 .. psize : u[i] = text[i]
    BY <1>1, Facts
  <2> HIDE DEF u
  <2>3. StartsWith(text, u)
    <3>1. psize < Len(text) => text[psize + 1] # 0
      BY <1>1, Facts DEF Byte
    <3> QED BY <1>1, <2>2, <3>1, Facts DEF StartsWith
  <2>4. CharCount(u) = CharOf(text, Len(u))
    BY <1>1, <2>2, <2>3, Facts, FrontCounts
  <2> QED BY <2>1, <2>2, <2>4 DEF u
<1>2. InboundInv => LengthExact
  BY <1>1 DEF LengthExact
<1> QED BY <1>2, InboundCorrect, PTL

\* A handler that moves to a location goes on with the first byte of the
\* character asked for.
THEOREM TargetReached == ASSUME Uses = {} PROVE Spec => []ResumesAtTarget
<1>1. ASSUME InboundInv, asked # None PROVE cur.location + 1 = StartOf(text, asked)
  <2>1. cur.location + 1 \in Starts(text) /\ CharOf(text, cur.location + 1) = asked
    BY <1>1 DEF InboundInv, AskedInv
  <2> QED BY <1>1, <2>1, Facts, StartOfUnique
<1>2. InboundInv => ResumesAtTarget
  BY <1>1 DEF ResumesAtTarget
<1> QED BY <1>2, InboundCorrect, PTL

\* No search of the index ends in front of its first run, and no ASSERT of
\* clindex.c fails.
THEOREM EntryFound == ASSUME Uses = {} PROVE Spec => [](EntryExists /\ cur.broken = "no")
<1>1. InboundInv => EntryExists /\ cur.broken = "no"
  BY Facts DEF EntryExists
<1> QED BY <1>1, InboundCorrect, PTL

=============================================================================
