---------------------------- MODULE SymSetProofs ----------------------------
(***************************************************************************)
(* Proofs about SymSet, for every capacity and every content of the memory *)
(* the set starts from.                                                    *)
(*                                                                         *)
(* The inductive invariant says what link and insert establish and clear   *)
(* does not disturb: `sparse` leads back to its place from each element    *)
(* that `dense` lists.  Nothing is said of any other cell.                 *)
(***************************************************************************)
EXTENDS SymSet, FiniteSetTheorems, TLAPS

Linked == \A k \in 0 .. n-1 : dense[k] \in Sym /\ sparse[dense[k]] = k

Written ==
    /\ todo = << >>
    /\ \A k \in 0 .. filled-1 : dense[k] \in Sym
    /\ Listing(filled, dense)

IInv ==
    /\ TypeOK
    /\ filled = None => Linked
    /\ filled # None => Written

-----------------------------------------------------------------------------

\* With the memory linked the test of `contains` finds exactly the elements:
\* an index of garbage either lies beyond n or leads to another symbol.
LEMMA ContainsElements ==
    ASSUME TypeOK, Linked, NEW x \in Sym
    PROVE  Contains(x) <=> x \in Elements
<1>1. ASSUME Contains(x) PROVE x \in Elements
  <2>1. sparse[x] \in 0 .. n-1 /\ dense[sparse[x]] = x
    BY <1>1 DEF Contains, TypeOK
  <2> QED BY <2>1 DEF Elements
<1>2. ASSUME x \in Elements PROVE Contains(x)
  <2>1. PICK k \in 0 .. n-1 : dense[k] = x
    BY <1>2 DEF Elements
  <2>2. sparse[x] = k
    BY <2>1 DEF Linked
  <2> QED BY <2>1, <2>2 DEF Contains, TypeOK
<1> QED BY <1>1, <1>2

\* A full set has every symbol as a member.  Otherwise the elements and the
\* newcomer were Cap+1 symbols out of Cap, and two of them the same one.
LEMMA FullSetIsEverything ==
    ASSUME TypeOK, Linked, NEW x \in Sym, ~ Contains(x)
    PROVE  n < Cap
<1> SUFFICES ASSUME n = Cap PROVE FALSE
  BY CapAssumption DEF TypeOK
<1> DEFINE Place == 0 .. Cap
           f == [i \in Place |-> IF i < Cap THEN dense[i] ELSE x]
<1>1. IsFiniteSet(Place) /\ Cardinality(Place) = Cap + 1
  BY FS_Interval, CapAssumption
<1>2. IsFiniteSet(Sym) /\ Cardinality(Sym) = Cap
  BY FS_Interval, CapAssumption DEF Sym
<1>3. f \in [Place -> Sym]
  BY CapAssumption DEF Linked
<1>4. Cardinality(Sym) < Cardinality(Place)
  BY <1>1, <1>2, CapAssumption
<1>5. PICK i, j \in Place : i # j /\ f[i] = f[j]
  <2> HIDE DEF f, Place
  <2> QED BY <1>1, <1>2, <1>3, <1>4, FS_PigeonHole
<1>6. \A k \in 0 .. Cap-1 : dense[k] # x
  <2>1. x \notin Elements
    BY ContainsElements
  <2> QED BY <2>1 DEF Elements
<1>7. CASE i < Cap /\ j < Cap
  <2>1. dense[i] = dense[j] /\ sparse[dense[i]] = i /\ sparse[dense[j]] = j
    BY <1>5, <1>7, CapAssumption DEF Linked
  <2> QED BY <2>1, <1>5
<1>8. CASE i = Cap \/ j = Cap
  BY <1>5, <1>6, <1>8, CapAssumption
<1> QED BY <1>7, <1>8, CapAssumption

-----------------------------------------------------------------------------
(* The invariant                                                           *)

LEMMA CalledType ==
    ASSUME NEW op \in {"init", "clear", "add", "replace", "contains"},
           NEW x \in Sym \cup {None}, NEW s \in Seq(Sym),
           NEW a \in {"none", "yes", "no"}
    PROVE  Called(op, x, s, a) \in Calls
BY DEF Called, Calls

LEMMA InitIInv == Init => IInv
<1> SUFFICES ASSUME Init PROVE IInv
  OBVIOUS
<1>1. last \in Calls
  <2>1. << >> \in Seq(Sym)
    OBVIOUS
  <2>2. last = Called("init", None, << >>, "none")
    BY DEF Init
  <2>3. Called("init", None, << >>, "none") \in Calls
    BY <2>1, CalledType
  <2> QED BY <2>2, <2>3, Zenon
<1>2. n = 0 /\ filled = None /\ todo = << >>
  BY DEF Init
<1>3. dense \in [Sym -> DenseJunk] /\ sparse \in [Sym -> SparseJunk]
  BY DEF Init
<1>4. TypeOK
  <2>1. n \in 0 .. Cap /\ filled \in {None} \cup (0 .. Cap)
    BY <1>2, CapAssumption
  <2>2. dense \in [Sym -> Int] /\ sparse \in [Sym -> 0 .. MaxSym]
    BY <1>3, JunkAssumption
  <2>3. todo \in Seq(Sym)
    BY <1>2
  <2> QED BY <2>1, <2>2, <2>3, <1>1, Zenon DEF TypeOK
<1>5. Linked
  BY <1>2 DEF Linked
<1> QED BY <1>2, <1>4, <1>5, Zenon DEF IInv

LEMMA InsertIInv ==
    ASSUME IInv, filled = None, filled' = None, NEW x \in Sym, Insert(x),
           todo' \in Seq(Sym), last' \in Calls
    PROVE  IInv'
<1> USE CapAssumption DEF IInv, Sym
<1>1. CASE Contains(x) /\ UNCHANGED << n, dense, sparse >>
  BY <1>1 DEF TypeOK, Linked
<1>2. CASE ~ Contains(x) /\ n' = n + 1
           /\ dense' = [dense EXCEPT ![n] = x] /\ sparse' = [sparse EXCEPT ![x] = n]
  <2>1. n < Cap
    BY <1>2, FullSetIsEverything
  <2>2. TypeOK'
    BY <1>2, <2>1 DEF TypeOK
  <2>3. \A k \in 0 .. n-1 : dense[k] # x
    BY <1>2, ContainsElements DEF Elements
  <2>4. Linked'
    <3> SUFFICES ASSUME NEW k \in 0 .. n
                 PROVE  dense'[k] \in Sym /\ sparse'[dense'[k]] = k
      BY <1>2, <2>1 DEF Linked, TypeOK
    <3>1. CASE k = n
      BY <3>1, <1>2, <2>1 DEF TypeOK
    <3>2. CASE k < n
      <4>1. dense'[k] = dense[k] /\ dense[k] \in Sym /\ sparse[dense[k]] = k
        BY <3>2, <1>2, <2>1, SMTT(30) DEF TypeOK, Linked
      <4>2. dense[k] # x
        BY <3>2, <2>3 DEF TypeOK
      <4> QED BY <4>1, <4>2, <1>2 DEF TypeOK
    <3> QED BY <3>1, <3>2 DEF TypeOK
  <2> QED BY <2>2, <2>4
<1> QED BY <1>1, <1>2 DEF Insert

LEMMA LinkIInv ==
    ASSUME IInv, Link
    PROVE  IInv'
<1> DEFINE Place(x) == CHOOSE k \in 0 .. filled-1 : dense[k] = x
<1>1. filled \in 0 .. Cap /\ Written
  BY DEF Link, IInv, TypeOK
<1>2. ASSUME NEW x \in Sym, \E k \in 0 .. filled-1 : dense[k] = x
      PROVE  Place(x) \in 0 .. filled-1 /\ dense[Place(x)] = x
  BY <1>2
<1>3. sparse' = [x \in Sym |-> IF \E k \in 0 .. filled-1 : dense[k] = x
                               THEN Place(x) ELSE sparse[x]]
  BY DEF Link
<1> HIDE DEF Place
<1>4. TypeOK'
  <2>1. sparse' \in [Sym -> 0 .. MaxSym]
    <3> SUFFICES ASSUME NEW x \in Sym
                 PROVE  (IF \E k \in 0 .. filled-1 : dense[k] = x
                         THEN Place(x) ELSE sparse[x]) \in 0 .. MaxSym
      BY <1>3
    <3>1. CASE \E k \in 0 .. filled-1 : dense[k] = x
      BY <3>1, <1>1, <1>2, CapAssumption
    <3>2. CASE ~ \E k \in 0 .. filled-1 : dense[k] = x
      BY <3>2 DEF IInv, TypeOK
    <3> QED BY <3>1, <3>2
  <2> QED BY <2>1, <1>1 DEF Link, IInv, TypeOK
<1>5. Linked'
  <2> SUFFICES ASSUME NEW k \in 0 .. filled-1
               PROVE  dense[k] \in Sym /\ sparse'[dense[k]] = k
    BY DEF Linked, Link
  <2>1. dense[k] \in Sym
    BY <1>1 DEF Written
  <2>2. Place(dense[k]) \in 0 .. filled-1 /\ dense[Place(dense[k])] = dense[k]
    BY <1>2, <2>1
  <2>3. Place(dense[k]) = k
    BY <2>2, <1>1 DEF Written, Listing
  <2> QED BY <1>3, <2>1, <2>3
<1> QED BY <1>4, <1>5 DEF IInv, Link, None

LEMMA NextIInv == IInv /\ [Next]_vars => IInv'
<1> SUFFICES ASSUME IInv, [Next]_vars PROVE IInv'
  OBVIOUS
<1>0. << >> \in Seq(Sym)
  OBVIOUS
<1>1. CASE Clear
  <2>1. last' \in Calls
    BY <1>0, <1>1, CalledType DEF Clear
  <2> QED BY <1>1, <2>1, CapAssumption DEF Clear, Quiet, IInv, TypeOK, Linked, Sym
<1>2. ASSUME NEW x \in Sym, Add(x) PROVE IInv'
  <2>1. last' \in Calls
    BY <1>0, <1>2, CalledType DEF Add
  <2> QED BY <1>2, <2>1, InsertIInv DEF Add, Quiet, IInv, TypeOK
<1>3. ASSUME NEW x \in Sym, Query(x) PROVE IInv'
  <2>1. last' \in Calls
    <3>1. (IF Contains(x) THEN "yes" ELSE "no") \in {"none", "yes", "no"}
      OBVIOUS
    <3> QED BY <1>0, <1>3, <3>1, CalledType DEF Query
  <2> QED BY <1>3, <2>1 DEF Query, Quiet, IInv, TypeOK, Linked
<1>4. ASSUME NEW v \in Batches, IncludeBegin(v) PROVE IInv'
  <2>1. v \in Seq(Sym)
    BY BatchAssumption DEF Batches
  <2> QED BY <1>4, <2>1 DEF IncludeBegin, Quiet, IInv, TypeOK, Linked
<1>5. CASE IncludeOne
  <2>1. Head(todo) \in Sym /\ Tail(todo) \in Seq(Sym)
    BY <1>5 DEF IncludeOne, IInv, TypeOK
  <2>2. filled = None
    BY <1>5 DEF IncludeOne, IInv, Written
  <2>3. last' \in Calls
    BY <1>0, <1>5, <2>1, CalledType DEF IncludeOne
  <2> QED BY <1>5, <2>1, <2>2, <2>3, InsertIInv DEF IncludeOne
<1>6. ASSUME NEW k \in 0 .. Cap, NEW d \in [Sym -> Sym], Fill(k, d) PROVE IInv'
  <2>1. dense' \in [Sym -> Int]
    BY <1>6 DEF Fill, IInv, TypeOK, Sym
  <2>2. \A i \in 0 .. k-1 : dense'[i] = d[i] /\ d[i] \in Sym
    BY <1>6, CapAssumption DEF Fill, Sym
  <2>3. Listing(k, dense')
    BY <2>2, <1>6 DEF Fill, Listing
  <2>4. last' \in Calls
    <3>1. List(k, d) \in Seq(Sym)
      <4>1. List(k, d) \in [1 .. k -> Sym]
        BY CapAssumption DEF List, Sym
      <4> QED BY <4>1, CapAssumption
    <3> QED BY <1>6, <3>1, CalledType DEF Fill
  <2> QED BY <1>6, <2>1, <2>2, <2>3, <2>4 DEF Fill, Quiet, IInv, TypeOK, Written, None, Listing
<1>7. CASE Link
  BY <1>7, LinkIInv
<1>8. CASE UNCHANGED vars
  BY <1>8 DEF vars, IInv, TypeOK, Linked, Written, Listing
<1> QED BY <1>1, <1>2, <1>3, <1>4, <1>5, <1>6, <1>7, <1>8 DEF Next

THEOREM Invariance == Spec => []IInv
BY InitIInv, NextIInv, PTL DEF Spec

\* The fields of a set always hold what their C types and its capacity allow:
\* in particular the number of elements never exceeds the capacity.
THEOREM TypeCorrect == Spec => []TypeOK
<1>1. IInv => TypeOK
  BY DEF IInv
<1> QED BY <1>1, Invariance, PTL

\* symset_contains is right for every symbol, on memory that was never
\* initialised.
THEOREM ContainsCorrect == Spec => []ContainsIsExact
<1>1. IInv => ContainsIsExact
  BY ContainsElements DEF IInv, ContainsIsExact
<1> QED BY <1>1, Invariance, PTL

\* symset_add and symset_include never write behind the arrays.
THEOREM NoOverflow == Spec => []RoomForNewcomer
<1>1. IInv => RoomForNewcomer
  BY FullSetIsEverything DEF IInv, RoomForNewcomer
<1> QED BY <1>1, Invariance, PTL

-----------------------------------------------------------------------------
(* Refinement                                                              *)

\* Facts about the mapped variable.
LEMMA ListedType ==
    ASSUME IInv
    PROVE  Listed \in Promise!Orders
<1> DEFINE m == IF filled = None THEN n ELSE filled
<1>1. m \in 0 .. Cap /\ (\A k \in 0 .. m-1 : dense[k] \in Sym) /\ Listing(m, dense)
  BY CapAssumption DEF IInv, TypeOK, Linked, Written, Listing
<1>2. Listed = [i \in 1 .. m |-> dense[i-1]]
  BY DEF Listed, List
<1> HIDE DEF m
<1>3. Listed \in [1 .. m -> Sym]
  <2> SUFFICES ASSUME NEW i \in 1 .. m PROVE dense[i-1] \in Sym
    BY <1>2
  <2>1. i-1 \in 0 .. m-1
    BY <1>1
  <2> QED BY <2>1, <1>1
<1>4. Listed \in Seq(Sym) /\ DOMAIN Listed = 1 .. m
  BY <1>1, <1>3, CapAssumption
<1>5. ASSUME NEW i \in 1 .. m, NEW j \in 1 .. m, Listed[i] = Listed[j] PROVE i = j
  <2>1. i-1 \in 0 .. m-1 /\ j-1 \in 0 .. m-1 /\ dense[i-1] = dense[j-1]
    BY <1>1, <1>2, <1>5, CapAssumption
  <2>2. i-1 = j-1
    BY <2>1, <1>1 DEF Listing
  <2> QED BY <2>2, <1>1, CapAssumption
<1> QED BY <1>4, <1>5 DEF Promise!Orders

LEMMA ListedTypeNext == (IInv => Listed \in Promise!Orders)'
<1>1. IInv => Listed \in Promise!Orders
  BY ListedType
<1> QED BY <1>1, PTL

\* Away from bulk writes the mapped sequence has the members `contains` finds.
LEMMA MembersListed ==
    ASSUME IInv, filled = None, NEW x \in Sym
    PROVE  x \in Promise!Members <=> Contains(x)
<1>1. n \in 0 .. Cap /\ Listed = [i \in 1 .. n |-> dense[i-1]]
  BY DEF IInv, TypeOK, Listed, List
<1>2. ASSUME NEW k \in 0 .. n-1 PROVE k+1 \in 1 .. n /\ Listed[k+1] = dense[k]
  BY <1>1, CapAssumption
<1>3. ASSUME NEW i \in 1 .. n PROVE i-1 \in 0 .. n-1 /\ Listed[i] = dense[i-1]
  BY <1>1, CapAssumption
<1>4. Promise!Members = Elements
  BY <1>1, <1>2, <1>3 DEF Promise!Members, Elements
<1> QED BY <1>4, ContainsElements DEF IInv

LEMMA InsertMaps ==
    ASSUME IInv, filled = None, filled' = None, NEW x \in Sym, Insert(x)
    PROVE  Listed' = IF x \in Promise!Members THEN Listed ELSE Append(Listed, x)
<1>1. n \in 0 .. Cap /\ Listed = [i \in 1 .. n |-> dense[i-1]]
      /\ Listed' = [i \in 1 .. n' |-> dense'[i-1]]
  BY DEF IInv, TypeOK, Listed, List
<1>2. CASE Contains(x) /\ UNCHANGED << n, dense, sparse >>
  BY <1>1, <1>2, MembersListed
<1>3. CASE ~ Contains(x) /\ n' = n + 1 /\ dense' = [dense EXCEPT ![n] = x]
  <2>1. n < Cap
    BY <1>3, FullSetIsEverything DEF IInv
  <2>2. \A i \in 1 .. n + 1 : dense'[i-1] = IF i = n + 1 THEN x ELSE dense[i-1]
    BY <1>1, <1>3, <2>1, CapAssumption DEF IInv, TypeOK, Sym
  <2>3. Listed \in Seq(Sym) /\ Len(Listed) = n
    BY <1>1, ListedType, CapAssumption DEF Promise!Orders
  <2>4. Listed' = [i \in 1 .. n + 1 |-> IF i = n + 1 THEN x ELSE Listed[i]]
    BY <1>1, <1>3, <2>2, CapAssumption
  <2>5. Append(Listed, x) = [i \in 1 .. n + 1 |-> IF i = n + 1 THEN x ELSE Listed[i]]
    BY <2>3, <1>1
  <2> QED BY <1>3, <2>4, <2>5, MembersListed
<1> QED BY <1>2, <1>3 DEF Insert

\* Both modules record a call in the same way.
LEMMA SameCalls ==
    ASSUME NEW op, NEW x, NEW s, NEW a
    PROVE  Called(op, x, s, a) = Promise!Called(op, x, s, a)
BY DEF Called, Promise!Called

\* The abstract specification checks its steps on `order` and `last` only.
LEMMA StepMaps == IInv /\ IInv' /\ [Next]_vars => [Promise!Next]_(Promise!vars)
<1> SUFFICES ASSUME IInv, IInv', [Next]_vars
             PROVE  Promise!Next \/ UNCHANGED Promise!vars
  OBVIOUS
<1> USE DEF Promise!vars
<1>0. None = Promise!None
  BY DEF None, Promise!None
<1>1. CASE Clear
  <2>1. Listed' = << >>
    BY <1>1 DEF Clear, Quiet, Listed, List, None
  <2>2. last' = Promise!Called("clear", Promise!None, << >>, "none")
    BY <1>0, <1>1, SameCalls DEF Clear
  <2> QED BY <2>1, <2>2 DEF Promise!Next, Promise!Clear
<1>2. ASSUME NEW x \in Sym, Add(x) PROVE Promise!Add(x)
  <2>1. last' = Promise!Called("add", x, << >>, "none")
    BY <1>2, SameCalls DEF Add
  <2> QED BY <1>2, <2>1, InsertMaps DEF Add, Quiet, Promise!Add
<1>3. ASSUME NEW x \in Sym, Query(x) PROVE Promise!Query(x)
  <2>1. Listed' = Listed
    BY <1>3 DEF Query, Listed
  <2>2. x \in Promise!Members <=> Contains(x)
    BY <1>3, MembersListed DEF Query, Quiet
  <2>3. (IF Contains(x) THEN "yes" ELSE "no")
        = IF x \in Promise!Members THEN "yes" ELSE "no"
    BY <2>2
  <2>4. last' = Called("contains", x, << >>, IF Contains(x) THEN "yes" ELSE "no")
    BY <1>3 DEF Query
  <2>5. last' = Promise!Called("contains", x, << >>,
                               IF x \in Promise!Members THEN "yes" ELSE "no")
    BY <2>3, <2>4, SameCalls
  <2> QED BY <2>1, <2>5 DEF Promise!Query
<1>4. ASSUME NEW v \in Batches, IncludeBegin(v) PROVE UNCHANGED Promise!vars
  BY <1>4 DEF IncludeBegin, Listed
<1>5. CASE IncludeOne
  <2>1. Head(todo) \in Sym /\ filled = None
    BY <1>5 DEF IncludeOne, IInv, TypeOK, Written
  <2>2. last' = Promise!Called("add", Head(todo), << >>, "none")
    BY <1>5, SameCalls DEF IncludeOne
  <2>3. Promise!Add(Head(todo))
    BY <1>5, <2>1, <2>2, InsertMaps DEF IncludeOne, Promise!Add
  <2> QED BY <2>1, <2>3 DEF Promise!Next
<1>6. ASSUME NEW k \in 0 .. Cap, NEW d \in [Sym -> Sym], Fill(k, d)
      PROVE  Promise!Replace
  <2>1. Listed' \in Promise!Orders
    BY ListedTypeNext
  <2>2. Listed' = [i \in 1 .. k |-> dense'[i-1]]
    BY <1>6 DEF Fill, Listed, List, None
  <2>3. ASSUME NEW i \in 1 .. k PROVE dense'[i-1] = d[i-1]
    BY <1>6, CapAssumption DEF Fill, Sym
  <2>4. Listed' = List(k, d)
    BY <2>2, <2>3 DEF List
  <2>5. last' = Promise!Called("replace", Promise!None, Listed', "none")
    BY <1>0, <1>6, <2>4, SameCalls DEF Fill
  <2> QED BY <2>1, <2>5 DEF Promise!Replace
<1>7. CASE Link
  BY <1>7 DEF Link, Listed, List, None
<1>8. CASE UNCHANGED vars
  BY <1>8 DEF vars, Listed
<1> QED BY <1>1, <1>2, <1>3, <1>4, <1>5, <1>6, <1>7, <1>8 DEF Next, Promise!Next

\* Every behaviour of the sparse/dense set, seen through the list of its
\* elements, is a behaviour of an ordered set.
THEOREM Implementation == Spec => ImplementsOrderedSet
<1>1. Init => Promise!Init
  <2> SUFFICES ASSUME Init PROVE Promise!Init
    OBVIOUS
  <2>1. Listed = << >>
    BY DEF Init, Listed, List, None
  <2>2. last = Promise!Called("init", Promise!None, << >>, "none")
    BY SameCalls DEF Init, None, Promise!None
  <2> QED BY <2>1, <2>2 DEF Promise!Init
<1>2. QED
  BY <1>1, Invariance, StepMaps, PTL DEF Spec, ImplementsOrderedSet, Promise!Spec

=============================================================================
