-------------------------- MODULE ClassObjectProofs --------------------------
(***************************************************************************)
(* Proofs about ClassObject: the references to the shared structures are   *)
(* exact, a text and what is behind it say the same, and the objects are   *)
(* the immutable values of ClassValues, for any number of objects, all     *)
(* contents, and every sequence of copies, conversions, commands and       *)
(* failures.                                                               *)
(*                                                                         *)
(* The calls are functions of the state, put together from a few changes:  *)
(* an object changes without its structure, a structure changes under its  *)
(* objects, an object comes to a structure, or leaves it.  Each keeps the  *)
(* counts (Counted), and what all objects but one say (Keeps).             *)
(***************************************************************************)
EXTENDS ClassObject, RangesProofs, FiniteSetTheorems, TLAPS

IsObj(x) == x = [rep |-> x.rep, id |-> x.id, list |-> x.list, text |-> x.text]
IsStruct(x) == x = [kind |-> x.kind, refs |-> x.refs, cr |-> x.cr, canon |-> x.canon]

Table(O, H) ==
    /\ O = [o \in Objs |-> O[o]] /\ \A o \in Objs : IsObj(O[o])
    /\ H = [id \in Ids |-> H[id]] /\ \A id \in Ids : IsStruct(H[id])

Users(O, id) == {o \in Objs : O[o].id = id}

\* The objects O and the structures H agree.
Counted(O, H) ==
    /\ Table(O, H)
    /\ \A o \in Objs : IF HasStruct(O[o]) THEN O[o].id \in Ids /\ H[O[o].id].kind = O[o].rep
                                          ELSE O[o].id = NoId
    /\ \A id \in Ids : /\ H[id].refs = Cardinality(Users(O, id))
                       /\ (H[id].kind = "free") <=> (Users(O, id) = {})

State(O, H) == [obj |-> O, heap |-> H]

\* An object, and a structure, by their parts.
Ob(a, b, c, d) == [rep |-> a, id |-> b, list |-> c, text |-> d]
Sr(a, b, c, d) == [kind |-> a, refs |-> b, cr |-> c, canon |-> d]

-----------------------------------------------------------------------------
(* What the objects say                                                    *)

\* Ranges of code points, and a content that is no failure.
Good(cr) == cr \in Seq(Ranged) /\ Within(cr, 0, UniMax)
IsContent(c) == \E form \in {"ranges", "alts"}, cr \in Seq(Ranged) : c = [form |-> form, cr |-> cr]

\* What is behind an object, with the structures H, and what it says to a script.
ContentAt(ob, H) ==
    CASE ob.rep = "list" -> ob.list
      [] ob.rep = "scr"  -> RangesOf(H[ob.id].cr)
      [] ob.rep = "asbr" -> [form |-> "alts", cr |-> H[ob.id].cr]
      [] OTHER -> ob.text
Says(ob, H) == IF ob.rep # "free" THEN Meaning(ContentAt(ob, H)) ELSE Nothing

\* A structure in use has ranges of code points, in order if it says so.
StructSane(w) == w.kind # "free" => Good(w.cr) /\ (w.canon => Apart(w.cr, Len(w.cr)))
HeapSane(H) == \A id \in Ids : StructSane(H[id])

\* An object has something to say, and does not contradict itself.
ObjSane(ob, H) ==
    /\ ob.rep \in {"free", "none", "list", "scr", "asbr"}
    /\ ob.rep = "free" => ob.text = NoText
    /\ ob.rep = "none" => ob.text # NoText
    /\ ob.rep = "list" => IsContent(ob.list)
    /\ ob.text # NoText => IsContent(ob.text) /\ Meaning(ob.text) = Meaning(ContentAt(ob, H))

Sane(O, H) == HeapSane(H) /\ \A o \in Objs : ObjSane(O[o], H)

\* The inductive invariant, of the objects O and the structures H.
Right(O, H) == Counted(O, H) /\ Sane(O, H)

\* An object says with the structures G what it said with H.
Keeps(ob, H, G) == ObjSane(ob, G) /\ Says(ob, G) = Says(ob, H)

\* All objects say what they said; or all but r, which now says m.
Same(O, H, P, G) == \A p \in Objs : Says(P[p], G) = Says(O[p], H)
Gives(O, H, P, G, r, m) == \A p \in Objs : Says(P[p], G) = IF p = r THEN m ELSE Says(O[p], H)

ClassMeaning(points) == [kind |-> "class", points |-> points]
AltsMeaning(points) == [kind |-> IF points = {} THEN "class" ELSE "alts", points |-> points]

LEMMA ContentForm ==
    ASSUME NEW form, NEW cr
    PROVE  LET c == [form |-> form, cr |-> cr] IN c.form = form /\ c.cr = cr
OBVIOUS

LEMMA GoodReadable == ASSUME NEW cr, Good(cr) PROVE Readable(RangesOf(cr))
<1>1. UniMax \in Int
  BY ClassAssumption DEF ClassAssumption
<1>2. ASSUME NEW k \in 1 .. Len(cr)
      PROVE  cr[k].start \in 0 .. UniMax /\ cr[k].end \in 0 .. UniMax /\ cr[k].start <= cr[k].end
  <2>1. cr[k].start \in Int /\ cr[k].end \in Int
    BY RangedAt DEF Good
  <2>2. 0 <= cr[k].start /\ cr[k].start <= cr[k].end /\ cr[k].end <= UniMax
    BY DEF Good, Within
  <2> QED BY <1>1, <2>1, <2>2
<1>3. RangesOf(cr).form = "ranges" /\ RangesOf(cr).cr = cr
  BY DEF RangesOf
<1> QED BY <1>2, <1>3 DEF Readable

LEMMA StructMeaning ==
    ASSUME NEW cr, Good(cr)
    PROVE  /\ Meaning(RangesOf(cr)) = ClassMeaning(Points(cr))
           /\ Meaning([form |-> "alts", cr |-> cr]) = AltsMeaning(Points(cr))
<1>1. Readable(RangesOf(cr))
  BY GoodReadable
<1>2. RangesOf(cr).form = "ranges" /\ RangesOf(cr).cr = cr
  BY DEF RangesOf
<1>3. Meaning(RangesOf(cr)) = ClassMeaning(Points(cr))
  BY <1>1, <1>2 DEF Meaning, ClassMeaning
<1>4. Points(cr) = {} <=> cr = << >>
  BY NoPoints, ClassAssumption DEF ClassAssumption, Good
<1> DEFINE c == [form |-> "alts", cr |-> cr]
<1>5. c.form = "alts" /\ c.cr = cr
  OBVIOUS
<1> HIDE DEF c
<1>6. Meaning(c) = AltsMeaning(Points(cr))
  <2>1. CASE cr = << >>
    <3>1. Readable(c)
      BY <1>5, <2>1 DEF Readable
    <3>2. Meaning(c) = [kind |-> "class", points |-> Points(cr)]
      BY <1>5, <2>1, <3>1 DEF Meaning
    <3> QED BY <1>4, <2>1, <3>2 DEF AltsMeaning
  <2>2. CASE cr # << >>
    <3>1. Meaning(c) = [kind |-> "alts", points |-> Points(cr)]
      BY <1>5, <2>2 DEF Meaning
    <3> QED BY <1>4, <2>2, <3>1 DEF AltsMeaning
  <2> QED BY <2>1, <2>2
<1> QED BY <1>3, <1>6 DEF c

\* A content that can be read as a class is one.
LEMMA ReadableMeans ==
    ASSUME NEW c, IsContent(c)
    PROVE  /\ Readable(c) <=> Meaning(c).kind = "class"
           /\ Readable(c) => Good(c.cr) /\ Meaning(c) = ClassMeaning(Points(c.cr))
           /\ Meaning(c) # Nothing /\ c # NoText
<1>1. PICK form \in {"ranges", "alts"}, cr \in Seq(Ranged) : c = [form |-> form, cr |-> cr]
  BY DEF IsContent
<1>2. c.form = form /\ c.cr = cr
  BY <1>1
<1>3. c # NoText
  BY <1>2 DEF NoText
<1>4. CASE c.form = "alts" /\ c.cr # << >>
  <2>1. ~Readable(c)
    BY <1>4 DEF Readable
  <2>2. Meaning(c) = [kind |-> "alts", points |-> Points(c.cr)]
    BY <1>4 DEF Meaning
  <2>3. Meaning(c).kind = "alts"
    BY <2>2
  <2> QED BY <1>3, <2>1, <2>3 DEF Nothing
<1>5. CASE ~(c.form = "alts" /\ c.cr # << >>) /\ Readable(c)
  <2>1. Meaning(c) = ClassMeaning(Points(c.cr))
    BY <1>5 DEF Meaning, ClassMeaning
  <2>2. Meaning(c).kind = "class"
    BY <2>1 DEF ClassMeaning
  <2>3. Good(c.cr)
    <3>1. CASE form = "alts"
      BY <1>1, <1>2, <1>5, <3>1 DEF Good, Within
    <3>2. CASE form = "ranges"
      <4>1. \A k \in 1 .. Len(cr) : /\ cr[k].start \in 0 .. UniMax /\ cr[k].end \in 0 .. UniMax
                                    /\ cr[k].start <= cr[k].end
        BY <1>2, <1>5, <3>2 DEF Readable
      <4>2. Within(cr, 0, UniMax)
        BY <4>1, ClassAssumption DEF Within, ClassAssumption
      <4> QED BY <1>2, <4>2 DEF Good
    <3> QED BY <3>1, <3>2
  <2> QED BY <1>3, <1>5, <2>1, <2>2, <2>3 DEF Nothing
<1>6. CASE ~(c.form = "alts" /\ c.cr # << >>) /\ ~Readable(c)
  <2>1. Meaning(c) = [kind |-> "junk", points |-> {}]
    BY <1>6 DEF Meaning
  <2>2. Meaning(c).kind = "junk"
    BY <2>1
  <2> QED BY <1>3, <1>6, <2>2 DEF Nothing
<1> QED BY <1>4, <1>5, <1>6

\* A structure may change under an object as long as it has the same code points.
LEMMA ObjectKeeps ==
    ASSUME NEW H, NEW G, HeapSane(H), HeapSane(G), NEW ob, ObjSane(ob, H),
           HasStruct(ob) => /\ ob.id \in Ids /\ H[ob.id].kind # "free" /\ G[ob.id].kind # "free"
                            /\ Points(G[ob.id].cr) = Points(H[ob.id].cr)
    PROVE  Keeps(ob, H, G)
<1>1. Meaning(ContentAt(ob, G)) = Meaning(ContentAt(ob, H))
  <2>1. CASE HasStruct(ob)
    <3> DEFINE a == H[ob.id].cr
               b == G[ob.id].cr
    <3>1. Good(a) /\ Good(b) /\ Points(a) = Points(b)
      BY <2>1 DEF HeapSane, StructSane
    <3> HIDE DEF a, b
    <3>2. /\ Meaning(RangesOf(a)) = Meaning(RangesOf(b))
          /\ Meaning([form |-> "alts", cr |-> a]) = Meaning([form |-> "alts", cr |-> b])
      BY <3>1, StructMeaning
    <3>3. CASE ob.rep = "scr"
      <4>1. ContentAt(ob, H) = RangesOf(a) /\ ContentAt(ob, G) = RangesOf(b)
        BY <3>3 DEF ContentAt, a, b
      <4> QED BY <3>2, <4>1
    <3>4. CASE ob.rep = "asbr"
      <4>1. /\ ContentAt(ob, H) = [form |-> "alts", cr |-> a]
            /\ ContentAt(ob, G) = [form |-> "alts", cr |-> b]
        BY <3>4 DEF ContentAt, a, b
      <4> QED BY <3>2, <4>1
    <3> QED BY <2>1, <3>3, <3>4 DEF HasStruct
  <2>2. CASE ~HasStruct(ob)
    <3>1. ob.rep # "scr" /\ ob.rep # "asbr"
      BY <2>2 DEF HasStruct
    <3>2. ContentAt(ob, G) = ContentAt(ob, H)
      BY <3>1 DEF ContentAt
    <3> QED BY <3>2
  <2> QED BY <2>1, <2>2
<1> QED BY <1>1 DEF Keeps, ObjSane, Says

\* One object changes, and the others say what they said.
LEMMA OthersKeep ==
    ASSUME NEW O, NEW H, NEW G, Table(O, H), HeapSane(G), NEW o \in Objs, NEW v, ObjSane(v, G),
           \A p \in Objs \ {o} : Keeps(O[p], H, G)
    PROVE  /\ Sane([O EXCEPT ![o] = v], G)
           /\ Gives(O, H, [O EXCEPT ![o] = v], G, o, Says(v, G))
           /\ Says(v, G) = Says(O[o], H) => Same(O, H, [O EXCEPT ![o] = v], G)
<1> DEFINE P == [O EXCEPT ![o] = v]
<1>1. P[o] = v /\ \A p \in Objs \ {o} : P[p] = O[p]
  BY DEF Table
<1> HIDE DEF P
<1>2. Sane(P, G)
  BY <1>1 DEF Sane, Keeps
<1>3. \A p \in Objs \ {o} : Says(P[p], G) = Says(O[p], H)
  BY <1>1 DEF Keeps
<1>4. Gives(O, H, P, G, o, Says(v, G))
  BY <1>1, <1>3 DEF Gives
<1>5. Says(v, G) = Says(O[o], H) => Same(O, H, P, G)
  BY <1>1, <1>3 DEF Same
<1> QED BY <1>2, <1>4, <1>5 DEF P

-----------------------------------------------------------------------------
(* The changes                                                             *)

LEMMA UsersFinite ==
    ASSUME NEW O, NEW id
    PROVE  /\ IsFiniteSet(Users(O, id))
           /\ Cardinality(Users(O, id)) \in Nat
           /\ Cardinality(Users(O, id)) = 0 <=> Users(O, id) = {}
<1>1. Users(O, id) \in SUBSET Objs
  BY DEF Users
<1>2. IsFiniteSet(Users(O, id))
  BY <1>1, IdsAssumption, FS_Subset DEF IdsAssumption
<1> QED BY <1>2, FS_CardinalityType, FS_EmptySet

LEMMA TableSet ==
    ASSUME NEW O, NEW H, Table(O, H), NEW o \in Objs, NEW v, IsObj(v)
    PROVE  /\ Table([O EXCEPT ![o] = v], H)
           /\ [O EXCEPT ![o] = v][o] = v
           /\ \A p \in Objs \ {o} : [O EXCEPT ![o] = v][p] = O[p]
BY DEF Table

LEMMA HeapSet ==
    ASSUME NEW O, NEW H, Table(O, H), NEW id \in Ids, NEW w, IsStruct(w)
    PROVE  /\ Table(O, [H EXCEPT ![id] = w])
           /\ [H EXCEPT ![id] = w][id] = w
           /\ \A k \in Ids \ {id} : [H EXCEPT ![id] = w][k] = H[k]
BY DEF Table

\* An object changes, and keeps what it refers to.
LEMMA ObjectChanges ==
    ASSUME NEW O, NEW H, Counted(O, H), NEW o \in Objs, NEW v, IsObj(v), v.id = O[o].id,
           v.rep = O[o].rep \/ (~HasStruct(O[o]) /\ ~HasStruct(v))
    PROVE  Counted([O EXCEPT ![o] = v], H)
<1> DEFINE N == [O EXCEPT ![o] = v]
<1>1. Table(N, H) /\ N[o] = v /\ \A p \in Objs \ {o} : N[p] = O[p]
  BY TableSet DEF Counted
<1>2. \A id \in Ids : Users(N, id) = Users(O, id)
  BY <1>1 DEF Users
<1>3. \A p \in Objs : IF HasStruct(N[p]) THEN N[p].id \in Ids /\ H[N[p].id].kind = N[p].rep
                                         ELSE N[p].id = NoId
  BY <1>1 DEF Counted, HasStruct
<1> QED BY <1>1, <1>2, <1>3 DEF Counted

\* A structure changes, and keeps its kind and its count.
LEMMA StructChanges ==
    ASSUME NEW O, NEW H, Counted(O, H), NEW id \in Ids, NEW w, IsStruct(w),
           w.kind = H[id].kind, w.refs = H[id].refs
    PROVE  Counted(O, [H EXCEPT ![id] = w])
<1> DEFINE N == [H EXCEPT ![id] = w]
<1>1. Table(O, N) /\ N[id] = w /\ \A k \in Ids \ {id} : N[k] = H[k]
  BY HeapSet DEF Counted
<1> QED BY <1>1 DEF Counted

\* An object comes to a structure, an old or a new one.
LEMMA ObjectComes ==
    ASSUME NEW O, NEW H, Counted(O, H), NEW o \in Objs, ~HasStruct(O[o]), NEW id \in Ids,
           NEW v, IsObj(v), HasStruct(v), v.id = id,
           NEW w, IsStruct(w), w.kind = v.rep, w.refs = H[id].refs + 1,
           H[id].kind \in {"free", v.rep}
    PROVE  Counted([O EXCEPT ![o] = v], [H EXCEPT ![id] = w])
<1> DEFINE N == [O EXCEPT ![o] = v]
           G == [H EXCEPT ![id] = w]
<1>1. Table(N, H) /\ N[o] = v /\ \A p \in Objs \ {o} : N[p] = O[p]
  BY TableSet DEF Counted
<1>2. Table(N, G) /\ G[id] = w /\ \A k \in Ids \ {id} : G[k] = H[k]
  BY <1>1, HeapSet
<1>3. O[o].id = NoId /\ NoId \notin Ids
  BY IdsAssumption DEF Counted, IdsAssumption, NoId
<1>4. Users(N, id) = Users(O, id) \cup {o} /\ o \notin Users(O, id)
  BY <1>1, <1>3 DEF Users
<1>5. \A k \in Ids \ {id} : Users(N, k) = Users(O, k)
  BY <1>1, <1>3 DEF Users
<1>6. Cardinality(Users(N, id)) = Cardinality(Users(O, id)) + 1
  <2> HIDE DEF N
  <2>1. IsFiniteSet(Users(O, id))
    BY UsersFinite
  <2>2. Cardinality(Users(O, id) \cup {o}) = Cardinality(Users(O, id)) + 1
    <3> DEFINE U == Users(O, id)
    <3>1. IsFiniteSet(U) /\ o \notin U
      BY <1>4, <2>1
    <3> HIDE DEF U
    <3>2. Cardinality(U \cup {o}) = Cardinality(U) + 1
      BY <3>1, FS_AddElement
    <3> QED BY <3>2 DEF U
  <2> QED BY <1>4, <2>2
<1>7. \A k \in Ids : G[k].refs = Cardinality(Users(N, k))
  BY <1>2, <1>5, <1>6 DEF Counted
<1>8. \A k \in Ids : (G[k].kind = "free") <=> (Users(N, k) = {})
  <2>1. w.kind # "free" /\ Users(N, id) # {}
    BY <1>4 DEF HasStruct
  <2>2. \A k \in Ids \ {id} : (H[k].kind = "free") <=> (Users(O, k) = {})
    BY DEF Counted
  <2> HIDE DEF N, G
  <2> QED BY <1>2, <1>5, <2>1, <2>2
<1>9. \A p \in Objs : IF HasStruct(N[p]) THEN N[p].id \in Ids /\ G[N[p].id].kind = N[p].rep
                                         ELSE N[p].id = NoId
  <2> SUFFICES ASSUME NEW p \in Objs
               PROVE  IF HasStruct(N[p]) THEN N[p].id \in Ids /\ G[N[p].id].kind = N[p].rep
                                         ELSE N[p].id = NoId
    OBVIOUS
  <2>1. CASE p = o
    BY <1>1, <1>2, <2>1
  <2>2. CASE p # o /\ O[p].id # id
    BY <1>1, <1>2, <2>2 DEF Counted
  <2>3. CASE p # o /\ O[p].id = id
    <3>1. p \in Users(O, id)
      BY <2>3 DEF Users
    <3>2. H[id].kind # "free"
      BY <3>1 DEF Counted
    <3> QED BY <1>1, <1>2, <2>3, <3>2 DEF Counted
  <2> QED BY <2>1, <2>2, <2>3
<1> QED BY <1>2, <1>7, <1>8, <1>9 DEF Counted

\* What is left of a structure when an object leaves it.
LEMMA LeftIs ==
    ASSUME NEW w, IsStruct(w)
    PROVE  /\ IsStruct(Left(w))
           /\ w.refs - 1 > 0 => /\ Left(w).kind = w.kind /\ Left(w).refs = w.refs - 1
                                /\ Left(w).cr = w.cr /\ Left(w).canon = w.canon
           /\ ~(w.refs - 1 > 0) => Left(w).kind = "free" /\ Left(w).refs = 0
<1>1. \A a, b, c, d : [[kind |-> a, refs |-> b, cr |-> c, canon |-> d] EXCEPT !.refs = b - 1]
                         = [kind |-> a, refs |-> b - 1, cr |-> c, canon |-> d]
  OBVIOUS
<1>2. [w EXCEPT !.refs = @ - 1]
        = [kind |-> w.kind, refs |-> w.refs - 1, cr |-> w.cr, canon |-> w.canon]
  BY <1>1 DEF IsStruct
<1>3. CASE w.refs - 1 > 0
  BY <1>2, <1>3 DEF Left, IsStruct
<1>4. CASE ~(w.refs - 1 > 0)
  BY <1>4 DEF Left, IsStruct, NoStruct
<1> QED BY <1>3, <1>4

LEMMA ObjectLeaves ==
    ASSUME NEW O, NEW H, Counted(O, H), NEW o \in Objs, HasStruct(O[o]),
           NEW v, IsObj(v), ~HasStruct(v), v.id = NoId
    PROVE  Counted([O EXCEPT ![o] = v], [H EXCEPT ![O[o].id] = Left(H[O[o].id])])
<1> DEFINE id == O[o].id
           N == [O EXCEPT ![o] = v]
           G == [H EXCEPT ![id] = Left(H[id])]
<1>1. id \in Ids /\ IsStruct(H[id]) /\ IsStruct(Left(H[id])) /\ NoId \notin Ids
  BY LeftIs, IdsAssumption DEF Counted, Table, IdsAssumption, NoId
<1> HIDE DEF id
<1>2. Table(N, H) /\ N[o] = v /\ \A p \in Objs \ {o} : N[p] = O[p]
  BY TableSet DEF Counted
<1>3. Table(N, G) /\ G[id] = Left(H[id]) /\ \A k \in Ids \ {id} : G[k] = H[k]
  BY <1>1, <1>2, HeapSet
<1>4. Users(N, id) = Users(O, id) \ {o} /\ o \in Users(O, id)
  BY <1>1, <1>2 DEF Users, id
<1>5. \A k \in Ids \ {id} : Users(N, k) = Users(O, k)
  BY <1>1, <1>2 DEF Users, id
<1>6. Cardinality(Users(N, id)) = Cardinality(Users(O, id)) - 1
  BY <1>4, UsersFinite, FS_RemoveElement
<1>7. H[id].refs = Cardinality(Users(O, id)) /\ Cardinality(Users(O, id)) \in Nat
      /\ Cardinality(Users(N, id)) \in Nat /\ H[id].kind # "free"
  BY <1>1, <1>4, UsersFinite DEF Counted
<1>8. G[id].refs = Cardinality(Users(N, id)) /\ ((G[id].kind = "free") <=> (Users(N, id) = {}))
  <2>1. Cardinality(Users(N, id)) = H[id].refs - 1
    BY <1>6, <1>7
  <2>2. (Users(N, id) = {}) <=> (Cardinality(Users(N, id)) = 0)
    BY UsersFinite
  <2> HIDE DEF N, G
  <2>3. CASE H[id].refs - 1 > 0
    <3>1. G[id].kind = H[id].kind /\ G[id].refs = H[id].refs - 1
      BY <1>1, <1>3, <2>3, LeftIs
    <3> QED BY <1>7, <2>1, <2>2, <2>3, <3>1
  <2>4. CASE ~(H[id].refs - 1 > 0)
    <3>1. G[id].kind = "free" /\ G[id].refs = 0
      BY <1>1, <1>3, <2>4, LeftIs
    <3>2. Cardinality(Users(N, id)) = 0
      BY <1>7, <2>1, <2>4
    <3> QED BY <2>2, <3>1, <3>2
  <2> QED BY <2>3, <2>4
<1>9. \A k \in Ids : /\ G[k].refs = Cardinality(Users(N, k))
                     /\ (G[k].kind = "free") <=> (Users(N, k) = {})
  BY <1>3, <1>5, <1>8 DEF Counted
<1>10. \A p \in Objs : IF HasStruct(N[p]) THEN N[p].id \in Ids /\ G[N[p].id].kind = N[p].rep
                                          ELSE N[p].id = NoId
  <2> SUFFICES ASSUME NEW p \in Objs
               PROVE  IF HasStruct(N[p]) THEN N[p].id \in Ids /\ G[N[p].id].kind = N[p].rep
                                         ELSE N[p].id = NoId
    OBVIOUS
  <2>1. CASE p = o
    BY <1>2, <2>1
  <2>2. CASE p # o /\ O[p].id # id
    BY <1>2, <1>3, <2>2 DEF Counted
  <2>3. CASE p # o /\ O[p].id = id
    <3>1. p \in Users(N, id)
      BY <1>2, <2>3 DEF Users
    <3>2. G[id].kind # "free"
      BY <1>8, <3>1
    <3>3. G[id].kind = H[id].kind
      BY <1>1, <1>3, <3>2, LeftIs
    <3> QED BY <1>1, <1>2, <2>3, <3>3 DEF Counted
  <2> QED BY <2>1, <2>2, <2>3
<1>11. Counted(N, G)
  <2> HIDE DEF N, G
  <2> QED BY <1>3, <1>9, <1>10 DEF Counted
<1> QED BY <1>11 DEF id

\* There is memory for a structure as long as an object has none.
LEMMA RoomForStruct ==
    ASSUME NEW O, NEW H, Counted(O, H), NEW o \in Objs, ~HasStruct(O[o])
    PROVE  \E id \in Ids : H[id].kind = "free"
<1> SUFFICES ASSUME \A id \in Ids : H[id].kind # "free" PROVE FALSE
  OBVIOUS
<1> DEFINE f == [id \in Ids |-> CHOOSE p \in Objs : O[p].id = id]
<1>1. \A id \in Ids : \E p \in Objs : O[p].id = id
  <2> TAKE id \in Ids
  <2>1. Users(O, id) # {}
    BY DEF Counted
  <2> QED BY <2>1 DEF Users
<1>2. \A id \in Ids : f[id] \in Objs /\ O[f[id]].id = id
  BY <1>1
<1>3. O[o].id \notin Ids
  BY IdsAssumption DEF Counted, IdsAssumption, NoId
<1>4. f \in [Ids -> Objs \ {o}]
  BY <1>2, <1>3
<1>5. IsFiniteSet(Objs) /\ IsFiniteSet(Ids) /\ Cardinality(Ids) >= Cardinality(Objs)
      /\ Cardinality(Ids) \in Nat /\ Cardinality(Objs) \in Nat
  BY IdsAssumption, FS_CardinalityType DEF IdsAssumption
<1>6. IsFiniteSet(Objs \ {o}) /\ Cardinality(Objs \ {o}) = Cardinality(Objs) - 1
  BY <1>5, FS_RemoveElement
<1>7. Cardinality(Objs \ {o}) < Cardinality(Ids)
  BY <1>5, <1>6
<1> HIDE DEF f
<1>8. \E x, y \in Ids : x # y /\ f[x] = f[y]
  BY <1>4, <1>5, <1>6, <1>7, FS_PigeonHole
<1> QED BY <1>2, <1>8

-----------------------------------------------------------------------------
(* The calls                                                               *)

LEMMA StateIs == ASSUME NEW O, NEW H PROVE State(O, H).obj = O /\ State(O, H).heap = H
BY DEF State

LEMMA ObIs ==
    ASSUME NEW a, NEW b, NEW c, NEW d
    PROVE  /\ IsObj(Ob(a, b, c, d)) /\ (HasStruct(Ob(a, b, c, d)) <=> a \in {"scr", "asbr"})
           /\ Ob(a, b, c, d).rep = a /\ Ob(a, b, c, d).id = b
           /\ Ob(a, b, c, d).list = c /\ Ob(a, b, c, d).text = d
BY DEF Ob, IsObj, HasStruct

LEMMA SrIs ==
    ASSUME NEW a, NEW b, NEW c, NEW d
    PROVE  /\ IsStruct(Sr(a, b, c, d))
           /\ Sr(a, b, c, d).kind = a /\ Sr(a, b, c, d).refs = b
           /\ Sr(a, b, c, d).cr = c /\ Sr(a, b, c, d).canon = d
BY DEF Sr, IsStruct

\* What the assignments to an object, and to its parts, do to the state.
LEMMA ObjectPut ==
    ASSUME NEW O, NEW H, NEW o, NEW x
    PROVE  [State(O, H) EXCEPT !.obj[o] = x] = State([O EXCEPT ![o] = x], H)
BY DEF State

LEMMA ObjectText ==
    ASSUME NEW O, NEW H, Table(O, H), NEW o \in Objs, NEW x
    PROVE  [State(O, H) EXCEPT !.obj[o].text = x]
             = State([O EXCEPT ![o] = Ob(O[o].rep, O[o].id, O[o].list, x)], H)
<1>1. \A a, b, c, d : [Ob(a, b, c, d) EXCEPT !.text = x] = Ob(a, b, c, x)
  BY DEF Ob
<1>2. O[o] = Ob(O[o].rep, O[o].id, O[o].list, O[o].text)
  BY DEF Table, IsObj, Ob
<1>3. [O[o] EXCEPT !.text = x] = Ob(O[o].rep, O[o].id, O[o].list, x)
  BY <1>1, <1>2
<1>4. [O EXCEPT ![o].text = x] = [O EXCEPT ![o] = [O[o] EXCEPT !.text = x]]
  BY DEF Table
<1>5. [State(O, H) EXCEPT !.obj[o].text = x] = State([O EXCEPT ![o].text = x], H)
  BY DEF State
<1> QED BY <1>3, <1>4, <1>5

LEMMA AtStructIs ==
    ASSUME NEW ob, IsObj(ob), NEW x, NEW y
    PROVE  AtStruct(ob, x, y) = Ob(x, y, ob.list, ob.text)
<1> DEFINE z == [ob EXCEPT !.rep = x]
<1>1. \A a, b, c, d : [Ob(a, b, c, d) EXCEPT !.rep = x] = Ob(x, b, c, d)
  BY DEF Ob
<1>2. \A a, b, c, d : [Ob(a, b, c, d) EXCEPT !.id = y] = Ob(a, y, c, d)
  BY DEF Ob
<1>3. ob = Ob(ob.rep, ob.id, ob.list, ob.text)
  BY DEF IsObj, Ob
<1>4. z = Ob(x, ob.id, ob.list, ob.text)
  BY <1>1, <1>3
<1>5. AtStruct(ob, x, y) = [z EXCEPT !.id = y]
  BY DEF AtStruct
<1> HIDE DEF z
<1> QED BY <1>2, <1>4, <1>5

LEMMA AtListIs ==
    ASSUME NEW ob, IsObj(ob), NEW x, NEW y
    PROVE  AtList(ob, x, y) = Ob(x, ob.id, y, ob.text)
<1> DEFINE z == [ob EXCEPT !.rep = x]
<1>1. \A a, b, c, d : [Ob(a, b, c, d) EXCEPT !.rep = x] = Ob(x, b, c, d)
  BY DEF Ob
<1>2. \A a, b, c, d : [Ob(a, b, c, d) EXCEPT !.list = y] = Ob(a, b, y, d)
  BY DEF Ob
<1>3. ob = Ob(ob.rep, ob.id, ob.list, ob.text)
  BY DEF IsObj, Ob
<1>4. z = Ob(x, ob.id, ob.list, ob.text)
  BY <1>1, <1>3
<1>5. AtList(ob, x, y) = [z EXCEPT !.list = y]
  BY DEF AtList
<1> HIDE DEF z
<1> QED BY <1>2, <1>4, <1>5

\* And those to a structure.
LEMMA StructPut ==
    ASSUME NEW O, NEW H, NEW id, NEW x
    PROVE  [State(O, H) EXCEPT !.heap[id] = x] = State(O, [H EXCEPT ![id] = x])
BY DEF State

LEMMA StructRefs ==
    ASSUME NEW O, NEW H, Table(O, H), NEW id \in Ids, NEW x
    PROVE  [State(O, H) EXCEPT !.heap[id].refs = x]
             = State(O, [H EXCEPT ![id] = Sr(H[id].kind, x, H[id].cr, H[id].canon)])
<1>1. \A a, b, c, d : [Sr(a, b, c, d) EXCEPT !.refs = x] = Sr(a, x, c, d)
  BY DEF Sr
<1>2. H[id] = Sr(H[id].kind, H[id].refs, H[id].cr, H[id].canon)
  BY DEF Table, IsStruct, Sr
<1>3. [H[id] EXCEPT !.refs = x] = Sr(H[id].kind, x, H[id].cr, H[id].canon)
  BY <1>1, <1>2
<1>4. [H EXCEPT ![id].refs = x] = [H EXCEPT ![id] = [H[id] EXCEPT !.refs = x]]
  BY DEF Table
<1>5. [State(O, H) EXCEPT !.heap[id].refs = x] = State(O, [H EXCEPT ![id].refs = x])
  BY DEF State
<1> QED BY <1>3, <1>4, <1>5

LEMMA InOrderIs ==
    ASSUME NEW w, IsStruct(w)
    PROVE  /\ IsStruct(InOrder(w)) /\ InOrder(w).kind = w.kind /\ InOrder(w).refs = w.refs
           /\ InOrder(w).cr = Normalized(w.cr)
<1> DEFINE x == Normalized(w.cr)
           z == [w EXCEPT !.cr = x]
           yes == TRUE
<1>1. \A a, b, c, d : [Sr(a, b, c, d) EXCEPT !.cr = x] = Sr(a, b, x, d)
  BY DEF Sr
<1>2. \A a, b, c, d, e : [Sr(a, b, c, d) EXCEPT !.canon = e] = Sr(a, b, c, e)
  BY DEF Sr
<1>3. w = Sr(w.kind, w.refs, w.cr, w.canon)
  BY DEF IsStruct, Sr
<1> HIDE DEF x
<1>4. z = Sr(w.kind, w.refs, x, w.canon)
  BY <1>1, <1>3
<1>5. InOrder(w) = [z EXCEPT !.canon = yes]
  BY DEF InOrder, x
<1> HIDE DEF z, yes
<1>6. InOrder(w) = Sr(w.kind, w.refs, x, yes)
  BY <1>2, <1>4, <1>5
<1> QED BY <1>6, SrIs DEF x

\* marpatcl_scr_norm, in place: all who share the structure keep their code points.
LEMMA NormedKeeps ==
    ASSUME NEW O, NEW H, Right(O, H), NEW id \in Ids, H[id].kind # "free"
    PROVE  \E G : /\ Normed(State(O, H), id) = State(O, G) /\ Right(O, G)
                  /\ \A o \in Objs : Keeps(O[o], H, G)
                  /\ G[id].kind = H[id].kind /\ Points(G[id].cr) = Points(H[id].cr)
                  /\ Good(G[id].cr) /\ Apart(G[id].cr, Len(G[id].cr))
<1> DEFINE w == InOrder(H[id])
           cr == H[id].cr
<1>1. Counted(O, H) /\ HeapSane(H) /\ \A o \in Objs : ObjSane(O[o], H)
  BY DEF Right, Sane
<1>2. Good(cr) /\ UniMax \in Int
  BY <1>1, ClassAssumption DEF HeapSane, StructSane, ClassAssumption
<1>3. CASE H[id].canon
  <2>1. Normed(State(O, H), id) = State(O, H)
    BY <1>3, StateIs DEF Normed
  <2>2. Apart(cr, Len(cr))
    BY <1>1, <1>3 DEF HeapSane, StructSane
  <2> QED BY <1>1, <1>2, <2>1, <2>2 DEF Keeps
<1>4. CASE ~H[id].canon
  <2>1. Normed(State(O, H), id) = [State(O, H) EXCEPT !.heap[id] = w]
    BY <1>4, StateIs DEF Normed
  <2>2. IsStruct(w) /\ w.kind = H[id].kind /\ w.refs = H[id].refs /\ w.cr = Normalized(cr)
    BY <1>1, InOrderIs DEF Counted, Table
  <2>3. Good(w.cr) /\ Apart(w.cr, Len(w.cr)) /\ Points(w.cr) = Points(cr)
    BY <1>2, <2>2, NormalizedFacts, NormalizedPoints DEF Good
  <2> DEFINE G == [H EXCEPT ![id] = w]
  <2> HIDE DEF w, cr
  <2>4. Normed(State(O, H), id) = State(O, G)
    BY <2>1, StructPut
  <2>5. Counted(O, G)
    BY <1>1, <2>2, StructChanges
  <2>6. G[id] = w /\ \A k \in Ids \ {id} : G[k] = H[k]
    <3>1. Table(O, H)
      BY <1>1 DEF Counted
    <3> QED BY <3>1 DEF Table
  <2> HIDE DEF G
  <2>7. HeapSane(G)
    BY <1>1, <2>3, <2>6 DEF HeapSane, StructSane
  <2>8. ASSUME NEW o \in Objs PROVE Keeps(O[o], H, G)
    <3>1. ObjSane(O[o], H)
      BY <1>1
    <3>2. HasStruct(O[o]) => /\ O[o].id \in Ids /\ H[O[o].id].kind # "free" /\ G[O[o].id].kind # "free"
      BY <1>1, <2>5 DEF Counted, HasStruct
    <3>3. \A k \in Ids : Points(G[k].cr) = Points(H[k].cr)
      BY <2>3, <2>6 DEF cr
    <3> QED BY <1>1, <2>7, <3>1, <3>2, <3>3, ObjectKeeps
  <2>9. Right(O, G)
    BY <2>5, <2>7, <2>8 DEF Right, Sane, Keeps
  <2> QED BY <2>2, <2>3, <2>4, <2>6, <2>8, <2>9 DEF cr
<1> QED BY <1>3, <1>4

\* An object that keeps away from the one structure that changes its use.
LEMMA StructApart ==
    ASSUME NEW O, NEW H, Right(O, H), NEW G, HeapSane(G), NEW id \in Ids,
           \A k \in Ids \ {id} : G[k] = H[k], NEW p \in Objs,
           HasStruct(O[p]) /\ O[p].id = id => G[id].kind # "free" /\ G[id].cr = H[id].cr
    PROVE  Keeps(O[p], H, G)
<1>1. Counted(O, H) /\ HeapSane(H) /\ ObjSane(O[p], H)
  BY DEF Right, Sane
<1>2. CASE HasStruct(O[p])
  <2>1. O[p].id \in Ids /\ H[O[p].id].kind # "free"
    BY <1>1, <1>2 DEF Counted, HasStruct
  <2>2. G[O[p].id].kind # "free" /\ Points(G[O[p].id].cr) = Points(H[O[p].id].cr)
    BY <1>2, <2>1
  <2> QED BY <1>1, <2>1, <2>2, ObjectKeeps
<1>3. CASE ~HasStruct(O[p])
  BY <1>1, <1>3, ObjectKeeps
<1> QED BY <1>2, <1>3

\* FreeIntRep: an object leaves its structure, if it has one.
LEMMA DroppedKeeps ==
    ASSUME NEW O, NEW H, Right(O, H), NEW o \in Objs
    PROVE  \E v, G : /\ Dropped(State(O, H), o) = State([O EXCEPT ![o] = v], G)
                     /\ Counted([O EXCEPT ![o] = v], G) /\ HeapSane(G)
                     /\ \A p \in Objs \ {o} : Keeps(O[p], H, G)
                     /\ IsObj(v) /\ v.rep = "none" /\ v.text = O[o].text
<1>1. Counted(O, H) /\ Table(O, H) /\ HeapSane(H) /\ \A p \in Objs : ObjSane(O[p], H)
  BY DEF Right, Sane, Counted
<1>2. CASE HasStruct(O[o])
  <2> DEFINE id == O[o].id
             w == Left(H[id])
             G == [H EXCEPT ![id] = w]
             v == Ob("none", NoId, O[o].list, O[o].text)
             N == [O EXCEPT ![o] = v]
  <2>1. id \in Ids /\ IsStruct(H[id])
    BY <1>1, <1>2 DEF Counted, Table
  <2>2. IsStruct(w)
    BY <2>1, LeftIs
  <2>3. Released(State(O, H), id) = [State(O, H) EXCEPT !.heap[id] = w]
    BY StateIs DEF Released
  <2>4. Released(State(O, H), id) = State(O, G)
    <3> HIDE DEF w
    <3>1. [State(O, H) EXCEPT !.heap[id] = w] = State(O, G)
      BY DEF State
    <3> QED BY <2>3, <3>1
  <2>5. Table(O, G) /\ G[id] = w /\ \A k \in Ids \ {id} : G[k] = H[k]
    BY <1>1, <2>1, <2>2, HeapSet
  <2>6. Dropped(State(O, H), o) = [Released(State(O, H), id) EXCEPT !.obj[o] = AtStruct(@, "none", NoId)]
    BY <1>2, StateIs DEF Dropped
  <2>7. IsObj(v) /\ ~HasStruct(v) /\ v.id = NoId /\ v.rep = "none" /\ v.text = O[o].text
    BY ObIs
  <2>8. AtStruct(O[o], "none", NoId) = v
    BY <1>1, AtStructIs DEF Table
  <2> HIDE DEF v
  <2>9. Counted(N, G)
    BY <1>1, <1>2, <2>7, ObjectLeaves
  <2> HIDE DEF G
  <2>10. Dropped(State(O, H), o) = [State(O, G) EXCEPT !.obj[o] = v]
    BY <2>4, <2>6, <2>8, StateIs
  <2>11. Dropped(State(O, H), o) = State(N, G)
    <3>1. [State(O, G) EXCEPT !.obj[o] = v] = State(N, G)
      BY DEF State
    <3> QED BY <2>10, <3>1
  <2>12. \A p \in Objs \ {o} : N[p] = O[p]
    BY <1>1 DEF Table
  <2> HIDE DEF N
  <2>13. w.kind # "free" => w.kind = H[id].kind /\ w.cr = H[id].cr /\ w.canon = H[id].canon
    BY <2>1, LeftIs
  <2>14. HeapSane(G)
    <3> SUFFICES ASSUME NEW k \in Ids PROVE StructSane(G[k])
      BY DEF HeapSane
    <3>1. CASE k = id
      <4>1. StructSane(H[id])
        BY <1>1, <2>1 DEF HeapSane
      <4> HIDE DEF w, id
      <4> QED BY <2>5, <2>13, <3>1, <4>1 DEF StructSane
    <3>2. CASE k # id
      BY <1>1, <2>5, <3>2 DEF HeapSane
    <3> QED BY <3>1, <3>2
  <2>15. ASSUME NEW p \in Objs \ {o} PROVE Keeps(O[p], H, G)
    <3>1. HasStruct(O[p]) /\ O[p].id = id => G[id].kind = O[p].rep /\ O[p].rep # "free"
      BY <2>9, <2>12 DEF Counted, HasStruct
    <3>2. HasStruct(O[p]) /\ O[p].id = id => G[id].kind # "free" /\ G[id].cr = H[id].cr
      BY <2>5, <2>13, <3>1
    <3> HIDE DEF id
    <3> QED BY <2>1, <2>5, <2>14, <3>2, StructApart
  <2> QED BY <2>7, <2>9, <2>11, <2>14, <2>15 DEF N
<1>3. CASE ~HasStruct(O[o])
  <2> DEFINE v == Ob("none", O[o].id, NoText, O[o].text)
  <2>1. AtList(O[o], "none", NoText) = v
    BY <1>1, AtListIs DEF Table
  <2>2. IsObj(v) /\ ~HasStruct(v) /\ v.id = O[o].id /\ v.rep = "none" /\ v.text = O[o].text
    BY ObIs
  <2> HIDE DEF v
  <2>3. Dropped(State(O, H), o) = [State(O, H) EXCEPT !.obj[o] = v]
    BY <1>3, <2>1, StateIs DEF Dropped
  <2>4. Dropped(State(O, H), o) = State([O EXCEPT ![o] = v], H)
    <3>1. [State(O, H) EXCEPT !.obj[o] = v] = State([O EXCEPT ![o] = v], H)
      BY DEF State
    <3> QED BY <2>3, <3>1
  <2>5. Counted([O EXCEPT ![o] = v], H)
    BY <1>1, <1>3, <2>2, ObjectChanges
  <2>6. \A p \in Objs \ {o} : Keeps(O[p], H, H)
    BY <1>1 DEF Keeps
  <2> QED BY <1>1, <2>2, <2>4, <2>5, <2>6
<1> QED BY <1>2, <1>3

\* Tcl_GetString: an object gets the text of what is behind it.
LEMMA WithTextKeeps ==
    ASSUME NEW O, NEW H, Right(O, H), NEW o \in Objs, O[o].rep # "free"
    PROVE  \E v, G : /\ WithText(State(O, H), o) = State([O EXCEPT ![o] = v], G)
                     /\ Right([O EXCEPT ![o] = v], G)
                     /\ Same(O, H, [O EXCEPT ![o] = v], G)
                     /\ IsObj(v) /\ v.rep = O[o].rep /\ v.text # NoText
<1> DEFINE ob == State(O, H).obj[o]
           n  == IF ob.rep = "scr" THEN Normed(State(O, H), ob.id) ELSE State(O, H)
           x == CASE ob.rep = "list" -> ob.list
                  [] ob.rep = "scr"  -> RangesOf(n.heap[ob.id].cr)
                  [] ob.rep = "asbr" -> [form |-> "alts", cr |-> n.heap[ob.id].cr]
           v == Ob(ob.rep, ob.id, ob.list, x)
<1>1. Table(O, H) /\ ob = O[o] /\ Counted(O, H) /\ Sane(O, H)
  BY StateIs DEF Right, Counted
<1>2. CASE ob.text # NoText
  <2>1. WithText(State(O, H), o) = State(O, H)
    BY <1>2 DEF WithText
  <2>2. O = [O EXCEPT ![o] = O[o]] /\ IsObj(O[o])
    BY <1>1 DEF Table
  <2>3. Same(O, H, O, H)
    BY DEF Same
  <2> QED BY <1>1, <1>2, <2>1, <2>2, <2>3
<1>3. CASE ob.text = NoText
  <2>1. WithText(State(O, H), o) = [n EXCEPT !.obj[o].text = x]
    BY <1>3 DEF WithText
  <2>2. PICK G : n = State(O, G) /\ Right(O, G) /\ \A p \in Objs : Keeps(O[p], H, G)
    <3>1. CASE ob.rep = "scr"
      <4>1. ob.id \in Ids /\ H[ob.id].kind # "free"
        BY <1>1, <3>1 DEF Counted, HasStruct
      <4> QED BY <3>1, <4>1, NormedKeeps
    <3>2. CASE ob.rep # "scr"
      BY <1>1, <3>2 DEF Sane, Keeps
    <3> QED BY <3>1, <3>2
  <2>3. Table(O, G) /\ Counted(O, G) /\ HeapSane(G) /\ n.heap = G
    BY <2>2, StateIs DEF Right, Counted, Sane
  <2>4. ob.rep \in {"list", "scr", "asbr"} /\ ObjSane(ob, G)
    BY <1>1, <1>3, <2>2 DEF Sane, ObjSane, Keeps
  <2>5. x = ContentAt(ob, G)
    <3>1. CASE ob.rep = "list"
      BY <3>1 DEF ContentAt
    <3>2. CASE ob.rep = "scr"
      BY <2>3, <3>2 DEF ContentAt
    <3>3. CASE ob.rep = "asbr"
      BY <2>3, <3>3 DEF ContentAt
    <3> QED BY <2>4, <3>1, <3>2, <3>3
  <2>6. IsContent(x)
    <3>1. CASE ob.rep = "list"
      BY <2>4, <3>1 DEF ObjSane
    <3>2. CASE ob.rep # "list"
      <4>1. ob.id \in Ids /\ G[ob.id].kind # "free"
        BY <1>1, <2>3, <2>4, <3>2 DEF Counted, HasStruct
      <4>2. Good(G[ob.id].cr)
        BY <2>3, <4>1 DEF HeapSane, StructSane
      <4>3. ContentAt(ob, G) = RangesOf(G[ob.id].cr)
            \/ ContentAt(ob, G) = [form |-> "alts", cr |-> G[ob.id].cr]
        BY <2>4, <3>2 DEF ContentAt
      <4> QED BY <2>5, <4>2, <4>3 DEF IsContent, RangesOf, Good
    <3> QED BY <3>1, <3>2
  <2>7. x # NoText
    BY <2>6, ReadableMeans
  <2> HIDE DEF n, x, ob
  <2>8. WithText(State(O, H), o) = [State(O, G) EXCEPT !.obj[o].text = x]
    BY <2>1, <2>2
  <2>9. WithText(State(O, H), o) = State([O EXCEPT ![o] = v], G)
    BY <1>1, <2>3, <2>8, ObjectText
  <2>10. IsObj(v) /\ v.rep = ob.rep /\ v.id = ob.id /\ v.list = ob.list /\ v.text = x
    BY ObIs
  <2> HIDE DEF v
  <2>11. Counted([O EXCEPT ![o] = v], G)
    BY <1>1, <2>3, <2>10, ObjectChanges
  <2>12. ContentAt(v, G) = x
    BY <2>4, <2>5, <2>10 DEF ContentAt
  <2>13. ObjSane(v, G) /\ Says(v, G) = Says(ob, G)
    <3>1. v.rep # "free" /\ v.rep # "none" /\ v.rep \in {"list", "scr", "asbr"}
      BY <2>4, <2>10
    <3>2. v.rep = "list" => IsContent(v.list)
      BY <2>4, <2>10 DEF ObjSane
    <3> QED BY <2>4, <2>5, <2>6, <2>10, <2>12, <3>1, <3>2 DEF ObjSane, Says
  <2>14. Says(v, G) = Says(O[o], H)
    BY <1>1, <2>2, <2>13 DEF Keeps
  <2>15. Sane([O EXCEPT ![o] = v], G) /\ Same(O, H, [O EXCEPT ![o] = v], G)
    BY <1>1, <2>2, <2>3, <2>13, <2>14, OthersKeep
  <2> QED BY <1>1, <2>7, <2>9, <2>10, <2>11, <2>15 DEF Right
<1> QED BY <1>2, <1>3

\* What is put twice is there once.
LEMMA PutTwice ==
    ASSUME NEW O, NEW H, Table(O, H), NEW o \in Objs, NEW v, NEW w
    PROVE  [[O EXCEPT ![o] = v] EXCEPT ![o] = w] = [O EXCEPT ![o] = w]
BY DEF Table

\* Tcl_ListObjGetElements makes a list of an object, which then has no structure.
LEMMA AsListKeeps ==
    ASSUME NEW O, NEW H, Right(O, H), NEW o \in Objs, O[o].rep # "free"
    PROVE  \E v, G : /\ AsList(State(O, H), o) = State([O EXCEPT ![o] = v], G)
                     /\ Right([O EXCEPT ![o] = v], G)
                     /\ Same(O, H, [O EXCEPT ![o] = v], G)
                     /\ IsObj(v) /\ v.rep = "list"
<1>1. Table(O, H)
  BY DEF Right, Counted
<1>2. CASE O[o].rep = "list"
  <2>1. AsList(State(O, H), o) = State(O, H)
    BY <1>2, StateIs DEF AsList
  <2>2. O = [O EXCEPT ![o] = O[o]] /\ IsObj(O[o])
    BY <1>1 DEF Table
  <2>3. Same(O, H, O, H)
    BY DEF Same
  <2> QED BY <1>2, <2>1, <2>2, <2>3
<1>3. CASE O[o].rep # "list"
  <2> DEFINE t == WithText(State(O, H), o)
             x == t.obj[o].text
  <2>1. PICK u, F : /\ t = State([O EXCEPT ![o] = u], F)
                    /\ Right([O EXCEPT ![o] = u], F)
                    /\ Same(O, H, [O EXCEPT ![o] = u], F)
                    /\ IsObj(u) /\ u.rep = O[o].rep /\ u.text # NoText
    BY WithTextKeeps
  <2> DEFINE P == [O EXCEPT ![o] = u]
  <2>2. PICK d, G : /\ Dropped(State(P, F), o) = State([P EXCEPT ![o] = d], G)
                    /\ Counted([P EXCEPT ![o] = d], G) /\ HeapSane(G)
                    /\ \A p \in Objs \ {o} : Keeps(P[p], F, G)
                    /\ IsObj(d) /\ d.rep = "none" /\ d.text = P[o].text
    BY <2>1, DroppedKeeps
  <2> DEFINE D == [O EXCEPT ![o] = d]
             v == Ob("list", D[o].id, x, D[o].text)
  <2>3. [P EXCEPT ![o] = d] = D /\ P[o] = u
    BY <1>1, PutTwice DEF Table
  <2>4. AsList(State(O, H), o) = [Dropped(t, o) EXCEPT !.obj[o] = AtList(@, "list", x)]
    BY <1>3, StateIs DEF AsList
  <2> HIDE DEF P
  <2>5. x = u.text
    <3>1. t.obj = P
      BY <2>1, StateIs DEF P
    <3> HIDE DEF t
    <3> QED BY <2>3, <3>1
  <2> HIDE DEF t, x
  <2>6. Dropped(t, o) = State(D, G)
    BY <2>1, <2>2, <2>3 DEF P
  <2>7. Counted(D, G) /\ Table(D, G)
    BY <2>2, <2>3 DEF Counted
  <2>8. D[o] = d
    BY <1>1 DEF Table
  <2>9. AtList(D[o], "list", x) = v
    <3>1. IsObj(D[o])
      BY <2>2, <2>8
    <3> HIDE DEF D
    <3> QED BY <3>1, AtListIs
  <2>10. /\ IsObj(v) /\ v.rep = "list" /\ v.id = D[o].id /\ ~HasStruct(v)
         /\ v.list = x /\ v.text = x
    <3>1. D[o].text = x
      BY <2>2, <2>3, <2>5, <2>8
    <3> QED BY <3>1, ObIs
  <2>11. ~HasStruct(D[o])
    BY <2>2, <2>8 DEF HasStruct
  <2> HIDE DEF v
  <2>12. [D EXCEPT ![o] = v] = [O EXCEPT ![o] = v] /\ [P EXCEPT ![o] = v] = [O EXCEPT ![o] = v]
    BY <1>1, PutTwice DEF P
  <2> HIDE DEF D
  <2>13. AsList(State(O, H), o) = [State(D, G) EXCEPT !.obj[o] = v]
    BY <2>4, <2>6, <2>9, StateIs
  <2>14. AsList(State(O, H), o) = State([D EXCEPT ![o] = v], G)
    <3>1. [State(D, G) EXCEPT !.obj[o] = v] = State([D EXCEPT ![o] = v], G)
      BY ObjectPut
    <3> QED BY <2>13, <3>1
  <2>15. Counted([D EXCEPT ![o] = v], G)
    BY <2>7, <2>10, <2>11, ObjectChanges
  <2>16. ObjSane(u, F) /\ Table(P, F)
    BY <2>1, <2>3 DEF Right, Sane, Counted, P
  <2>17. IsContent(x) /\ Meaning(x) = Meaning(ContentAt(u, F))
    BY <2>1, <2>5, <2>16 DEF ObjSane
  <2>18. ContentAt(v, G) = x
    BY <2>10 DEF ContentAt
  <2>19. ObjSane(v, G) /\ Says(v, G) = Says(P[o], F)
    BY <2>1, <2>3, <2>10, <2>17, <2>18 DEF ObjSane, Says
  <2>20. Sane([P EXCEPT ![o] = v], G) /\ Same(P, F, [P EXCEPT ![o] = v], G)
    BY <2>2, <2>16, <2>19, OthersKeep
  <2>21. Same(O, H, [P EXCEPT ![o] = v], G)
    BY <2>1, <2>20 DEF Same, P
  <2> QED BY <2>10, <2>12, <2>14, <2>15, <2>20, <2>21 DEF Right
<1> QED BY <1>2, <1>3

\* A new structure, with its first reference.
LEMMA MadeIs ==
    ASSUME NEW O, NEW H, Table(O, H), NEW id \in Ids, NEW kind, NEW cr, NEW canon
    PROVE  /\ Made(State(O, H), id, kind, cr, canon).heap[id].kind = kind
           /\ Taken(Made(State(O, H), id, kind, cr, canon), id)
                = State(O, [H EXCEPT ![id] = Sr(kind, 1, cr, canon)])
<1> DEFINE w == Sr(kind, 0, cr, canon)
           u == Sr(kind, 1, cr, canon)
           G == [H EXCEPT ![id] = w]
           m == Made(State(O, H), id, kind, cr, canon)
<1>1. m = [State(O, H) EXCEPT !.heap[id] = w]
  BY DEF Made, Sr
<1>2. m = State(O, G)
  BY <1>1, StructPut
<1>3. IsStruct(w) /\ w.kind = kind /\ w.refs = 0 /\ w.cr = cr /\ w.canon = canon
  BY SrIs
<1> HIDE DEF w, m
<1>4. Table(O, G) /\ G[id] = w
  BY <1>3, HeapSet
<1>5. m.heap = G
  BY <1>2, StateIs
<1> HIDE DEF G
<1>6. m.heap[id].kind = kind /\ m.heap[id].refs + 1 = 1
  BY <1>3, <1>4, <1>5
<1>7. Taken(m, id) = [State(O, G) EXCEPT !.heap[id].refs = 1]
  BY <1>2, <1>6 DEF Taken
<1>8. Taken(m, id) = State(O, [G EXCEPT ![id] = Sr(G[id].kind, 1, G[id].cr, G[id].canon)])
  BY <1>4, <1>7, StructRefs
<1>9. Taken(m, id) = State(O, [G EXCEPT ![id] = u])
  BY <1>3, <1>4, <1>8
<1>10. [G EXCEPT ![id] = u] = [H EXCEPT ![id] = u]
  BY DEF G, Table
<1> QED BY <1>6, <1>9, <1>10 DEF m

LEMMA FreeIdIs ==
    ASSUME NEW O, NEW H, Counted(O, H), NEW o \in Objs, ~HasStruct(O[o])
    PROVE  LET id == FreeId(State(O, H))
           IN  id \in Ids /\ H[id].kind = "free" /\ H[id].refs = 0
<1> DEFINE id == FreeId(State(O, H))
<1>1. id \in Ids /\ H[id].kind = "free"
  BY StateIs, RoomForStruct DEF FreeId
<1> HIDE DEF id
<1>2. Users(O, id) = {} /\ H[id].refs = Cardinality(Users(O, id))
  BY <1>1 DEF Counted
<1>3. Cardinality(Users(O, id)) = 0
  BY <1>2, UsersFinite
<1> QED BY <1>1, <1>2, <1>3 DEF id

\* A structure that had no use comes to an object.
LEMMA MadeKeeps ==
    ASSUME NEW O, NEW H, Right(O, H), NEW o \in Objs, NEW id \in Ids, H[id].kind = "free",
           NEW w, IsStruct(w), StructSane(w), NEW v, ObjSane(v, [H EXCEPT ![id] = w])
    PROVE  LET P == [O EXCEPT ![o] = v]
               G == [H EXCEPT ![id] = w]
           IN  /\ Sane(P, G) /\ Gives(O, H, P, G, o, Says(v, G))
               /\ Says(v, G) = Says(O[o], H) => Same(O, H, P, G)
<1> DEFINE G == [H EXCEPT ![id] = w]
<1>1. Counted(O, H) /\ Table(O, H) /\ HeapSane(H)
  BY DEF Right, Sane, Counted
<1>2. G[id] = w /\ \A k \in Ids \ {id} : G[k] = H[k]
  BY <1>1 DEF Table
<1> HIDE DEF G
<1>3. HeapSane(G)
  BY <1>1, <1>2 DEF HeapSane
<1>4. ASSUME NEW p \in Objs PROVE Keeps(O[p], H, G)
  <2>1. ~(HasStruct(O[p]) /\ O[p].id = id)
    BY <1>1 DEF Counted, HasStruct
  <2> QED BY <1>2, <1>3, <2>1, StructApart
<1> QED BY <1>1, <1>3, <1>4, OthersKeep DEF G

LEMMA AlreadyClass ==
    ASSUME NEW st, NEW o, st.obj[o].rep = "scr"
    PROVE  AsClass(st, o) = st
<1> DEFINE l  == AsList(st, o)
           id == FreeId(l)
           m  == Taken(Made(l, id, "scr", l.obj[o].list.cr, FALSE), id)
           z  == [Dropped(m, o) EXCEPT !.obj[o] = AtStruct(@, "scr", id)]
<1>1. AsClass(st, o) = IF st.obj[o].rep = "scr" THEN st ELSE z
  BY DEF AsClass
<1> HIDE DEF z
<1> QED BY <1>1

\* get_otscr_from_obj: an object that says a class is at a structure for it.
LEMMA AsClassKeeps ==
    ASSUME NEW O, NEW H, Right(O, H), NEW o \in Objs, Says(O[o], H).kind = "class"
    PROVE  \E v, G : /\ AsClass(State(O, H), o) = State([O EXCEPT ![o] = v], G)
                     /\ Right([O EXCEPT ![o] = v], G)
                     /\ Same(O, H, [O EXCEPT ![o] = v], G)
                     /\ IsObj(v) /\ v.rep = "scr"
<1>1. Table(O, H) /\ O[o].rep # "free"
  <2>1. Nothing.kind # "class"
    BY DEF Nothing
  <2>2. O[o].rep # "free"
    <3> HIDE DEF Nothing
    <3> SUFFICES ASSUME O[o].rep = "free" PROVE FALSE
      OBVIOUS
    <3>1. Says(O[o], H) = Nothing
      BY DEF Says
    <3> QED BY <2>1, <3>1
  <2> QED BY <2>2 DEF Right, Counted
<1>2. CASE O[o].rep = "scr"
  <2>1. AsClass(State(O, H), o) = State(O, H)
    <3> DEFINE st == State(O, H)
    <3>1. st.obj[o].rep = "scr"
      BY <1>2, StateIs
    <3> HIDE DEF st
    <3>2. AsClass(st, o) = st
      BY <3>1, AlreadyClass
    <3> QED BY <3>2 DEF st
  <2>2. O = [O EXCEPT ![o] = O[o]] /\ IsObj(O[o])
    BY <1>1 DEF Table
  <2>3. Same(O, H, O, H)
    BY DEF Same
  <2> QED BY <1>2, <2>1, <2>2, <2>3
<1>3. CASE O[o].rep # "scr"
  <2> DEFINE l == AsList(State(O, H), o)
             id == FreeId(l)
             x == l.obj[o].list.cr
             no == FALSE
             m == Taken(Made(l, id, "scr", x, no), id)
  <2>1. PICK e, F : /\ l = State([O EXCEPT ![o] = e], F)
                    /\ Right([O EXCEPT ![o] = e], F)
                    /\ Same(O, H, [O EXCEPT ![o] = e], F)
                    /\ IsObj(e) /\ e.rep = "list"
    BY <1>1, AsListKeeps
  <2> DEFINE P == [O EXCEPT ![o] = e]
             w == Sr("scr", 1, x, no)
             G == [F EXCEPT ![id] = w]
             u == Ob("none", P[o].id, NoText, P[o].text)
             v == Ob("scr", id, u.list, u.text)
  <2>2. AsClass(State(O, H), o) = [Dropped(m, o) EXCEPT !.obj[o] = AtStruct(@, "scr", id)]
    BY <1>3, StateIs DEF AsClass
  <2>3. l.obj = P
    <3> HIDE DEF l, P
    <3>1. l = State(P, F)
      BY <2>1 DEF P
    <3> QED BY <3>1, StateIs
  <2>4. P[o] = e
    BY <1>1 DEF Table
  <2>5. x = e.list.cr
    <3> HIDE DEF l, P
    <3> QED BY <2>3, <2>4
  <2>6. ~no
    OBVIOUS
  <2> HIDE DEF l, no
  <2>7. Table(P, F) /\ Counted(P, F) /\ ~HasStruct(P[o]) /\ l = State(P, F) /\ Right(P, F)
    BY <2>1, <2>4 DEF Right, Counted, HasStruct
  <2>8. Same(O, H, P, F)
    BY <2>1
  <2> HIDE DEF P
  <2>9. id \in Ids /\ F[id].kind = "free" /\ F[id].refs = 0
    BY <2>7, FreeIdIs
  <2> HIDE DEF id, x
  <2>10. m = State(P, G)
    BY <2>7, <2>9, MadeIs
  <2> HIDE DEF m
  <2>11. IsStruct(w) /\ w.kind = "scr" /\ w.refs = 1 /\ w.cr = x /\ w.canon = no
    BY SrIs
  <2>12. IsObj(u) /\ u.list = NoText /\ u.text = e.text
    BY <2>4, ObIs
  <2>13. IsObj(v) /\ HasStruct(v) /\ v.id = id /\ v.rep = "scr" /\ v.text = e.text
    BY <2>12, ObIs
  <2>14. Counted([P EXCEPT ![o] = v], G)
    <3> HIDE DEF v, w
    <3>1. w.refs = F[id].refs + 1
      BY <2>9, <2>11
    <3> QED BY <2>7, <2>9, <2>11, <2>13, <3>1, ObjectComes
  <2> HIDE DEF w
  <2>15. Table(P, G) /\ G[id] = w
    BY <2>7, <2>9, <2>11, HeapSet
  <2>16. AtList(P[o], "none", NoText) = u
    BY <2>1, <2>4, AtListIs
  <2>17. AtStruct(u, "scr", id) = v
    BY <2>12, AtStructIs
  <2>18. ObjSane(e, F) /\ IsContent(e.list) /\ Says(e, F) = Meaning(e.list)
    <3>1. ObjSane(e, F)
      BY <2>4, <2>7 DEF Right, Sane
    <3> QED BY <2>1, <3>1 DEF ObjSane, Says, ContentAt
  <2>19. Says(e, F) = Says(O[o], H)
    BY <2>4, <2>8 DEF Same
  <2>20. Good(x) /\ Meaning(e.list) = ClassMeaning(Points(x))
    <3>1. Readable(e.list)
      BY <2>18, <2>19, ReadableMeans
    <3> QED BY <2>5, <2>18, <3>1, ReadableMeans
  <2>21. StructSane(w)
    BY <2>6, <2>11, <2>20 DEF StructSane
  <2> HIDE DEF u, v
  <2>22. ContentAt(v, G) = RangesOf(x) /\ Meaning(RangesOf(x)) = Meaning(e.list)
    BY <2>11, <2>13, <2>15, <2>20, StructMeaning DEF ContentAt
  <2>23. ObjSane(v, G) /\ Says(v, G) = Says(e, F)
    <3>1. e.text # NoText => IsContent(e.text) /\ Meaning(e.text) = Meaning(e.list)
      BY <2>1, <2>18 DEF ObjSane, ContentAt
    <3> QED BY <2>13, <2>18, <2>22, <3>1 DEF ObjSane, Says
  <2>24. Sane([P EXCEPT ![o] = v], G) /\ Same(P, F, [P EXCEPT ![o] = v], G)
    BY <2>4, <2>7, <2>9, <2>11, <2>21, <2>23, MadeKeeps
  <2>25. Same(O, H, [P EXCEPT ![o] = v], G)
    BY <2>8, <2>24 DEF Same
  <2>26. Right([P EXCEPT ![o] = v], G)
    BY <2>14, <2>24 DEF Right
  <2> HIDE DEF G
  <2>27. Dropped(m, o) = [State(P, G) EXCEPT !.obj[o] = u]
    BY <2>7, <2>10, <2>16, StateIs DEF Dropped
  <2> DEFINE Q == [P EXCEPT ![o] = u]
  <2>28. Dropped(m, o) = State(Q, G)
    <3>1. [State(P, G) EXCEPT !.obj[o] = u] = State(Q, G)
      BY DEF State, Q
    <3> QED BY <2>27, <3>1
  <2>29. Table(Q, G) /\ Q[o] = u
    BY <2>12, <2>15, TableSet
  <2> HIDE DEF Q
  <2>30. AsClass(State(O, H), o) = [State(Q, G) EXCEPT !.obj[o] = v]
    BY <2>2, <2>17, <2>28, <2>29, StateIs
  <2>31. AsClass(State(O, H), o) = State([Q EXCEPT ![o] = v], G)
    <3>1. [State(Q, G) EXCEPT !.obj[o] = v] = State([Q EXCEPT ![o] = v], G)
      BY ObjectPut
    <3> QED BY <2>30, <3>1
  <2>32. [Q EXCEPT ![o] = v] = [P EXCEPT ![o] = v] /\ [P EXCEPT ![o] = v] = [O EXCEPT ![o] = v]
    BY <1>1, <2>15, PutTwice DEF P, Q
  <2> QED BY <2>13, <2>25, <2>26, <2>31, <2>32
<1> QED BY <1>2, <1>3

\* Another object comes to the structure of an object, with its text or without one.
LEMMA SharedKeeps ==
    ASSUME NEW O, NEW H, Right(O, H), NEW r \in Objs, O[r].rep = "free",
           NEW o \in Objs, HasStruct(O[o]),
           NEW v, IsObj(v), v.rep = O[o].rep, v.id = O[o].id, v.text \in {NoText, O[o].text}
    PROVE  \E G : /\ Taken(State(O, H), O[o].id) = State(O, G)
                  /\ Right([O EXCEPT ![r] = v], G)
                  /\ Gives(O, H, [O EXCEPT ![r] = v], G, r, Says(O[o], H))
<1> DEFINE id == O[o].id
           w == Sr(H[id].kind, H[id].refs + 1, H[id].cr, H[id].canon)
           N == [O EXCEPT ![r] = v]
           G == [H EXCEPT ![id] = w]
<1>1. /\ id \in Ids /\ H[id].kind = O[o].rep /\ O[o].rep \in {"scr", "asbr"}
      /\ Counted(O, H) /\ Table(O, H) /\ HeapSane(H) /\ \A p \in Objs : ObjSane(O[p], H)
      /\ ~HasStruct(O[r])
  BY DEF Right, Counted, HasStruct, Sane
<1>2. Taken(State(O, H), id) = [State(O, H) EXCEPT !.heap[id].refs = H[id].refs + 1]
  BY StateIs DEF Taken
<1>3. Taken(State(O, H), id) = State(O, G)
  <2> HIDE DEF id
  <2> QED BY <1>1, <1>2, StructRefs
<1> HIDE DEF G
<1>4. /\ IsStruct(w) /\ w.kind = H[id].kind /\ w.refs = H[id].refs + 1
      /\ w.cr = H[id].cr /\ w.canon = H[id].canon
  BY SrIs
<1>5. HasStruct(v) /\ v.id = id /\ v.rep = H[id].kind
  BY <1>1 DEF HasStruct
<1> HIDE DEF w
<1>6. Counted(N, G)
  <2> HIDE DEF id
  <2> QED BY <1>1, <1>4, <1>5, ObjectComes DEF G
<1>7. G[id] = w /\ \A k \in Ids \ {id} : G[k] = H[k]
  BY <1>1 DEF G, Table
<1>8. HeapSane(G)
  <2> SUFFICES ASSUME NEW k \in Ids PROVE StructSane(G[k])
    BY DEF HeapSane
  <2>1. StructSane(H[k])
    BY <1>1 DEF HeapSane
  <2>2. CASE k = id
    BY <1>4, <1>7, <2>1, <2>2 DEF StructSane
  <2>3. CASE k # id
    BY <1>7, <2>1, <2>3
  <2> QED BY <2>2, <2>3
<1>9. ASSUME NEW p \in Objs PROVE Keeps(O[p], H, G)
  <2>1. G[id].kind # "free" /\ G[id].cr = H[id].cr
    BY <1>1, <1>4, <1>7
  <2> HIDE DEF id
  <2> QED BY <1>1, <1>7, <1>8, <2>1, StructApart
<1>10. ContentAt(v, G) = ContentAt(O[o], G) /\ ObjSane(O[o], G)
  BY <1>1, <1>9 DEF ContentAt, Keeps
<1>11. ObjSane(v, G) /\ Says(v, G) = Says(O[o], G)
  <2>1. v.rep # "free" /\ v.rep # "none" /\ v.rep # "list" /\ v.rep \in {"scr", "asbr"}
    BY <1>1
  <2> QED BY <1>10, <2>1 DEF ObjSane, Says
<1>12. Says(v, G) = Says(O[o], H)
  BY <1>9, <1>11 DEF Keeps
<1>13. Sane(N, G) /\ Gives(O, H, N, G, r, Says(v, G))
  BY <1>1, <1>8, <1>9, <1>11, OthersKeep
<1>14. Right(N, G)
  BY <1>6, <1>13 DEF Right
<1> HIDE DEF N
<1> QED BY <1>3, <1>12, <1>13, <1>14 DEF N

\* A result that shares the structure of the argument.
LEMMA WrappedOld ==
    ASSUME NEW O, NEW H, Right(O, H), NEW r \in Objs, O[r].rep = "free",
           NEW o \in Objs, HasStruct(O[o])
    PROVE  \E P, G : /\ Wrapped(State(O, H), r, O[o].id) = State(P, G) /\ Right(P, G)
                     /\ Gives(O, H, P, G, r, Says(O[o], H))
<1> DEFINE id == O[o].id
           v == Ob(H[id].kind, id, NoText, NoText)
           N == [O EXCEPT ![r] = v]
<1>1. H[id].kind = O[o].rep
  BY DEF Right, Counted
<1>2. IsObj(v) /\ v.id = id /\ v.rep = H[id].kind /\ v.text = NoText
  BY ObIs
<1> HIDE DEF v
<1>3. PICK G : /\ Taken(State(O, H), id) = State(O, G)
               /\ Right(N, G) /\ Gives(O, H, N, G, r, Says(O[o], H))
  BY <1>1, <1>2, SharedKeeps
<1>4. Wrapped(State(O, H), r, id) = [State(O, G) EXCEPT !.obj[r] = v]
  BY <1>3, StateIs DEF Wrapped, Ob, v
<1>5. Wrapped(State(O, H), r, id) = State(N, G)
  <2>1. [State(O, G) EXCEPT !.obj[r] = v] = State(N, G)
    BY ObjectPut
  <2> QED BY <1>4, <2>1
<1> HIDE DEF N
<1> QED BY <1>3, <1>5

\* A result with a structure of its own.
LEMMA WrappedNew ==
    ASSUME NEW O, NEW H, Right(O, H), NEW r \in Objs, O[r].rep = "free",
           NEW kind \in {"scr", "asbr"}, NEW cr, NEW canon, Good(cr),
           canon => Apart(cr, Len(cr)),
           NEW st, st = State(O, H)
    PROVE  \E P, G : /\ Wrapped(Made(st, FreeId(st), kind, cr, canon), r, FreeId(st)) = State(P, G)
                     /\ Right(P, G)
                     /\ Gives(O, H, P, G, r, IF kind = "scr" THEN ClassMeaning(Points(cr))
                                             ELSE AltsMeaning(Points(cr)))
<1> DEFINE id == FreeId(st)
           m == Made(State(O, H), id, kind, cr, canon)
           w == Sr(kind, 1, cr, canon)
           v == Ob(kind, id, NoText, NoText)
           N == [O EXCEPT ![r] = v]
           G == [H EXCEPT ![id] = w]
           says == IF kind = "scr" THEN ClassMeaning(Points(cr)) ELSE AltsMeaning(Points(cr))
<1>1. Counted(O, H) /\ Table(O, H) /\ ~HasStruct(O[r])
  BY DEF Right, Counted, HasStruct
<1>2. id \in Ids /\ H[id].kind = "free" /\ H[id].refs = 0
  BY <1>1, FreeIdIs
<1> HIDE DEF id
<1>3. Taken(m, id) = State(O, G) /\ m.heap[id].kind = kind
  BY <1>1, <1>2, MadeIs
<1> HIDE DEF m, G
<1>4. Wrapped(m, r, id) = [State(O, G) EXCEPT !.obj[r] = v]
  BY <1>3 DEF Wrapped, Ob
<1>5. Wrapped(m, r, id) = State(N, G)
  <2>1. [State(O, G) EXCEPT !.obj[r] = v] = State(N, G)
    BY ObjectPut
  <2> QED BY <1>4, <2>1
<1>6. IsStruct(w) /\ w.kind = kind /\ w.refs = 1 /\ w.cr = cr /\ w.canon = canon
  BY SrIs
<1>7. IsObj(v) /\ HasStruct(v) /\ v.id = id /\ v.rep = kind /\ v.text = NoText
  BY ObIs
<1> HIDE DEF v, w
<1>8. w.refs = H[id].refs + 1
  BY <1>2, <1>6
<1>9. Counted(N, G)
  BY <1>1, <1>2, <1>6, <1>7, <1>8, ObjectComes DEF G
<1>10. G[id] = w
  BY <1>1, <1>2 DEF G, Table
<1>11. StructSane(w)
  BY <1>6 DEF StructSane
<1>12. Meaning(ContentAt(v, G)) = says
  <2>1. CASE kind = "scr"
    <3>1. ContentAt(v, G) = RangesOf(cr)
      BY <1>6, <1>7, <1>10, <2>1 DEF ContentAt
    <3> QED BY <2>1, <3>1, StructMeaning
  <2>2. CASE kind = "asbr"
    <3>1. ContentAt(v, G) = [form |-> "alts", cr |-> cr]
      BY <1>6, <1>7, <1>10, <2>2 DEF ContentAt
    <3>2. kind # "scr"
      BY <2>2
    <3> QED BY <3>1, <3>2, StructMeaning
  <2> QED BY <2>1, <2>2
<1> HIDE DEF says
<1>13. ObjSane(v, G) /\ Says(v, G) = says
  BY <1>7, <1>12 DEF ObjSane, Says
<1>14. Sane(N, G) /\ Gives(O, H, N, G, r, says)
  BY <1>2, <1>6, <1>11, <1>13, MadeKeeps DEF G
<1>15. Right(N, G)
  BY <1>9, <1>14 DEF Right
<1> HIDE DEF N
<1>16. Made(st, FreeId(st), kind, cr, canon) = m /\ FreeId(st) = id
  BY DEF m, id
<1> QED BY <1>5, <1>14, <1>15, <1>16 DEF says

-----------------------------------------------------------------------------
(* The steps                                                               *)

IInv == Right(obj, heap)
Vals == [o \in Objs |-> Says(obj[o], heap)]

LEMMA Now == s = State(obj, heap)
BY DEF State, s

LEMMA ThenGives ==
    ASSUME NEW P, NEW G, Becomes(State(P, G)), Right(P, G), NEW r \in Objs, NEW m,
           Gives(obj, heap, P, G, r, m)
    PROVE  IInv' /\ Vals' = [Vals EXCEPT ![r] = m]
<1>1. obj' = P /\ heap' = G
  BY StateIs DEF Becomes
<1>2. IInv'
  BY <1>1 DEF IInv
<1>3. Vals' = [o \in Objs |-> Says(P[o], G)]
  BY <1>1 DEF Vals
<1>4. \A o \in Objs : Says(P[o], G) = IF o = r THEN m ELSE Says(obj[o], heap)
  BY DEF Gives
<1>5. [Vals EXCEPT ![r] = m] = [o \in Objs |-> IF o = r THEN m ELSE Says(obj[o], heap)]
  BY DEF Vals
<1> QED BY <1>2, <1>3, <1>4, <1>5

LEMMA ThenSame ==
    ASSUME NEW P, NEW G, Becomes(State(P, G)), Right(P, G), Same(obj, heap, P, G)
    PROVE  IInv' /\ Vals' = Vals
<1>1. obj' = P /\ heap' = G
  BY StateIs DEF Becomes
<1>2. IInv'
  BY <1>1 DEF IInv
<1>3. Vals' = [o \in Objs |-> Says(P[o], G)]
  BY <1>1 DEF Vals
<1>4. \A o \in Objs : Says(P[o], G) = Says(obj[o], heap)
  BY DEF Same
<1> QED BY <1>2, <1>3, <1>4 DEF Vals

\* An object in use says something.
LEMMA InUseSays ==
    ASSUME NEW O, NEW H, Right(O, H), NEW o \in Objs, O[o].rep # "free"
    PROVE  LET c == ContentAt(O[o], H)
           IN  IsContent(c) /\ Says(O[o], H) = Meaning(c) /\ Meaning(c) # Nothing
<1> DEFINE ob == O[o]
           c == ContentAt(ob, H)
<1>1. ObjSane(ob, H) /\ HeapSane(H) /\ Counted(O, H)
  BY DEF Right, Sane
<1>2. IsContent(c)
  <2>1. CASE ob.rep = "none" \/ ob.rep = "list"
    BY <1>1, <2>1 DEF ObjSane, ContentAt
  <2>2. CASE ob.rep \in {"scr", "asbr"}
    <3>1. ob.id \in Ids /\ H[ob.id].kind # "free"
      BY <1>1, <2>2 DEF Counted, HasStruct
    <3>2. Good(H[ob.id].cr)
      BY <1>1, <3>1 DEF HeapSane, StructSane
    <3>3. c = RangesOf(H[ob.id].cr) \/ c = [form |-> "alts", cr |-> H[ob.id].cr]
      BY <2>2 DEF ContentAt
    <3> QED BY <3>2, <3>3 DEF IsContent, RangesOf, Good
  <2> QED BY <1>1, <2>1, <2>2 DEF ObjSane
<1>3. Says(ob, H) = Meaning(c)
  BY DEF Says
<1> HIDE DEF c
<1>4. Meaning(c) # Nothing
  BY <1>2, ReadableMeans
<1> QED BY <1>2, <1>3, <1>4 DEF c

\* A new value, or another one without a structure.
LEMMA NewKeeps ==
    ASSUME NEW O, NEW H, Right(O, H), NEW o \in Objs, O[o].rep = "free",
           NEW v, IsObj(v), v.id = NoId, ~HasStruct(v), ObjSane(v, H)
    PROVE  /\ Right([O EXCEPT ![o] = v], H)
           /\ Gives(O, H, [O EXCEPT ![o] = v], H, o, Says(v, H))
<1>1. /\ Counted(O, H) /\ Table(O, H) /\ HeapSane(H) /\ ~HasStruct(O[o])
      /\ \A p \in Objs : Keeps(O[p], H, H)
  BY DEF Right, Counted, HasStruct, Sane, Keeps
<1>2. O[o].id = NoId
  BY <1>1 DEF Counted
<1>3. Counted([O EXCEPT ![o] = v], H)
  BY <1>1, <1>2, ObjectChanges
<1>4. /\ Sane([O EXCEPT ![o] = v], H)
      /\ Gives(O, H, [O EXCEPT ![o] = v], H, o, Says(v, H))
  BY <1>1, OthersKeep
<1> QED BY <1>3, <1>4 DEF Right

\* The argument of a command, as a class: it still says what it said.
LEMMA ArgumentIs ==
    ASSUME IInv, NEW o \in Objs, NEW r \in Objs, Argument(o, r), NEW st, st = AsClass(s, o)
    PROVE  \E P, G : /\ st = State(P, G) /\ Right(P, G) /\ Same(obj, heap, P, G)
                     /\ P[o].rep = "scr" /\ P[r].rep = "free" /\ IdOf(st, o) = P[o].id
<1>1. Right(obj, heap) /\ obj[o].rep # "free" /\ obj[r].rep = "free" /\ Readable(Content(o))
  BY DEF IInv, Argument, InUse
<1>2. Content(o) = ContentAt(obj[o], heap)
  BY DEF Content, ContentAt
<1> DEFINE c == ContentAt(obj[o], heap)
<1>3. IsContent(c) /\ Says(obj[o], heap) = Meaning(c)
  BY <1>1, InUseSays
<1> HIDE DEF c
<1>4. Says(obj[o], heap).kind = "class"
  BY <1>1, <1>2, <1>3, ReadableMeans DEF c
<1>5. PICK v, G : /\ st = State([obj EXCEPT ![o] = v], G)
                  /\ Right([obj EXCEPT ![o] = v], G)
                  /\ Same(obj, heap, [obj EXCEPT ![o] = v], G)
                  /\ v.rep = "scr"
  BY <1>1, <1>4, Now, AsClassKeeps
<1> DEFINE P == [obj EXCEPT ![o] = v]
<1>6. P[o] = v /\ P[r] = obj[r]
  BY <1>1 DEF Right, Counted, Table
<1>7. st = State(P, G) /\ Right(P, G) /\ Same(obj, heap, P, G)
  BY <1>5
<1> HIDE DEF P
<1>8. IdOf(st, o) = P[o].id
  BY <1>7, StateIs DEF IdOf
<1> QED BY <1>1, <1>5, <1>6, <1>7, <1>8

\* And normalised, where an empty one may be left as it is.
LEMMA NormedArgument ==
    ASSUME IInv, NEW o \in Objs, NEW r \in Objs, Argument(o, r), NEW st, st = AsClass(s, o),
           NEW n, \/ n = Normed(st, IdOf(st, o))
                  \/ n = st /\ st.heap[IdOf(st, o)].cr = << >>
    PROVE  \E P, G : /\ n = State(P, G) /\ Right(P, G) /\ Same(obj, heap, P, G)
                     /\ HasStruct(P[o]) /\ P[r].rep = "free"
                     /\ IdOf(st, o) = P[o].id /\ IdOf(n, o) = P[o].id
                     /\ Good(G[P[o].id].cr) /\ Apart(G[P[o].id].cr, Len(G[P[o].id].cr))
                     /\ Says(P[o], G) = ClassMeaning(Points(G[P[o].id].cr))
<1>1. PICK P, F : /\ st = State(P, F) /\ Right(P, F) /\ Same(obj, heap, P, F)
                  /\ P[o].rep = "scr" /\ P[r].rep = "free" /\ IdOf(st, o) = P[o].id
  BY ArgumentIs
<1> DEFINE id == P[o].id
<1>2. HasStruct(P[o]) /\ id \in Ids /\ F[id].kind = "scr"
  BY <1>1 DEF HasStruct, Right, Counted
<1> HIDE DEF id
<1>3. \E G : /\ n = State(P, G) /\ Right(P, G) /\ Same(P, F, P, G)
             /\ G[id].kind = "scr" /\ Apart(G[id].cr, Len(G[id].cr))
  <2>1. CASE n = Normed(st, IdOf(st, o))
    <3>1. PICK G : /\ Normed(State(P, F), id) = State(P, G) /\ Right(P, G)
                   /\ \A p \in Objs : Keeps(P[p], F, G)
                   /\ G[id].kind = F[id].kind /\ Apart(G[id].cr, Len(G[id].cr))
      <4>1. F[id].kind # "free"
        BY <1>2
      <4> QED BY <1>1, <1>2, <4>1, NormedKeeps
    <3>2. Same(P, F, P, G)
      BY <3>1 DEF Same, Keeps
    <3> QED BY <1>1, <1>2, <2>1, <3>1, <3>2 DEF id
  <2>2. CASE n = st /\ st.heap[IdOf(st, o)].cr = << >>
    <3>1. F[id].cr = << >>
      BY <1>1, <2>2, StateIs DEF id
    <3>2. Apart(F[id].cr, Len(F[id].cr))
      BY <3>1 DEF Apart
    <3>3. Same(P, F, P, F)
      BY DEF Same
    <3> QED BY <1>1, <1>2, <2>2, <3>2, <3>3
  <2> QED BY <2>1, <2>2
<1>4. PICK G : /\ n = State(P, G) /\ Right(P, G) /\ Same(P, F, P, G)
               /\ G[id].kind = "scr" /\ Apart(G[id].cr, Len(G[id].cr))
  BY <1>3
<1>5. Good(G[id].cr)
  BY <1>2, <1>4 DEF Right, Sane, HeapSane, StructSane
<1>6. Says(P[o], G) = ClassMeaning(Points(G[id].cr))
  <2> DEFINE cr == G[id].cr
  <2>1. ContentAt(P[o], G) = RangesOf(cr)
    BY <1>1 DEF ContentAt, id
  <2>2. Says(P[o], G) = Meaning(RangesOf(cr))
    BY <1>1, <2>1 DEF Says
  <2> QED BY <1>5, <2>2, StructMeaning
<1>7. Same(obj, heap, P, G)
  BY <1>1, <1>4 DEF Same
<1>8. IdOf(n, o) = id
  BY <1>4, StateIs DEF IdOf, id
<1> QED BY <1>1, <1>2, <1>4, <1>5, <1>6, <1>7, <1>8 DEF id

-----------------------------------------------------------------------------
(* The steps of ClassValues                                                *)

LEMMA ValIs ==
    /\ [o \in Objs |-> IF InUse(o) THEN Meaning(Content(o)) ELSE Nothing] = Vals
    /\ [o \in Objs |-> IF InUse(o) THEN Meaning(Content(o)) ELSE Nothing]' = Vals'
BY DEF Vals, Says, InUse, Content, ContentAt

LEMMA Steps ==
    ASSUME NEW o \in Objs, NEW r \in Objs
    PROVE  /\ \A m : Vals[o] = Nothing /\ Vals' = [Vals EXCEPT ![o] = m]
              => Abstract!IsFree(o) /\ Abstract!Give(o, m)
           /\ /\ Vals[o] # Nothing /\ Vals[r] = Nothing
              /\ Vals' = [Vals EXCEPT ![r] = Vals[o]]
              => Abstract!IsFree(r) /\ Abstract!Copy(o, r)
           /\ /\ Vals[o] # Nothing /\ Vals[o].kind = "class" /\ Vals[r] = Nothing
              /\ Vals' = [Vals EXCEPT ![r] = ClassMeaning((0 .. UniMax) \ Vals[o].points)]
              => Abstract!IsFree(r) /\ Abstract!Negate(o, r)
           /\ /\ Vals[o] # Nothing /\ Vals[o].kind = "class" /\ Vals[r] = Nothing
              /\ Vals' = [Vals EXCEPT ![r] = AltsMeaning(Vals[o].points)]
              => Abstract!IsFree(r) /\ Abstract!Encode(o, r)
           /\ Vals[o] # Nothing /\ Vals' = [Vals EXCEPT ![o] = Nothing] => Abstract!Drop(o)
<1>1. \A p \in Objs : \A m :
      Vals[p] = Nothing /\ Vals' = [Vals EXCEPT ![p] = m]
      => Abstract!IsFree(p) /\ Abstract!Give(p, m)
  BY ValIs DEF Abstract!Give, Abstract!IsFree
<1>2. /\ Vals[o] # Nothing /\ Vals[r] = Nothing
      /\ Vals' = [Vals EXCEPT ![r] = Vals[o]]
      => Abstract!IsFree(r) /\ Abstract!Copy(o, r)
  BY ValIs, <1>1 DEF Abstract!Copy, Abstract!IsFree
<1>3. /\ Vals[o] # Nothing /\ Vals[o].kind = "class" /\ Vals[r] = Nothing
      /\ Vals' = [Vals EXCEPT ![r] = ClassMeaning((0 .. UniMax) \ Vals[o].points)]
      => Abstract!IsFree(r) /\ Abstract!Negate(o, r)
  BY ValIs, <1>1 DEF Abstract!Negate, Abstract!IsClass, Abstract!ClassOf, ClassMeaning
<1>4. /\ Vals[o] # Nothing /\ Vals[o].kind = "class" /\ Vals[r] = Nothing
      /\ Vals' = [Vals EXCEPT ![r] = AltsMeaning(Vals[o].points)]
      => Abstract!IsFree(r) /\ Abstract!Encode(o, r)
  BY ValIs, <1>1 DEF Abstract!Encode, Abstract!IsClass, Abstract!AltsOf, AltsMeaning
<1>5. Vals[o] # Nothing /\ Vals' = [Vals EXCEPT ![o] = Nothing] => Abstract!Drop(o)
  BY ValIs DEF Abstract!Drop, Abstract!Give, Abstract!IsFree
<1> QED BY <1>1, <1>2, <1>3, <1>4, <1>5

\* What is free says nothing, and what is in use does not.
LEMMA SaysNothing ==
    ASSUME IInv, NEW o \in Objs
    PROVE  /\ Vals[o] = Says(obj[o], heap)
           /\ Vals[o] = Nothing <=> obj[o].rep = "free"
<1>1. Vals[o] = Says(obj[o], heap)
  BY DEF Vals
<1>2. obj[o].rep = "free" => Says(obj[o], heap) = Nothing
  BY DEF Says
<1>3. obj[o].rep # "free" => Says(obj[o], heap) # Nothing
  BY InUseSays DEF IInv
<1> QED BY <1>1, <1>2, <1>3

LEMMA NoObjIs == NoObj = Ob("free", NoId, NoText, NoText)
BY DEF NoObj, Ob

\* A value that is given, as a text or as a list.
LEMMA GivenStep ==
    ASSUME IInv, NEW o \in Objs, NEW l \in Lists, Text(o, l) \/ List(o, l)
    PROVE  IInv' /\ Abstract!IsFree(o) /\ Abstract!Give(o, Meaning(RangesOf(l)))
<1> DEFINE c == RangesOf(l)
           v == IF Text(o, l) THEN Ob("none", NoId, NoText, c) ELSE Ob("list", NoId, c, NoText)
<1>1. obj[o].rep = "free" /\ heap' = heap
  BY DEF Text, List, InUse
<1>2. obj' = [obj EXCEPT ![o] = v]
  <2>1. CASE Text(o, l)
    <3> DEFINE y == [NoObj EXCEPT !.rep = "none"]
    <3>1. y = Ob("none", NoId, NoText, NoText)
      BY DEF NoObj, Ob
    <3>2. [NoObj EXCEPT !.rep = "none", !.text = c] = [y EXCEPT !.text = c]
      OBVIOUS
    <3>3. \A a, b, d, e, f : [Ob(a, b, d, e) EXCEPT !.text = f] = Ob(a, b, d, f)
      BY DEF Ob
    <3>4. obj' = [obj EXCEPT ![o] = [NoObj EXCEPT !.rep = "none", !.text = c]]
      BY <2>1 DEF Text
    <3> HIDE DEF y, c
    <3>5. [y EXCEPT !.text = c] = Ob("none", NoId, NoText, c)
      BY <3>1, <3>3
    <3> QED BY <2>1, <3>2, <3>4, <3>5
  <2>2. CASE ~Text(o, l)
    <3>1. IsObj(NoObj) /\ NoObj.id = NoId /\ NoObj.text = NoText
      BY NoObjIs, ObIs
    <3>2. AtList(NoObj, "list", c) = Ob("list", NoId, c, NoText)
      BY <3>1, AtListIs
    <3> QED BY <2>2, <3>2 DEF List
  <2> QED BY <2>1, <2>2
<1>3. IsContent(c)
  BY ClassAssumption DEF ClassAssumption, IsContent, RangesOf, Ranged
<1> HIDE DEF c
<1>4. /\ IsObj(v) /\ v.id = NoId /\ ~HasStruct(v)
      /\ \/ v.rep = "none" /\ v.text = c
         \/ v.rep = "list" /\ v.list = c /\ v.text = NoText
  BY ObIs
<1> HIDE DEF v
<1>5. ContentAt(v, heap) = c /\ c # NoText
  BY <1>3, <1>4, ReadableMeans DEF ContentAt
<1>6. ObjSane(v, heap) /\ Says(v, heap) = Meaning(c)
  BY <1>3, <1>4, <1>5 DEF ObjSane, Says
<1> DEFINE P == [obj EXCEPT ![o] = v]
<1>7. Right(P, heap) /\ Gives(obj, heap, P, heap, o, Meaning(c))
  BY <1>1, <1>4, <1>6, NewKeeps DEF IInv
<1>8. Becomes(State(P, heap))
  BY <1>1, <1>2, StateIs DEF Becomes
<1> HIDE DEF P
<1>9. IInv' /\ Vals' = [Vals EXCEPT ![o] = Meaning(c)]
  BY <1>7, <1>8, ThenGives
<1> QED BY <1>1, <1>9, SaysNothing, Steps DEF c

LEMMA NormStep ==
    ASSUME IInv, NEW o \in Objs, NEW r \in Objs, NormClass(o, r)
    PROVE  IInv' /\ Abstract!IsFree(r) /\ Abstract!Copy(o, r)
<1> DEFINE st == AsClass(s, o)
           n == Normed(st, IdOf(st, o))
<1>1. Argument(o, r) /\ Becomes(Wrapped(n, r, IdOf(st, o)))
  BY DEF NormClass
<1>2. obj[o].rep # "free" /\ obj[r].rep = "free"
  BY <1>1 DEF Argument, InUse
<1>3. PICK P, H : /\ n = State(P, H) /\ Right(P, H) /\ Same(obj, heap, P, H)
                  /\ HasStruct(P[o]) /\ P[r].rep = "free" /\ IdOf(st, o) = P[o].id
  <2>1. n = Normed(st, IdOf(st, o))
    OBVIOUS
  <2> HIDE DEF n
  <2> QED BY <1>1, <2>1, NormedArgument
<1> HIDE DEF st, n
<1>4. PICK Q, G : /\ Wrapped(State(P, H), r, P[o].id) = State(Q, G) /\ Right(Q, G)
                  /\ Gives(P, H, Q, G, r, Says(P[o], H))
  BY <1>3, WrappedOld
<1>5. Becomes(State(Q, G))
  BY <1>1, <1>3, <1>4
<1>6. Gives(obj, heap, Q, G, r, Says(obj[o], heap))
  BY <1>3, <1>4 DEF Same, Gives
<1>7. IInv' /\ Vals' = [Vals EXCEPT ![r] = Says(obj[o], heap)]
  BY <1>4, <1>5, <1>6, ThenGives
<1>8. Vals[o] = Says(obj[o], heap) /\ Vals[o] # Nothing /\ Vals[r] = Nothing
  BY <1>2, SaysNothing
<1> QED BY <1>7, <1>8, Steps

LEMMA NegateStep ==
    ASSUME IInv, NEW o \in Objs, NEW r \in Objs, NegateClass(o, r)
    PROVE  IInv' /\ Abstract!IsFree(r) /\ Abstract!Negate(o, r)
<1> DEFINE st == AsClass(s, o)
           n == IF st.heap[IdOf(st, o)].cr = << >> THEN st ELSE Normed(st, IdOf(st, o))
           x == n.heap[IdOf(n, o)].cr
           c == Complement(x, UniMax)
           yes == TRUE
           t == Wrapped(Made(n, FreeId(n), "scr", c, yes), r, FreeId(n))
<1>1. Argument(o, r) /\ Becomes(t)
  BY DEF NegateClass
<1>2. obj[o].rep # "free" /\ obj[r].rep = "free"
  BY <1>1 DEF Argument, InUse
<1>3. PICK P, H : /\ n = State(P, H) /\ Right(P, H) /\ Same(obj, heap, P, H)
                  /\ P[r].rep = "free" /\ IdOf(n, o) = P[o].id
                  /\ Good(H[P[o].id].cr) /\ Apart(H[P[o].id].cr, Len(H[P[o].id].cr))
                  /\ Says(P[o], H) = ClassMeaning(Points(H[P[o].id].cr))
  <2>1. n = Normed(st, IdOf(st, o)) \/ (n = st /\ st.heap[IdOf(st, o)].cr = << >>)
    OBVIOUS
  <2> HIDE DEF n
  <2> QED BY <1>1, <2>1, NormedArgument
<1>4. x = H[P[o].id].cr
  <2> HIDE DEF n
  <2> QED BY <1>3, StateIs
<1> HIDE DEF n, x
<1>5. Good(x) /\ Apart(x, Len(x)) /\ Says(P[o], H) = ClassMeaning(Points(x)) /\ UniMax \in Nat
  BY <1>3, <1>4, ClassAssumption DEF ClassAssumption
<1>6. Good(c) /\ Apart(c, Len(c)) /\ Points(c) = (0 .. UniMax) \ Points(x)
  BY <1>5, ComplementFacts, ComplementPoints DEF Good
<1> HIDE DEF c, yes
<1>7. PICK Q, G : /\ t = State(Q, G) /\ Right(Q, G)
                  /\ Gives(P, H, Q, G, r, ClassMeaning(Points(c)))
  <2>1. \E Q, G : /\ Wrapped(Made(n, FreeId(n), "scr", c, yes), r, FreeId(n)) = State(Q, G)
                  /\ Right(Q, G)
                  /\ Gives(P, H, Q, G, r, IF "scr" = "scr" THEN ClassMeaning(Points(c))
                                          ELSE AltsMeaning(Points(c)))
    BY <1>3, <1>6, WrappedNew
  <2> QED BY <2>1
<1> HIDE DEF t
<1>8. Gives(obj, heap, Q, G, r, ClassMeaning(Points(c)))
  BY <1>3, <1>7 DEF Same, Gives
<1>9. IInv' /\ Vals' = [Vals EXCEPT ![r] = ClassMeaning(Points(c))]
  BY <1>1, <1>7, <1>8, ThenGives
<1>10. Vals[o] = ClassMeaning(Points(x)) /\ Vals[o] # Nothing /\ Vals[r] = Nothing
  BY <1>2, <1>3, <1>5, SaysNothing DEF Same
<1>11. Vals[o].kind = "class" /\ Vals[o].points = Points(x)
  BY <1>10 DEF ClassMeaning
<1>12. Vals' = [Vals EXCEPT ![r] = ClassMeaning((0 .. UniMax) \ Vals[o].points)]
  BY <1>6, <1>9, <1>11
<1> QED BY <1>9, <1>10, <1>11, <1>12, Steps

LEMMA EncodeStep ==
    ASSUME IInv, NEW o \in Objs, NEW r \in Objs, Encode(o, r)
    PROVE  IInv' /\ Abstract!IsFree(r) /\ Abstract!Encode(o, r)
<1> DEFINE st == AsClass(s, o)
           n == Normed(st, IdOf(st, o))
           x == n.heap[IdOf(n, o)].cr
           no == FALSE
           t == Wrapped(Made(n, FreeId(n), "asbr", x, no), r, FreeId(n))
<1>1. Argument(o, r) /\ Becomes(t)
  BY DEF Encode
<1>2. obj[o].rep # "free" /\ obj[r].rep = "free"
  BY <1>1 DEF Argument, InUse
<1>3. PICK P, H : /\ n = State(P, H) /\ Right(P, H) /\ Same(obj, heap, P, H)
                  /\ P[r].rep = "free" /\ IdOf(n, o) = P[o].id
                  /\ Good(H[P[o].id].cr)
                  /\ Says(P[o], H) = ClassMeaning(Points(H[P[o].id].cr))
  <2>1. n = Normed(st, IdOf(st, o))
    OBVIOUS
  <2> HIDE DEF n
  <2> QED BY <1>1, <2>1, NormedArgument
<1>4. x = H[P[o].id].cr
  <2> HIDE DEF n
  <2> QED BY <1>3, StateIs
<1>5. ~no
  OBVIOUS
<1> HIDE DEF n, x, no
<1>6. Good(x) /\ Says(P[o], H) = ClassMeaning(Points(x))
  BY <1>3, <1>4
<1>7. PICK Q, G : /\ t = State(Q, G) /\ Right(Q, G)
                  /\ Gives(P, H, Q, G, r, AltsMeaning(Points(x)))
  <2>1. \E Q, G : /\ Wrapped(Made(n, FreeId(n), "asbr", x, no), r, FreeId(n)) = State(Q, G)
                  /\ Right(Q, G)
                  /\ Gives(P, H, Q, G, r, IF "asbr" = "scr" THEN ClassMeaning(Points(x))
                                          ELSE AltsMeaning(Points(x)))
    BY <1>3, <1>5, <1>6, WrappedNew
  <2> QED BY <2>1
<1> HIDE DEF t
<1>8. Gives(obj, heap, Q, G, r, AltsMeaning(Points(x)))
  BY <1>3, <1>7 DEF Same, Gives
<1>9. IInv' /\ Vals' = [Vals EXCEPT ![r] = AltsMeaning(Points(x))]
  BY <1>1, <1>7, <1>8, ThenGives
<1>10. Vals[o] = ClassMeaning(Points(x)) /\ Vals[o] # Nothing /\ Vals[r] = Nothing
  BY <1>2, <1>3, <1>6, SaysNothing DEF Same
<1>11. Vals[o].kind = "class" /\ Vals[o].points = Points(x)
  BY <1>10 DEF ClassMeaning
<1>12. Vals' = [Vals EXCEPT ![r] = AltsMeaning(Vals[o].points)]
  BY <1>9, <1>11
<1> QED BY <1>9, <1>10, <1>11, <1>12, Steps

LEMMA DupStep ==
    ASSUME IInv, NEW o \in Objs, NEW r \in Objs, Dup(o, r)
    PROVE  IInv' /\ Abstract!IsFree(r) /\ Abstract!Copy(o, r)
<1> DEFINE v == obj[o]
           N == [obj EXCEPT ![r] = v]
<1>1. Right(obj, heap) /\ s = State(obj, heap) /\ v.rep # "free" /\ obj[r].rep = "free"
  BY Now DEF IInv, Dup, InUse
<1>2. IsObj(v) /\ ObjSane(v, heap)
  BY <1>1 DEF Right, Counted, Table, Sane
<1>3. \E G : /\ Becomes(State(N, G)) /\ Right(N, G)
             /\ Gives(obj, heap, N, G, r, Says(v, heap))
  <2>1. CASE HasStruct(v)
    <3>1. PICK G : /\ Taken(State(obj, heap), v.id) = State(obj, G)
                   /\ Right(N, G) /\ Gives(obj, heap, N, G, r, Says(v, heap))
      BY <1>1, <1>2, <2>1, SharedKeeps
    <3>2. Becomes([Taken(s, v.id) EXCEPT !.obj[r] = v])
      BY <2>1 DEF Dup
    <3>3. [State(obj, G) EXCEPT !.obj[r] = v] = State(N, G)
      BY DEF State
    <3>4. Becomes(State(N, G))
      BY <1>1, <3>1, <3>2, <3>3
    <3> QED BY <3>1, <3>4
  <2>2. CASE ~HasStruct(v)
    <3>1. Becomes([State(obj, heap) EXCEPT !.obj[r] = v])
      BY <1>1, <2>2 DEF Dup
    <3>2. Becomes(State(N, heap))
      <4>1. [State(obj, heap) EXCEPT !.obj[r] = v] = State(N, heap)
        BY DEF State
      <4> QED BY <3>1, <4>1
    <3>3. v.id = NoId
      BY <1>1, <2>2 DEF Right, Counted
    <3>4. Right(N, heap) /\ Gives(obj, heap, N, heap, r, Says(v, heap))
      BY <1>1, <1>2, <2>2, <3>3, NewKeeps
    <3> QED BY <3>2, <3>4
  <2> QED BY <2>1, <2>2
<1> HIDE DEF N
<1>4. IInv' /\ Vals' = [Vals EXCEPT ![r] = Says(v, heap)]
  BY <1>3, ThenGives
<1>5. Vals[o] = Says(v, heap) /\ Vals[o] # Nothing /\ Vals[r] = Nothing
  BY <1>1, SaysNothing
<1> QED BY <1>4, <1>5, Steps

LEMMA FreeStep ==
    ASSUME IInv, NEW o \in Objs, Free(o)
    PROVE  IInv' /\ Abstract!Drop(o)
<1>1. Right(obj, heap) /\ s = State(obj, heap) /\ obj[o].rep # "free"
  BY Now DEF IInv, Free, InUse
<1>2. Table(obj, heap)
  BY <1>1 DEF Right, Counted
<1>3. PICK v, G : /\ Dropped(State(obj, heap), o) = State([obj EXCEPT ![o] = v], G)
                  /\ Counted([obj EXCEPT ![o] = v], G) /\ HeapSane(G)
                  /\ \A p \in Objs \ {o} : Keeps(obj[p], heap, G)
                  /\ v.rep = "none"
  BY <1>1, DroppedKeeps
<1> DEFINE P == [obj EXCEPT ![o] = v]
           N == [obj EXCEPT ![o] = NoObj]
<1>4. P[o] = v /\ [P EXCEPT ![o] = NoObj] = N
  BY <1>2, PutTwice DEF Table
<1>5. Counted(P, G) /\ Dropped(State(obj, heap), o) = State(P, G)
  BY <1>3
<1> HIDE DEF P
<1>6. Becomes(State(N, G))
  <2>1. Becomes([State(P, G) EXCEPT !.obj[o] = NoObj])
    BY <1>1, <1>5 DEF Free
  <2>2. [State(P, G) EXCEPT !.obj[o] = NoObj] = State(N, G)
    BY <1>4, ObjectPut
  <2> QED BY <2>1, <2>2
<1>7. /\ IsObj(NoObj) /\ ~HasStruct(NoObj) /\ NoObj.id = NoId
      /\ NoObj.rep = "free" /\ NoObj.text = NoText
  BY NoObjIs, ObIs
<1>8. ~HasStruct(P[o]) /\ P[o].id = NoId
  BY <1>3, <1>4, <1>5 DEF Counted, HasStruct
<1>9. Counted(N, G)
  BY <1>4, <1>5, <1>7, <1>8, ObjectChanges
<1>10. ObjSane(NoObj, G) /\ Says(NoObj, G) = Nothing
  BY <1>7 DEF ObjSane, Says
<1>11. Sane(N, G) /\ Gives(obj, heap, N, G, o, Nothing)
  BY <1>2, <1>3, <1>10, OthersKeep
<1>12. Right(N, G)
  BY <1>9, <1>11 DEF Right
<1> HIDE DEF N
<1>13. IInv' /\ Vals' = [Vals EXCEPT ![o] = Nothing]
  BY <1>6, <1>11, <1>12, ThenGives
<1>14. Vals[o] # Nothing
  BY <1>1, SaysNothing
<1> QED BY <1>13, <1>14, Steps

\* Reading, converting, and failing are no steps of ClassValues.
LEMMA QuietStep ==
    ASSUME IInv, NEW o \in Objs, Refused(o) \/ Read(o) \/ Llength(o)
    PROVE  IInv' /\ Vals' = Vals
<1>1. Right(obj, heap) /\ s = State(obj, heap) /\ obj[o].rep # "free"
  BY Now DEF IInv, Refused, Read, Llength, InUse
<1>2. CASE Refused(o) \/ Llength(o)
  <2>1. Becomes(AsList(State(obj, heap), o))
    BY <1>1, <1>2 DEF Refused, Llength
  <2>2. PICK v, G : /\ AsList(State(obj, heap), o) = State([obj EXCEPT ![o] = v], G)
                    /\ Right([obj EXCEPT ![o] = v], G)
                    /\ Same(obj, heap, [obj EXCEPT ![o] = v], G)
    BY <1>1, AsListKeeps
  <2> QED BY <2>1, <2>2, ThenSame
<1>3. CASE Read(o)
  <2>1. Becomes(WithText(State(obj, heap), o))
    BY <1>1, <1>3 DEF Read
  <2>2. PICK v, G : /\ WithText(State(obj, heap), o) = State([obj EXCEPT ![o] = v], G)
                    /\ Right([obj EXCEPT ![o] = v], G)
                    /\ Same(obj, heap, [obj EXCEPT ![o] = v], G)
    BY <1>1, WithTextKeeps
  <2> QED BY <2>1, <2>2, ThenSame
<1> QED BY <1>2, <1>3

-----------------------------------------------------------------------------
(* The theorems                                                            *)

LEMMA InitRight == Init => IInv /\ Vals = [o \in Objs |-> Nothing]
<1> SUFFICES ASSUME Init PROVE Right(obj, heap) /\ Vals = [o \in Objs |-> Nothing]
  BY DEF IInv
<1>1. Table(obj, heap)
  BY DEF Init, Table, IsObj, IsStruct, NoObj, NoStruct
<1>2. \A o \in Objs : /\ ~HasStruct(obj[o]) /\ obj[o].id = NoId
                      /\ obj[o].rep = "free" /\ obj[o].text = NoText
  BY DEF Init, NoObj, HasStruct
<1>3. \A id \in Ids : heap[id].refs = 0 /\ heap[id].kind = "free"
  BY DEF Init, NoStruct
<1>4. \A id \in Ids : Users(obj, id) = {}
  BY <1>2, IdsAssumption DEF Users, IdsAssumption, NoId
<1>5. Counted(obj, heap)
  BY <1>1, <1>2, <1>3, <1>4, FS_EmptySet DEF Counted
<1>6. Sane(obj, heap)
  BY <1>2, <1>3 DEF Sane, HeapSane, StructSane, ObjSane
<1>7. Vals = [o \in Objs |-> Nothing]
  BY <1>2 DEF Vals, Says
<1> QED BY <1>5, <1>6, <1>7 DEF Right

\* Every step keeps the invariant, and is a step of ClassValues or none.
LEMMA StepRight == ASSUME IInv, [Next]_vars PROVE IInv' /\ (Abstract!Next \/ Vals' = Vals)
<1>1. ASSUME NEW o \in Objs, NEW l \in Lists, Text(o, l) \/ List(o, l)
      PROVE  IInv' /\ Abstract!Next
  <2>1. IInv' /\ Abstract!IsFree(o) /\ Abstract!Give(o, Meaning(RangesOf(l)))
    BY <1>1, GivenStep
  <2>2. Meaning(RangesOf(l)) \in Given
    BY DEF Given
  <2> QED BY <2>1, <2>2 DEF Abstract!Next
<1>2. ASSUME NEW o \in Objs, NEW r \in Objs, NormClass(o, r) \/ Dup(o, r)
      PROVE  IInv' /\ Abstract!Next
  <2>1. IInv' /\ Abstract!IsFree(r) /\ Abstract!Copy(o, r)
    BY <1>2, NormStep, DupStep
  <2> QED BY <2>1 DEF Abstract!Next
<1>3. ASSUME NEW o \in Objs, NEW r \in Objs, NegateClass(o, r) PROVE IInv' /\ Abstract!Next
  <2>1. IInv' /\ Abstract!IsFree(r) /\ Abstract!Negate(o, r)
    BY <1>3, NegateStep
  <2> QED BY <2>1 DEF Abstract!Next
<1>4. ASSUME NEW o \in Objs, NEW r \in Objs, Encode(o, r) PROVE IInv' /\ Abstract!Next
  <2>1. IInv' /\ Abstract!IsFree(r) /\ Abstract!Encode(o, r)
    BY <1>4, EncodeStep
  <2> QED BY <2>1 DEF Abstract!Next
<1>5. ASSUME NEW o \in Objs, Free(o) PROVE IInv' /\ Abstract!Next
  <2>1. IInv' /\ Abstract!Drop(o)
    BY <1>5, FreeStep
  <2> QED BY <2>1 DEF Abstract!Next
<1>6. ASSUME NEW o \in Objs, Refused(o) \/ Read(o) \/ Llength(o) PROVE IInv' /\ Vals' = Vals
  BY <1>6, QuietStep
<1>7. CASE UNCHANGED vars
  <2>1. obj' = obj /\ heap' = heap
    BY <1>7 DEF vars
  <2> QED BY <2>1 DEF IInv, Vals
<1> QED BY <1>1, <1>2, <1>3, <1>4, <1>5, <1>6, <1>7 DEF Next

LEMMA RightAlways == Spec => []IInv
<1>1. Init => IInv
  BY InitRight
<1>2. IInv /\ [Next]_vars => IInv'
  BY StepRight
<1> QED BY <1>1, <1>2, PTL DEF Spec

\* The reference counts of the classes and alternatives are exact, and a structure
\* lives as long as a value refers to it, for any number of values and any contents:
\* whatever the order of the copies, the conversions to and from other types, the
\* commands that share or make structures, and those that fail half way
\* (scr_objtype.c:76-134, 150-300, asbr_objtype.c, cc_objtype.tcl).
THEOREM RefsCorrect == Spec => []RefsExact
<1>1. IInv => RefsExact
  <2> SUFFICES ASSUME IInv PROVE RefsExact
    OBVIOUS
  <2>1. Counted(obj, heap)
    BY DEF IInv, Right
  <2>2. \A o \in Objs : HasStruct(obj[o]) => heap[obj[o].id].kind = obj[o].rep
    BY <2>1 DEF Counted
  <2>3. \A id \in Ids : /\ heap[id].refs = Cardinality({o \in Objs : obj[o].id = id})
                        /\ (heap[id].kind = "free") <=> ({o \in Objs : obj[o].id = id} = {})
    BY <2>1 DEF Counted, Users
  <2> QED BY <2>2, <2>3 DEF RefsExact
<1> QED BY <1>1, RightAlways, PTL

\* The text of a value and what is behind it say the same, for any number of values
\* and any contents: although the ranges are sorted and merged in place under a text
\* that stays, and under all other values that share them (cc_objtype.tcl:38-40,
\* scr.c: marpatcl_scr_norm).
THEOREM TextsAgree == Spec => []TextAgrees
<1>1. IInv => TextAgrees
  <2> SUFFICES ASSUME IInv, NEW o \in Objs, InUse(o), obj[o].text # NoText
               PROVE  Meaning(obj[o].text) = Meaning(Content(o))
    BY DEF TextAgrees
  <2>1. ObjSane(obj[o], heap)
    BY DEF IInv, Right, Sane
  <2>2. Content(o) = ContentAt(obj[o], heap)
    BY DEF Content, ContentAt
  <2> QED BY <2>1, <2>2 DEF ObjSane
<1> QED BY <1>1, RightAlways, PTL

\* The values of a script are immutable: whatever structures they share, and whatever
\* is converted or normalised in place, a command on a value gives the result
\* ClassValues says, and changes no other value (cc_objtype.tcl, asbr_objtype.tcl).
THEOREM ValuesImplemented == Spec => ValuesSpec
<1>1. Init => Abstract!Init
  BY InitRight, ValIs DEF Abstract!Init
<1>2. IInv /\ [Next]_vars
         => [Abstract!Next]_([o \in Objs |-> IF InUse(o) THEN Meaning(Content(o)) ELSE Nothing])
  <2> SUFFICES ASSUME IInv, [Next]_vars
               PROVE  \/ Abstract!Next
                      \/ UNCHANGED [o \in Objs |-> IF InUse(o) THEN Meaning(Content(o)) ELSE Nothing]
    OBVIOUS
  <2> QED BY StepRight, ValIs
<1> QED BY <1>1, <1>2, RightAlways, PTL DEF Spec, ValuesSpec, Abstract!Spec
=============================================================================
