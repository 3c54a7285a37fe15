----------------------------- MODULE ClassObject -----------------------------
(***************************************************************************)
(* Character classes as Tcl values: unicode/c/scr_objtype.c for the        *)
(* classes, asbr_objtype.c for the alternatives made of them (and          *)
(* assr_objtype.c, which is the same with other names), and the commands   *)
(* over them (unicode/cc_objtype.tcl, asbr_objtype.tcl).                   *)
(*                                                                         *)
(* A Tcl_Obj has a text, an internal representation, or both.  The one of  *)
(* a class is a counted reference to an array of ranges that several       *)
(* objects share, and that is sorted and merged in place.  Here `obj` are  *)
(* the objects and `heap` the shared structures.  A content is what a      *)
(* text or a list says: the ranges of a class, good or not, or the nested  *)
(* list of the alternatives of a class.                                    *)
(*                                                                         *)
(* Calls are functions of the state s = [obj, heap], applied one after the *)
(* other like the C functions.  A definition whose comment starts with     *)
(* "Mutant" is a wrong version of the one it precedes, for the mutation    *)
(* runs.                                                                   *)
(***************************************************************************)
EXTENDS Ranges

CONSTANTS
    Objs,    \* The Tcl_Objs.
    Ids,     \* The memory for structures: one for each object.
    UniMax,  \* UNI_MAX.
    Lists    \* Sequences of ranges a script makes values of, good ones or not.

ASSUME IdsAssumption == /\ IsFiniteSet(Objs) /\ IsFiniteSet(Ids)
                        /\ Ids \subseteq Nat \ {0}
                        /\ Cardinality(Ids) >= Cardinality(Objs)
ASSUME ClassAssumption == UniMax \in Nat /\ Lists \subseteq Seq([start : Int, end : Int])

VARIABLES obj, heap
vars == << obj, heap >>
s == [obj |-> obj, heap |-> heap]

NoId == 0
NoText == [form |-> "none", cr |-> << >>]
RangesOf(cr) == [form |-> "ranges", cr |-> cr]

NoObj == [rep |-> "free", id |-> NoId, list |-> NoText, text |-> NoText]
NoStruct == [kind |-> "free", refs |-> 0, cr |-> << >>, canon |-> FALSE]

InUse(o) == obj[o].rep # "free"
HasStruct(ob) == ob.rep \in {"scr", "asbr"}

\* get_codepoint and marpatcl_get_range_from_obj, for each element of the list.
Readable(content) ==
    IF content.form = "ranges"
    THEN \A k \in 1 .. Len(content.cr) :
           LET r == content.cr[k]
           IN  r.start \in 0 .. UniMax /\ r.end \in 0 .. UniMax /\ r.start <= r.end
    ELSE content.cr = << >>

-----------------------------------------------------------------------------
(* The structures: OTSCR, OTASBR                                           *)

FreeId(st) == CHOOSE id \in Ids : st.heap[id].kind = "free"

\* otscr_new, otasbr_new: a new structure has no references.
Made(st, id, kind, cr, canon) ==
    [st EXCEPT !.heap[id] = [kind |-> kind, refs |-> 0, cr |-> cr, canon |-> canon]]

Taken(st, id) == [st EXCEPT !.heap[id].refs = @ + 1]

\* release: the last one destroys.
Left(w) == IF w.refs - 1 > 0 THEN [w EXCEPT !.refs = @ - 1] ELSE NoStruct
Released(st, id) == [st EXCEPT !.heap[id] = Left(@)]

\* marpatcl_scr_norm, in place, for all who share it.
InOrder(w) == [w EXCEPT !.cr = Normalized(@), !.canon = TRUE]
Normed(st, id) == IF st.heap[id].canon THEN st ELSE [st EXCEPT !.heap[id] = InOrder(@)]

-----------------------------------------------------------------------------
(* The object types                                                        *)

\* The type of an object, with what it refers to or with its elements.
AtStruct(ob, rep, id) == [ob EXCEPT !.rep = rep, !.id = id]
AtList(ob, rep, list) == [ob EXCEPT !.rep = rep, !.list = list]

\* FreeIntRep
Dropped(st, o) ==
    IF HasStruct(st.obj[o])
    THEN [Released(st, st.obj[o].id) EXCEPT !.obj[o] = AtStruct(@, "none", NoId)]
    ELSE [st EXCEPT !.obj[o] = AtList(@, "none", NoText)]

\* new_otscr_obj, new_otasbr_obj: an object for a structure.
Wrapped(st, o, id) ==
    [Taken(st, id) EXCEPT !.obj[o] = [rep |-> st.heap[id].kind, id |-> id,
                                      list |-> NoText, text |-> NoText]]

\* Tcl_GetString, and rep_str: the text of a class is the one of its normal form.
WithText(st, o) ==
    LET ob == st.obj[o]
        n  == IF ob.rep = "scr" THEN Normed(st, ob.id) ELSE st
    IN  IF ob.text # NoText THEN st
        ELSE [n EXCEPT !.obj[o].text =
                 CASE ob.rep = "list" -> ob.list
                   [] ob.rep = "scr"  -> RangesOf(n.heap[ob.id].cr)
                   [] ob.rep = "asbr" -> [form |-> "alts", cr |-> n.heap[ob.id].cr]]

\* Tcl_ListObjGetElements: what is no list yet goes through its text.
AsList(st, o) ==
    IF st.obj[o].rep = "list" THEN st
    ELSE LET t == WithText(st, o)
         IN  [Dropped(t, o) EXCEPT !.obj[o] = AtList(@, "list", t.obj[o].text)]

\* get_otscr_from_obj for an object that is a class, or can be made one: the list
\* that scr_rep_from_any needs for it goes when all of it is read.
AsClass(st, o) ==
    IF st.obj[o].rep = "scr" THEN st
    ELSE LET l  == AsList(st, o)
             id == FreeId(l)
             m  == Taken(Made(l, id, "scr", l.obj[o].list.cr, FALSE), id)
         IN  [Dropped(m, o) EXCEPT !.obj[o] = AtStruct(@, "scr", id)]

\* What from_any will find in an object.
Content(o) ==
    CASE obj[o].rep = "list" -> obj[o].list
      [] obj[o].rep = "scr"  -> RangesOf(heap[obj[o].id].cr)
      [] obj[o].rep = "asbr" -> [form |-> "alts", cr |-> heap[obj[o].id].cr]
      [] OTHER -> obj[o].text

-----------------------------------------------------------------------------
(* What a script does                                                      *)

Becomes(st) == obj' = st.obj /\ heap' = st.heap

Text(o, l) ==
    /\ ~InUse(o)
    /\ obj' = [obj EXCEPT ![o] = [NoObj EXCEPT !.rep = "none", !.text = RangesOf(l)]]
    /\ UNCHANGED heap

List(o, l) ==
    /\ ~InUse(o)
    /\ obj' = [obj EXCEPT ![o] = AtList(NoObj, "list", RangesOf(l))]
    /\ UNCHANGED heap

\* The structure of the argument of a command.
Argument(o, r) == InUse(o) /\ ~InUse(r) /\ Readable(Content(o))
IdOf(st, o) == st.obj[o].id

\* norm-class: the result is another object for the same structure.
NormClass(o, r) ==
    /\ Argument(o, r)
    /\ LET st == AsClass(s, o)
       IN  Becomes(Wrapped(Normed(st, IdOf(st, o)), r, IdOf(st, o)))

\* Mutant: the complement replaces the ranges of the argument.
NegateInPlace(o, r) ==
    /\ Argument(o, r)
    /\ LET st == AsClass(s, o)
           n  == Normed(st, IdOf(st, o))
           c  == [n EXCEPT !.heap[IdOf(st, o)].cr = Complement(@, UniMax)]
       IN  Becomes(Wrapped(c, r, IdOf(st, o)))

\* negate-class.  The complement of no ranges is made without normalising them.
NegateClass(o, r) ==
    /\ Argument(o, r)
    /\ LET st == AsClass(s, o)
           n  == IF st.heap[IdOf(st, o)].cr = << >> THEN st ELSE Normed(st, IdOf(st, o))
           id == FreeId(n)
       IN  Becomes(Wrapped(Made(n, id, "scr", Complement(n.heap[IdOf(n, o)].cr, UniMax), TRUE),
                           r, id))

\* 2asbr, and 2assr.
Encode(o, r) ==
    /\ Argument(o, r)
    /\ LET st == AsClass(s, o)
           n  == Normed(st, IdOf(st, o))
           id == FreeId(n)
       IN  Becomes(Wrapped(Made(n, id, "asbr", n.heap[IdOf(n, o)].cr, FALSE), r, id))

\* A command on what is no class fails, after the object became a list, and lost
\* the alternatives it may have had.
Refused(o) ==
    /\ InUse(o)
    /\ ~Readable(Content(o))
    /\ Becomes(AsList(s, o))

\* Mutant: rep_dup does not count.
DupUncounted(o, r) ==
    /\ InUse(o) /\ ~InUse(r)
    /\ obj' = [obj EXCEPT ![r] = obj[o]]
    /\ UNCHANGED heap

\* Tcl_DuplicateObj: the copy has the text, and by rep_dup the same structure.
Dup(o, r) ==
    /\ InUse(o) /\ ~InUse(r)
    /\ Becomes([(IF HasStruct(obj[o]) THEN Taken(s, obj[o].id) ELSE s) EXCEPT !.obj[r] = obj[o]])

Read(o) == InUse(o) /\ Becomes(WithText(s, o))
Llength(o) == InUse(o) /\ Becomes(AsList(s, o))
Free(o) == InUse(o) /\ Becomes([Dropped(s, o) EXCEPT !.obj[o] = NoObj])

Init == obj = [o \in Objs |-> NoObj] /\ heap = [id \in Ids |-> NoStruct]

Next ==
    \/ \E o \in Objs, l \in Lists : Text(o, l) \/ List(o, l)
    \/ \E o \in Objs, r \in Objs :
         NormClass(o, r) \/ NegateClass(o, r) \/ Encode(o, r) \/ Dup(o, r)
    \/ \E o \in Objs : Refused(o) \/ Read(o) \/ Llength(o) \/ Free(o)

Spec == Init /\ [][Next]_vars

-----------------------------------------------------------------------------
(* Properties                                                              *)

\* A structure lives exactly as long as an object refers to it, and its count is
\* the number of those objects: no use after the release, and no leak, whatever
\* the order of copies, conversions and failures (scr_objtype.c:76-134, 286-291).
RefsExact ==
    /\ \A o \in Objs : HasStruct(obj[o]) => heap[obj[o].id].kind = obj[o].rep
    /\ \A id \in Ids :
         LET users == {o \in Objs : obj[o].id = id}
         IN  /\ heap[id].refs = Cardinality(users)
             /\ (heap[id].kind = "free") <=> (users = {})

\* What a content stands for.
Meaning(content) ==
    IF content.form = "alts" /\ content.cr # << >> THEN [kind |-> "alts", points |-> Points(content.cr)]
    ELSE IF Readable(content) THEN [kind |-> "class", points |-> Points(content.cr)]
    ELSE [kind |-> "junk", points |-> {}]

\* The text of an object and what is behind it say the same, although the ranges
\* are normalised under a text that stays (cc_objtype.tcl:38-40).
TextAgrees ==
    \A o \in Objs : InUse(o) /\ obj[o].text # NoText => Meaning(obj[o].text) = Meaning(Content(o))

\* The values of a script are the immutable ones of ClassValues: no command on
\* an object changes what another object says, shared or not.
Given == {Meaning(RangesOf(l)) : l \in Lists}
Nothing == [kind |-> "nothing", points |-> {}]
Abstract == INSTANCE ClassValues WITH
    Values <- Given,
    val <- [o \in Objs |-> IF InUse(o) THEN Meaning(Content(o)) ELSE Nothing]
ValuesSpec == Abstract!Spec
=============================================================================
