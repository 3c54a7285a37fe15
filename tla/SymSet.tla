------------------------------- MODULE SymSet -------------------------------
(***************************************************************************)
(* The sparse/dense integer sets of the C runtime: runtime-c/symset.c (and *)
(* byteset.c, which is the same algorithm over bytes).                     *)
(*                                                                         *)
(* Three fields represent a set of symbols 0 .. Cap-1.                     *)
(*                                                                         *)
(*   n       the number of elements                      (SZ)              *)
(*   dense   dense[0 .. n-1] are the elements, in order  (DE)              *)
(*   sparse  sparse[x] is where x would be in dense      (XL)              *)
(*                                                                         *)
(* Neither array is ever initialised.  A membership test reads garbage     *)
(* from `sparse` for a symbol that was never added, and has to come to the *)
(* right answer in spite of it.  The garbage is chosen nondeterministically*)
(* by Init, from DenseJunk and SparseJunk.                                 *)
(*                                                                         *)
(* Clients assign a whole set by writing into `dense` (the pointer         *)
(* symset_dense returns, given to marpa_r_terminals_expected) and calling  *)
(* symset_link.  Between the two calls the fields disagree, which `filled` *)
(* records.                                                                *)
(*                                                                         *)
(* A definition whose comment starts with "Mutant" is a wrong version of   *)
(* the one it precedes, for the mutation runs.                             *)
(***************************************************************************)
EXTENDS Integers, Sequences

CONSTANTS
    Cap,         \* CAP, the capacity: one more than the largest symbol.
    MaxSym,      \* Largest value of a marpatcl_rtc_sym: 2^16 - 1.
    DenseJunk,   \* What uninitialised cells of `dense` may hold.
    SparseJunk,  \* What uninitialised cells of `sparse` may hold.
    MaxBatch     \* Bound: longest vector given to one `include`.

\* `sparse` has elements of marpatcl_rtc_sym, an unsigned 16-bit integer.
\* It can hold every index of `dense` as long as Cap is at most 2^16.
ASSUME CapAssumption == MaxSym \in Nat /\ Cap \in 1 .. MaxSym + 1
ASSUME JunkAssumption == DenseJunk \subseteq Int /\ SparseJunk \subseteq 0 .. MaxSym
ASSUME BatchAssumption == MaxBatch \in Nat

Sym   == 0 .. Cap-1

None == -1   \* No symbol, and `filled` when no bulk write waits for its link.

VARIABLES
    n, dense, sparse,
    filled,   \* The number of cells bulk-written and not linked yet, or None.
    todo,     \* The rest of the vector a running `include` still has to add.
    last      \* History: the last call, with its arguments and its answer.

vars == << n, dense, sparse, filled, todo, last >>

-----------------------------------------------------------------------------
(* Helpers                                                                 *)

\* Mutant: the dense array is not consulted.
ContainsBySparse(x) == sparse[x] < n

\* The test of marpatcl_rtc_symset_contains, also inlined in add and include.
\* The second conjunct is read only when the first holds: an index of garbage
\* beyond n is never used.
Contains(x) == sparse[x] < n /\ dense[sparse[x]] = x

\* Lists that a bulk assignment may store: the terminals libmarpa expects
\* are distinct.
Listing(k, f) == \A i, j \in 0 .. k-1 : f[i] = f[j] => i = j

\* A call with the symbol or the list it is given, and its answer.
Called(op, x, list, answer) ==
    [op |-> op, sym |-> x, list |-> list, answer |-> answer]

\* The elements that dense[0 .. k-1] lists.
List(k, f) == [ i \in 1 .. k |-> f[i-1] ]

\* No call of the interface is under way.
Quiet == filled = None /\ todo = << >>

-----------------------------------------------------------------------------
(* Actions                                                                 *)

\* marpatcl_rtc_symset_init: the arrays are allocated and left as they are.
Init ==
    /\ n = 0
    /\ dense  \in [Sym -> DenseJunk]
    /\ sparse \in [Sym -> SparseJunk]
    /\ filled = None
    /\ todo   = << >>
    /\ last = Called("init", None, << >>, "none")

\* Mutant: the contents are kept.
ClearKeeps ==
    /\ Quiet
    /\ UNCHANGED n
    /\ last' = Called("clear", None, << >>, "none")
    /\ UNCHANGED << dense, sparse, filled, todo >>

\* marpatcl_rtc_symset_clear: constant time, the old contents stay in memory.
Clear ==
    /\ Quiet
    /\ n' = 0
    /\ last' = Called("clear", None, << >>, "none")
    /\ UNCHANGED << dense, sparse, filled, todo >>

\* Mutant: members are added again.
InsertAgain(x) ==
    /\ dense'  = [dense EXCEPT ![n] = x]
    /\ sparse' = [sparse EXCEPT ![x] = n]
    /\ n' = n + 1

\* The effect of adding x: nothing for a member, a new last cell otherwise.
Insert(x) ==
    \/ /\ Contains(x)
       /\ UNCHANGED << n, dense, sparse >>
    \/ /\ ~ Contains(x)
       /\ dense'  = [dense EXCEPT ![n] = x]
       /\ sparse' = [sparse EXCEPT ![x] = n]
       /\ n' = n + 1

\* marpatcl_rtc_symset_add
Add(x) ==
    /\ Quiet
    /\ Insert(x)
    /\ last' = Called("add", x, << >>, "none")
    /\ UNCHANGED << filled, todo >>

\* marpatcl_rtc_symset_include takes a vector and runs the same code for each
\* element of it.  Its caller gives it the always-active symbols right after
\* it has linked the ones the parser expects, so that the vector overlaps
\* the contents.
IncludeBegin(v) ==
    /\ Quiet
    /\ todo' = v
    /\ UNCHANGED << n, dense, sparse, filled, last >>

IncludeOne ==
    /\ todo # << >>
    /\ Insert(Head(todo))
    /\ todo' = Tail(todo)
    /\ last' = Called("add", Head(todo), << >>, "none")
    /\ UNCHANGED filled

\* marpa_r_terminals_expected writes k distinct symbols into the array that
\* marpatcl_rtc_symset_dense returned.  Neither n nor `sparse` follow.
Fill(k, d) ==
    /\ Quiet
    /\ Listing(k, d)
    /\ dense'  = [i \in Sym |-> IF i < k THEN d[i] ELSE dense[i]]
    /\ filled' = k
    /\ last' = Called("replace", None, List(k, d), "none")
    /\ UNCHANGED << n, sparse, todo >>

\* Mutant: the back references are not updated.
LinkCountOnly ==
    /\ filled # None
    /\ n' = filled
    /\ filled' = None
    /\ UNCHANGED << dense, sparse, todo, last >>

\* marpatcl_rtc_symset_link
Link ==
    /\ filled # None
    /\ n' = filled
    /\ sparse' = [x \in Sym |->
                     IF \E k \in 0 .. filled-1 : dense[k] = x
                     THEN CHOOSE k \in 0 .. filled-1 : dense[k] = x
                     ELSE sparse[x]]
    /\ filled' = None
    /\ UNCHANGED << dense, todo, last >>

\* marpatcl_rtc_symset_contains
Query(x) ==
    /\ Quiet
    /\ last' = Called("contains", x, << >>, IF Contains(x) THEN "yes" ELSE "no")
    /\ UNCHANGED << n, dense, sparse, filled, todo >>

Batches == UNION { [1 .. k -> Sym] : k \in 0 .. MaxBatch }

Next ==
    \/ Clear
    \/ \E x \in Sym : Add(x)
    \/ \E x \in Sym : Query(x)
    \/ \E v \in Batches : IncludeBegin(v)
    \/ IncludeOne
    \/ \E k \in 0 .. Cap, d \in [Sym -> Sym] : Fill(k, d)
    \/ Link

Spec == Init /\ [][Next]_vars

-----------------------------------------------------------------------------
(* Properties                                                              *)

Calls == [op : {"init", "clear", "add", "replace", "contains"},
          sym : Sym \cup {None}, list : Seq(Sym), answer : {"none", "yes", "no"}]

\* Type invariant.  `dense` and `sparse` hold symbols, indices and garbage.
TypeOK ==
    /\ n \in 0 .. Cap
    /\ dense \in [Sym -> Int]
    /\ sparse \in [Sym -> 0 .. MaxSym]
    /\ filled \in {None} \cup (0 .. Cap)
    /\ todo \in Seq(Sym)
    /\ last \in Calls

\* The elements proper, as far as `dense` lists them.
Elements == { dense[i] : i \in 0 .. n-1 }

\* The constant-time test of `contains` agrees with a search of the listed
\* elements, whatever the uninitialised memory holds and however often the
\* set was cleared and reused: old entries of `sparse` are harmless.
\* While a bulk write waits for its link nobody may ask.
ContainsIsExact ==
    filled = None => \A x \in Sym : Contains(x) <=> x \in Elements

\* `add` and `include` store at dense[n] without a check.  The store stays
\* inside of the array: once the set is full every symbol is a member.
RoomForNewcomer ==
    filled = None => \A x \in Sym : Contains(x) \/ n < Cap

\* The set implements the promise of OrderedSet.  A bulk write takes effect
\* at once for the client, the link that follows changes nothing it can see.
Listed == List(IF filled = None THEN n ELSE filled, dense)

Promise == INSTANCE OrderedSet WITH order <- Listed

ImplementsOrderedSet == Promise!Spec

=============================================================================
