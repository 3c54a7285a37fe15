----------------------------- MODULE Evaluation -----------------------------
(***************************************************************************)
(* The life of the semantic values of a parser, or lexer, of the C engine: *)
(*                                                                         *)
(*   lexer.c   complete, get_sv: a value for the lexemes at a location     *)
(*   store.c   which owns it, and gives libmarpa a number for it           *)
(*   sem_tcl.c handlers that replace lexemes and values (match alternate)  *)
(*   parser.c  complete, get_sv: evaluation of the parse trees             *)
(*   sem_tcl.c the results as Tcl values; and the lists of a parser that   *)
(*             has no G1 grammar ("lexing-only mode")                      *)
(*   rtc.c     reset, for the next input                                   *)
(*   gen-format/cparse-critcl.tcl, the instance that holds the result      *)
(*                                                                         *)
(* First the engine decodes its grammar (GrammarCode).  The libmarpa       *)
(* recogniser is external: the trees it may find over n tokens are         *)
(* Programs[n], as the steps of its valuator.  How the engine comes from   *)
(* one lexeme to the next is in Engine.  A definition whose comment starts *)
(* with "Mutant" is a wrong version of the one it precedes, for the        *)
(* mutation runs.                                                          *)
(***************************************************************************)
EXTENDS GrammarCode, SemValue

CONSTANTS
    Modes,        \* "parser", and "lexer" for one without G1 grammar.
    Parsed,       \* The grammar with which input is read,
    Programs,     \* ... and the parse trees it has for n tokens, as steps.
    L0Semantics,  \* Lists of keys: what the values of lexemes are made of.
    Names,        \* Names that handlers give to match alternate.
    MaxTokens,    \* Bound: locations of the first input; one less in the next.
    MaxFound,     \* Bound: lexemes found at one location.
    MaxStore,     \* Bound: entries of the store.
    MaxInputs     \* Bound: inputs in a row, for each mode.

\* Keys, of marpa_runtime_c.h.
START == 0
LHS_NAME == 6
LHS_ID == 7
RULE_NAME == 8
RULE_ID == 9
VALUE == 10
A_FIRST == 50

Keys == START .. VALUE

\* The grammar with which input is read: one of G1, with what the two get_sv know.
ASSUME ParsedAssumption ==
    /\ Parsed \in Grammars
    /\ \A r \in Range(Parsed.rules) :
         /\ r.type # "brange"
         /\ r.sema = << A_FIRST >> \/ r.sema \in Seq(Keys)

ASSUME LexemesAssumption == Lexemes \subseteq Nat

ASSUME L0Assumption == \A keys \in L0Semantics : keys \in Seq(Keys)

\* What libmarpa promises of the steps of its valuator.  Each puts its value behind
\* those that there are; that of a rule takes the place of the last ones, which are those
\* of the right hand side; one is left at the end.  Tokens are among those read.
\* (::first is given to rules with something in the right hand side that is not masked.)
Height(prog, k) == IF k = 1 THEN 0 ELSE prog[k-1].at + 1
Taken(step) == IF step.do = "rule" THEN step.args ELSE 0

ASSUME ProgramsAssumption ==
    /\ MaxTokens \in Nat /\ DOMAIN Programs = 0 .. MaxTokens
    /\ \A n \in 0 .. MaxTokens : \A prog \in Programs[n] :
         /\ prog \in Seq(Range(prog)) /\ prog # << >> /\ Last(prog).at = 0
         /\ \A k \in 1 .. Len(prog) :
              LET s == prog[k] IN
              /\ s.do \in {"token", "nulling", "rule"}
              /\ s.at \in Nat /\ s.at + Taken(s) = Height(prog, k)
              /\ s.do = "token" => s.loc \in 1 .. n
              /\ s.do = "rule"  => /\ s.args \in Nat \ {0} /\ s.rule \in 0 .. Len(Parsed.rules) - 1
                                  /\ LET r == Parsed.rules[s.rule + 1]
                                     IN  r.sema = << A_FIRST >> => Len(r.mask) < s.args

VARIABLES
    mode, l0semantic,
    phase,    \* Where the engine is.
    inputs,   \* The inputs so far.
    done,     \* rtc: the engine was used before.
    recce,    \* PAR.recce: "none" when never set, "live", or "null".
    wild,     \* parser_reset worked with a recogniser and a grammar never set.
    failed,
    heap,     \* The values.
    store,    \* The store; the number of an entry is its place, from 0.
    found,    \* FOUND: the lexemes at the location,
    svids,    \* ... LEX.m_sv: the numbers of their values.
    sv,       \* lexer complete: the value made last.
    clearfirst, \* LEX.m_clearfirst
    locs,     \* The alternatives libmarpa was given at each location.
    steps,    \* What is left of the program that is evaluated.
    trees,    \* The programs evaluated for this input.
    es,       \* The evaluation stack.
    result,   \* instance->result
    tokens, values, \* marpatcl_rtc_lex: the lists of the lexing-only mode.
    refused,  \* History: the names match alternate did not know.
    said,     \* History: what each entry of the store was made of,
    meant     \* ... and what the entries of es and the result have to be.

lexVars == << found, svids, sv, clearfirst >>
parVars == << recce, locs, steps, trees, es, result >>
listVars == << tokens, values >>
callVars == << mode, l0semantic, inputs, done, wild >>
vars == << codeVars, mode, l0semantic, phase, inputs, done, recce, wild, failed, heap, store,
           found, svids, sv, clearfirst, locs, steps, trees, es, result, tokens, values,
           refused, said, meant >>

-----------------------------------------------------------------------------
(* Values of lexemes                                                       *)

Location == Len(locs) + 1

\* Bound: there is memory for n more values.
Room(n) == Cardinality(Unused(heap)) >= n

\* LEX.single_sv: the value does not depend on the lexeme.
SingleSv == ToSet(l0semantic) \cap {LHS_NAME, LHS_ID, RULE_NAME, RULE_ID} = {}

\* The name of a lexeme's rule is the lexeme.
LexKey(key) == IF key = RULE_NAME THEN LHS_NAME ELSE key
LexTree(key, terminal) ==
    Tree(LexKey(key), IF key \in {START, VALUE} THEN Location ELSE terminal, << >>)

\* A piece of a vector is made once for each key: the places before k with its key.
Earlier(keys, k) == {j \in 1 .. k - 1 : keys[j] = keys[k]}

LexPiece(h, v, keys, k, terminal) ==
    IF Earlier(keys, k) # {} THEN VecPush(h, v, h[v].elems[Min(Earlier(keys, k))])
    ELSE LET x == FreeSv(h)
             t == LexTree(keys[k], terminal)
         IN  VecPush(New(h, x, t.key, t.at), v, x)

\* The first pieces, put into the vector: none, one, and so on.
LexPieces(h, v, keys, terminal) ==
    LET all[k \in 0 .. Len(keys)] ==
          IF k = 0 THEN h ELSE LexPiece(all[k-1], v, keys, k, terminal)
    IN  all

\* Mutant: the vector is given up before its element is kept.
LexSvEarly(h, terminal) ==
    LET keys == [k \in 1 .. Len(l0semantic) |-> LexKey(l0semantic[k])]
        v    == FreeSv(h)
        full == LexPieces(Ref(New(h, v, Vec, 0), v), v, keys, terminal)[Len(keys)]
        el   == full[v].elems[1]
    IN  IF Len(keys) = 1 THEN [heap |-> Ref(Unrefs(full, << v >>), el), sv |-> el]
        ELSE [heap |-> full, sv |-> v]

\* get_sv of lexer.c: the value, with the reference of the caller.  A vector of
\* one element is replaced by the element.
LexSv(h, terminal) ==
    LET keys == [k \in 1 .. Len(l0semantic) |-> LexKey(l0semantic[k])]
        v    == FreeSv(h)
        full == LexPieces(Ref(New(h, v, Vec, 0), v), v, keys, terminal)[Len(keys)]
        el   == full[v].elems[1]
    IN  IF Len(keys) = 1 THEN [heap |-> Unrefs(Ref(full, el), << v >>), sv |-> el]
        ELSE [heap |-> full, sv |-> v]

LexSvTree(terminal) ==
    LET args == [k \in 1 .. Len(l0semantic) |-> LexTree(l0semantic[k], terminal)]
    IN  IF Len(args) = 1 THEN args[1] ELSE Tree(Vec, 0, args)

-----------------------------------------------------------------------------
(* lexer.c, complete                                                       *)

LexBegin ==
    /\ phase = "read"
    /\ mode = "parser" => recce = "live"
    /\ Len(locs) + inputs <= MaxTokens
    /\ found' = << >> /\ svids' = << >> /\ sv' = Null /\ clearfirst' = TRUE
    /\ phase' = "trees"
    /\ UNCHANGED << codeVars, callVars, parVars, listVars, failed, heap, store, refused, said,
                    meant >>

\* A lexeme that was not found before, in parser mode: the store takes over the
\* reference of get_sv.  The value is made once when it is the same for all.
LexParse(t) ==
    /\ phase = "trees" /\ mode = "parser"
    /\ Len(found) < MaxFound /\ Len(store) < MaxStore /\ Room(1 + Len(l0semantic))
    /\ t \notin ToSet(found)
    /\ found' = Append(found, t)
    /\ IF ~SingleSv \/ sv = Null
       THEN LET made == LexSv(heap, t)
            IN  /\ sv' = made.sv
                /\ store' = Append(store, made.sv)
                /\ heap' = Unrefs(Ref(made.heap, made.sv), << made.sv >>)
                /\ said' = Append(said, LexSvTree(t))
                /\ svids' = Append(svids, Len(store))
       ELSE /\ svids' = Append(svids, Last(svids))
            /\ UNCHANGED << sv, store, heap, said >>
    /\ UNCHANGED << codeVars, callVars, parVars, listVars, phase, failed, clearfirst, refused,
                    meant >>

\* What one lexeme does to the lists of the lexing-only mode: the callback
\* (lex_token) gets its name, then its value, and owns them.
Posted(h, t, tlist, vlist) ==
    LET isnew == ~SingleSv \/ sv = Null
        made  == IF isnew THEN LexSv(h, t) ELSE [heap |-> h, sv |-> sv]
        tv    == FreeSv(made.heap)
        h1    == Ref(Ref(New(made.heap, tv, LHS_NAME, t), tv), made.sv)
    IN  /\ heap' = IF isnew THEN Unrefs(h1, << made.sv >>) ELSE h1
        /\ sv' = made.sv
        /\ tokens' = Append(tlist, tv)
        /\ values' = Append(vlist, made.sv)

\* Mutant: the lists are not cleared for a new location.
LexPostKept(t) ==
    /\ phase = "trees" /\ mode = "lexer"
    /\ Len(found) < MaxFound /\ Room(2 + Len(l0semantic))
    /\ t \notin ToSet(found)
    /\ found' = Append(found, t)
    /\ Posted(heap, t, tokens, values)
    /\ UNCHANGED << codeVars, callVars, parVars, phase, failed, store, svids, clearfirst,
                    refused, said, meant >>

\* The same in lexing-only mode.  With the first lexeme the lists are cleared.
LexPost(t) ==
    /\ phase = "trees" /\ mode = "lexer"
    /\ Len(found) < MaxFound /\ Room(2 + Len(l0semantic))
    /\ t \notin ToSet(found)
    /\ found' = Append(found, t)
    /\ IF found = << >> THEN Posted(Unrefs(heap, tokens \o values), t, << >>, << >>)
                        ELSE Posted(heap, t, tokens, values)
    /\ UNCHANGED << codeVars, callVars, parVars, phase, failed, store, svids, clearfirst,
                    refused, said, meant >>

\* Only discarded symbols were found: the lexer starts again.
LexDiscard ==
    /\ phase = "trees"
    /\ found = << >>
    /\ phase' = "read"
    /\ UNCHANGED << codeVars, callVars, parVars, listVars, lexVars, failed, heap, store, refused,
                    said, meant >>

\* The lexemes at the location are complete.  There may be an event for them; in
\* lexing-only mode the lists go to the script.
LexEnd ==
    /\ phase = "trees"
    /\ found # << >>
    /\ phase' = IF mode = "parser" THEN "event" ELSE "posted"
    /\ UNCHANGED << codeVars, callVars, parVars, listVars, lexVars, failed, heap, store, refused,
                    said, meant >>

PostDone ==
    /\ phase = "posted"
    /\ locs' = Append(locs, << >>)
    /\ phase' = "read"
    /\ UNCHANGED << codeVars, callVars, recce, steps, trees, es, result, listVars, lexVars,
                    failed, heap, store, refused, said, meant >>

-----------------------------------------------------------------------------
(* The handler of an event: sem_tcl.c                                      *)

\* match alternate with a name: the first one replaces what was found.  (A name given
\* twice is in Engine, "twice".)
Alternate(name) ==
    /\ phase = "event"
    /\ Len(store) < MaxStore /\ Room(1)
    /\ IF Symid(name) = -1
       THEN /\ refused' = refused \cup {name}
            /\ UNCHANGED << heap, store, said, found, svids, clearfirst >>
       ELSE LET x == FreeSv(heap)
                t == Symid(name)
                f == IF clearfirst THEN << >> ELSE found
            IN  /\ t \notin ToSet(f)
                /\ heap' = Ref(New(heap, x, VALUE, Location), x)
                /\ store' = Append(store, x)
                /\ said' = Append(said, Tree(VALUE, Location, << >>))
                /\ found' = Append(f, t)
                /\ svids' = Append(IF clearfirst THEN << >> ELSE svids, Len(store))
                /\ clearfirst' = FALSE
                /\ UNCHANGED refused
    /\ UNCHANGED << codeVars, callVars, parVars, listVars, phase, failed, sv, meant >>

\* match clear: an emptied set is taken as a discard.
Clear ==
    /\ phase = "event"
    /\ found' = << >> /\ svids' = << >> /\ clearfirst' = FALSE
    /\ UNCHANGED << codeVars, callVars, parVars, listVars, phase, failed, heap, store, sv,
                    refused, said, meant >>

-----------------------------------------------------------------------------
(* parser.c, enter                                                         *)

\* The alternatives go to libmarpa, which may be exhausted with them.
ParserEnter ==
    /\ phase = "event"
    /\ IF found = << >> THEN phase' = "read" /\ UNCHANGED locs
       ELSE /\ locs' = Append(locs, [k \in 1 .. Len(found) |-> << found[k], svids[k] >>])
            /\ phase' \in {"read", "complete"}
    /\ UNCHANGED << codeVars, callVars, recce, steps, trees, es, result, listVars, lexVars,
                    failed, heap, store, refused, said, meant >>

\* ... or does not accept one of them.
Reject ==
    /\ phase = "event"
    /\ found # << >>
    /\ failed' = TRUE
    /\ phase' = "end"
    /\ UNCHANGED << codeVars, callVars, parVars, listVars, lexVars, heap, store, refused, said,
                    meant >>

\* The end of the input.  The parser may be complete already.
Eof ==
    /\ phase = "read"
    /\ phase' = IF mode = "parser" /\ recce = "live" THEN "complete" ELSE "end"
    /\ UNCHANGED << codeVars, callVars, parVars, listVars, lexVars, failed, heap, store, refused,
                    said, meant >>

-----------------------------------------------------------------------------
(* parser.c, complete                                                      *)

\* Programs whose tokens are among the alternatives at their locations.
Fits(prog) ==
    \A k \in 1 .. Len(prog) : prog[k].do = "token" =>
      \E a \in 1 .. Len(locs[prog[k].loc]) : locs[prog[k].loc][a][1] = prog[k].symbol
Parses(n) == {prog \in Programs[n] : Fits(prog)}

\* The parses at the latest location that has any.
Latest ==
    LET ends == {n \in 0 .. Len(locs) : Parses(n) # {}}
    IN  IF ends = {} THEN {} ELSE Parses(Max(ends))

\* No location has a parse.
CompleteFail ==
    /\ phase = "complete"
    /\ Latest = {}
    /\ failed' = TRUE
    /\ recce' = "null"
    /\ phase' = "end"
    /\ UNCHANGED << codeVars, callVars, locs, steps, trees, es, result, listVars, lexVars, heap,
                    store, refused, said, meant >>

\* marpa_t_next: the next parse tree at that location.
CompleteTree ==
    /\ phase = "complete"
    /\ \E prog \in Latest \ trees :
         /\ steps' = prog
         /\ trees' = trees \cup {prog}
    /\ phase' = "step"
    /\ UNCHANGED << codeVars, callVars, recce, locs, es, result, listVars, lexVars, failed, heap,
                    store, refused, said, meant >>

Step(do) == phase = "step" /\ steps # << >> /\ Head(steps).do = do

\* MARPA_STEP_TOKEN: the value is found in the store by its number.
StepToken ==
    /\ Step("token")
    /\ LET loc  == locs[Head(steps).loc]
           svid == loc[CHOOSE a \in 1 .. Len(loc) : loc[a][1] = Head(steps).symbol][2]
           at   == Head(steps).at
       IN  /\ es' = Filled(es, at, store[svid + 1])
           /\ heap' = Unrefs(Ref(heap, store[svid + 1]), Old(es, at))
           /\ meant' = [meant EXCEPT !.es = Append(@, said[svid + 1])]
    /\ steps' = Tail(steps)
    /\ UNCHANGED << codeVars, callVars, recce, locs, trees, result, listVars, lexVars, phase,
                    failed, store, refused, said >>

\* MARPA_STEP_NULLING_SYMBOL
StepNulling ==
    /\ Step("nulling")
    /\ es' = Filled(es, Head(steps).at, Null)
    /\ heap' = Unrefs(heap, Old(es, Head(steps).at))
    /\ meant' = [meant EXCEPT !.es = Append(@, NullTree)]
    /\ steps' = Tail(steps)
    /\ UNCHANGED << codeVars, callVars, recce, locs, trees, result, listVars, lexVars, phase,
                    failed, store, refused, said >>

\* get_sv of parser.c: a value for rule rid with no references yet, or, for
\* ::first, the borrowed first element.
RuleAt(key, rid) == IF key \in {LHS_ID, LHS_NAME} THEN rules[rid + 1].lhs ELSE rid

RulePiece(h, v, keys, k, rhs, rid) ==
    IF Earlier(keys, k) # {} THEN VecPush(h, v, h[v].elems[Min(Earlier(keys, k))])
    ELSE LET x == FreeSv(h)
         IN  VecPush(IF keys[k] = VALUE THEN VecCopy(h, x, rhs)
                     ELSE New(h, x, keys[k], RuleAt(keys[k], rid)), v, x)

RulePieces(h, v, keys, rhs, rid) ==
    LET all[k \in 0 .. Len(keys)] ==
          IF k = 0 THEN h ELSE RulePiece(all[k-1], v, keys, k, rhs, rid)
    IN  all

RuleSv(h, rhs, rid) ==
    LET keys == G1decode(code.semantic, rid)
        v    == FreeSv(h)
    IN  IF keys = << A_FIRST >> THEN [heap |-> h, sv |-> rhs[1]]
        ELSE [heap |-> RulePieces(New(h, v, Vec, 0), v, keys, rhs, rid)[Len(keys)], sv |-> v]

\* What the grammar says the value is, from the values of the right hand side.
RuleTree(args, rid) ==
    LET r     == grammar.rules[rid + 1]
        shown == [j \in 1 .. Cardinality({k \in 1 .. Len(args) : k - 1 \notin Range(r.mask)}) |->
                    args[CHOOSE k \in 1 .. Len(args) :
                           /\ k - 1 \notin Range(r.mask)
                           /\ j = Cardinality({i \in 1 .. k : i - 1 \notin Range(r.mask)})]]
        Piece(key) == CASE key = VALUE -> Tree(Vec, 0, shown)
                        [] key \in {LHS_ID, LHS_NAME} -> Tree(key, r.lhs, << >>)
                        [] OTHER -> Tree(key, rid, << >>)
    IN  IF r.sema = << A_FIRST >> THEN shown[1]
        ELSE Tree(Vec, 0, [k \in 1 .. Len(r.sema) |-> Piece(r.sema[k])])

\* MARPA_STEP_RULE: the values of the right hand side are copied, masked, made
\* into a value, which replaces them on the stack.
StepRule ==
    /\ Step("rule")
    /\ Room(1 + Len(G1decode(code.semantic, Head(steps).rule)))
    /\ LET rid  == Head(steps).rule
           from == Head(steps).at
           args == SubSeq(es, from + 1, from + Head(steps).args)
           cut  == Filtered(args, G1decode(code.mask, rid))
           h1   == Unrefs(Refs(heap, args), cut.gone)
           made == RuleSv(h1, cut.kept, rid)
       IN  /\ es' = Append(SubSeq(es, 1, from), made.sv)
           /\ heap' = Unrefs(Unrefs(Ref(made.heap, made.sv), SubSeq(es, from + 1, Len(es))), cut.kept)
           /\ meant' = [meant EXCEPT !.es =
                 Append(SubSeq(@, 1, from), RuleTree(SubSeq(@, from + 1, Len(@)), rid))]
    /\ steps' = Tail(steps)
    /\ UNCHANGED << codeVars, callVars, recce, locs, trees, result, listVars, lexVars, phase,
                    failed, store, refused, said >>

\* The tree is done: the instance (cparse, result) gives up its result before it
\* takes the new one.
TreeDone ==
    /\ phase = "step" /\ steps = << >>
    /\ heap' = Unrefs(Ref(Unrefs(heap, << result >>), es[1]), es)
    /\ result' = es[1]
    /\ es' = << >>
    /\ meant' = [es |-> << >>, result |-> meant.es[1]]
    /\ phase' = "complete"
    /\ UNCHANGED << codeVars, callVars, recce, locs, steps, trees, listVars, lexVars, failed,
                    store, refused, said >>

\* No more trees.  What comes behind the parse can only be discarded.
CompleteDone ==
    /\ phase = "complete"
    /\ trees # {} /\ Latest \subseteq trees
    /\ recce' = "null"
    /\ phase' = "read"
    /\ UNCHANGED << codeVars, callVars, locs, steps, trees, es, result, listVars, lexVars,
                    failed, heap, store, refused, said, meant >>

-----------------------------------------------------------------------------
(* The instance                                                            *)

\* rtc_enter: an engine that was used is reset first.  parser_reset makes a new
\* recogniser, in any mode.
Process ==
    /\ phase = "idle" /\ Decoded
    /\ grammar = Parsed
    /\ inputs < MaxInputs[mode]
    /\ inputs' = inputs + 1
    /\ done' = TRUE
    /\ IF done
       THEN /\ heap' = Unrefs(heap, store)
            /\ store' = << Null >>
            /\ said' = << NullTree >>
            /\ wild' = (recce = "none")
            /\ recce' = "live"
            /\ failed' = FALSE
       ELSE UNCHANGED << heap, store, said, wild, recce, failed >>
    /\ locs' = << >> /\ trees' = {}
    /\ phase' = "read"
    /\ UNCHANGED << codeVars, mode, l0semantic, steps, es, result, listVars, lexVars, refused,
                    meant >>

\* sv_complete: the result, or the error.
End ==
    /\ phase = "end"
    /\ phase' = "idle"
    /\ UNCHANGED << codeVars, callVars, parVars, listVars, lexVars, failed, heap, store, refused,
                    said, meant >>

\* The instance goes: its result, its lists, and the engine with the store.
Destroy ==
    /\ phase = "idle"
    /\ inputs > 0
    /\ heap' = Unrefs(Unrefs(Unrefs(heap, << result >>), tokens \o values), store)
    /\ result' = Null
    /\ tokens' = << >> /\ values' = << >>
    /\ store' = << >> /\ said' = << >>
    /\ meant' = [es |-> << >>, result |-> NullTree]
    /\ phase' = "gone"
    /\ UNCHANGED << codeVars, callVars, recce, locs, steps, trees, es, lexVars, failed, refused >>

Init ==
    /\ DecodeInit
    /\ mode \in Modes
    /\ l0semantic \in L0Semantics
    /\ phase = "idle" /\ inputs = 0 /\ done = FALSE /\ wild = FALSE /\ failed = FALSE
    /\ recce = IF mode = "parser" THEN "live" ELSE "none"
    /\ heap = [x \in SvIds |-> NoSv]
    /\ store = << Null >> /\ said = << NullTree >>
    /\ found = << >> /\ svids = << >> /\ sv = Null /\ clearfirst = TRUE
    /\ locs = << >> /\ steps = << >> /\ trees = {} /\ es = << >> /\ result = Null
    /\ tokens = << >> /\ values = << >>
    /\ refused = {}
    /\ meant = [es |-> << >>, result |-> NullTree]

DecodeStep ==
    /\ Decode
    /\ UNCHANGED << callVars, parVars, listVars, lexVars, phase, failed, heap, store, refused,
                    said, meant >>

Lex == LexBegin \/ LexDiscard \/ LexEnd \/ PostDone \/ \E t \in Lexemes : LexParse(t) \/ LexPost(t)
Handler == Clear \/ \E name \in Names : Alternate(name)
Parse == ParserEnter \/ Reject \/ Eof \/ CompleteFail \/ CompleteTree \/ StepToken \/ StepNulling
         \/ StepRule \/ TreeDone \/ CompleteDone
Next == DecodeStep \/ Lex \/ Handler \/ Parse \/ Process \/ End \/ Destroy

Spec == Init /\ [][Next]_vars

-----------------------------------------------------------------------------
(* Properties                                                              *)

\* The count of a value is the number of places that refer to it, in the store, on
\* the evaluation stack, in the instance and in other values; it lives exactly as
\* long as there is one, and is released once (sem.c:310-338, sem_sva.c).
SvRefsExact ==
    LET outer == store \o es \o tokens \o values \o << result >>
        inner == Held(heap)
    IN  \A x \in SvIds :
          LET users == Places(x, outer) + Cardinality({p \in inner : heap[p[1]].elems[p[2]] = x})
          IN  /\ heap[x].refs = users
              /\ heap[x].key # Twice
              /\ (heap[x].key = Free) <=> (users = 0)

\* At every step of the evaluation the values are what the grammar says of the
\* lexemes that were read: of each entry of the store, of each slot of the stack,
\* and of the result, also when it is still there while the next input is read.  And
\* an input that ends without a failure has a result of its own, which sv_complete
\* gives to the script (parser.c:253-382, 395-458; lexer.c:788-863; sem_tcl.c:179-207).
ValuesRight ==
    /\ Len(said) = Len(store)
    /\ \A k \in 1 .. Len(store) : AsTcl(heap, store[k]) = said[k]
    /\ Len(es) = Len(meant.es)
    /\ \A k \in 1 .. Len(es) : AsTcl(heap, es[k]) = meant.es[k]
    /\ AsTcl(heap, result) = meant.result
    /\ phase = "end" /\ mode = "parser" /\ ~failed => trees # {}

\* In lexing-only mode the script gets the names of the lexemes found at a location
\* and, in the same order, their values, and nothing of another location
\* (sem_tcl.c:610-670, lexer.c:583-609).
Paired ==
    phase = "posted" =>
      /\ Len(tokens) = Len(found) /\ Len(values) = Len(found)
      /\ \A k \in 1 .. Len(found) :
           /\ AsTcl(heap, tokens[k]) = Tree(LHS_NAME, found[k], << >>)
           /\ AsTcl(heap, values[k]) = LexSvTree(found[k])

\* A lexeme of the grammar can be given to match alternate (spec.c:429).
KnownLexeme == refused \cap Lexemes = {}

\* Without G1 grammar there is no parser to be reset (rtc.c:44, 59).
NoWildReset == ~wild
=============================================================================
