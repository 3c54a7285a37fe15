# Formal models of TclMarpa

TclMarpa (`marpa`) parses text with libmarpa: a grammar written in SLIF is
compiled into a C or a Tcl engine, which an application then runs over texts.
This directory holds TLA+ modules of the part that every parser is made of, the
C runtime in `runtime-c/`, of the form in which a grammar gets there
(`gen-common/runtime-c.tcl`), of the Unicode classes from which lexers are
made (`unicode/c/`), and of the management of stop markers that applications put
on top of it (`multi-stop/`), with TLC configurations and TLAPS proofs.

## 1. The system

### Components

| Component | State | Operations | Interaction |
|---|---|---|---|
| inbound (`inbound.c`) | text, byte and character cursor, stop marker | enter, enter_more, step, moveto, moveby, move_byte, set_stop, set_limit, no_stop | the input loop: calls the gate for each byte; posts `stop` and over-run events |
| clindex (`clindex.c`) | runs of characters of equal byte length | update, find, find_c | maps character positions to byte positions for inbound |
| gate (`gate.c`) | acceptable bytes, `flushed`, last byte and position | enter, eof, acceptable, redo | filters bytes for the lexer; gives a byte back to inbound |
| lexer (`lexer.c`) | L0 recognizer, acceptable symbols, match under way, symbols and values found | enter, flush, eof, acceptable | finds the longest match; posts `discard`, `before`, `after`; gives look-ahead back; calls the parser |
| parser (`parser.c`) | G1 recognizer | enter, eof | enters the symbols found, tells the lexer what is acceptable next, evaluates at the end |
| runtime (`rtc.c`, `fail.c`) | `done`, failure origin | cons, enter, reset, raise_event, failit | owns the others |
| match facade (`pedesc.tcl`, `sem_tcl.c`) | event in force, `clearfirst` | from, from+, to, limit, dont-stop, clear, alternate, queries | how a handler reaches back into inbound and lexer |
| sets (`symset.c`, `byteset.c`) | `n`, `dense`, `sparse` | init, clear, contains, add, include, dense, link | acceptable, found and discarded symbols, acceptable bytes |
| semantic values (`sem.c`, `sem_sva.c`, `store.c`) | reference counts, vectors, value ids | cons, ref, unref, push, filter, copy, add, get | lexer and parser make values, libmarpa sees their numbers, the instance keeps the result |
| lists (`sem_tcl.c`, `marpatcl_rtc_lex`) | names and values of the lexemes at a location | begin, token, value, end | what an engine without G1 grammar ("lexing-only") hands to the script |
| specification (`spec.c`, `progress.c`) | instructions of rules, rule data, tables of masks and semantics, names | decode, g1decode, symid, decode_rule | written by the generator, executed once, read afterwards |
| classes (`unicode/c/scr.c`) | ranges, `canon` | norm, complement, unfold | sort and merge in place |
| encodings (`to_utf.c`, `to_char.c`, `asbr.c`, `assr.c`) | a stack of alternatives | 2asbr, 2assr | a class as alternatives of byte, or UTF-16, ranges |
| class values (`scr_objtype.c`, `asbr_objtype.c`, `assr_objtype.c`) | counted structures behind `Tcl_Obj`s | conversion, dup, free, text, the commands | copies of a value share the structure |
| Tcl engine (`runtime-tcl/`) | the same pipeline as TclOO classes | the same | chains of objects, exceptions instead of flags |
| sequencing (`util/sequencing.tcl`) | an automaton per object | checks each call | mixin for debugging |
| multi-stop (`multi-stop/`) | names, positions and actions of markers | mark-add, mark-cancel, EVENT | multiplexes the one stop marker |
| SLIF (`slif-*`) | grammar container, symbol states | semantics, literal reduction, precedence | builds the grammars |

### What is hard

The engine has one thread, and no part of it is difficult by itself.  The
difficulty is the **callback in the middle**: an event handler of the
application runs while the input loop, the gate and `lex_complete` are all on
the stack.  It may move the input, set the stop marker, extend the text, replace
the symbols of the match, or fail, and each of these changes state that the
callers use when the handler has returned.  To this come

* **reading ahead**: the longest match is known only after characters behind it
  were read; they are given back, by count, and read again in another context;
* **the retry of a character** that does not fit, guarded by `flushed`;
* **the end of the input**, which may be reached several times (look-ahead given
  back, a handler that moves away, an extension behind the end);
* **failures**, which are a flag that every caller has to look at;
* **recognizers that come and go**: a null pointer on one path too many.

Around the engine it is **sharing**: values are owned by store, stack, vectors and
result at once, by counts that each function keeps in its own way; copies of a
class share an array that is sorted in place.  And it is **agreement at a
distance**: rules have no names in the tables, only the number that comes of
their order in the instructions; the size of a complement is computed before
its ranges; alternatives are merged while they come, and have to stay the same
language.

`PROJECT.json` lists the places under "hazards".

### What makes a component correct

* sets: membership is exact although memory is never initialised, and the order
  is the order of inclusion;
* gate and lexer: the tokens are the longest matches of what the parser expects
  at that place; no character is lost or taken twice; the lexeme that a handler
  sees is what stands in the text;
* parser: symbols and values stay in step; one evaluation or one failure;
* inbound: a run stays inside of the text it is in; the end is reported at the
  end; the loop ends;
* runtime: nothing happens after a failure; `process` can be called again;
* values: the count is the number of places that refer to the value, and the
  value is the one the grammar says, at any moment of any evaluation;
* specification: what is found under a number was written for that rule;
* classes: the same code points before and after, in canonical form if it says
  so; alternatives match the encodings of the class and nothing else;
* class values: a script cannot see that they are shared;
* markers: no marked place is read past, and all markers of a place go off together.

## 2. Modules

| Module | Models |
|---|---|
| `OrderedSet` | what a client of a symbol set is promised |
| `SymSet` | `symset.c` on uninitialised memory |
| `Recognizers` | the two libmarpa recognizers, as the C code uses them (external) |
| `Scanner` | what the engine promises an application without event handlers |
| `Engine` | inbound, gate, lexer, parser, runtime and match facade together, over characters |
| `Inbound` | the byte and character cursors of inbound and `clindex.c`, over bytes |
| `GrammarCode` | the instructions and tables of a grammar, as written by the generator and read by `spec.c` |
| `SemValue` | values and vectors with their counts (`sem.c`, `sem_sva.c`) |
| `Evaluation` | the life of the values: lexer, store, handlers, parser, result, lists |
| `Encoding` | a code point as UTF-8, CESU-8, MUTF-8, UTF-16; alternatives |
| `Ranges` | the parts of `scr.c` without state |
| `CharClass` | the loops of `scr.c`, `asbr.c`, `assr.c` |
| `ClassValues` | what a script may assume of classes |
| `ClassObject` | `scr_objtype.c`, `asbr_objtype.c` and the commands |
| `Markers` | what the management of stop markers promises |
| `MultiStop` | `multi-stop.tcl` over the input loop and the match facade of the Tcl engine |
| `MCSymSet`, `MCEngine`, `MCInbound`, `MCEvaluation`, `MCCharClass`, `MCClassObject`, `MCMultiStop` | constants for TLC |
| `SymSetProofs` | theorems about `SymSet` |
| `EngineProofs` | theorems about `Engine`: what holds whatever handlers do, and with handlers that keep the rules below; what it makes of the text: longest match, the refinement of `Scanner` |
| `InboundProofs` | theorems about `Inbound` |
| `EvaluationProofs` | theorems about `GrammarCode`, and about `Evaluation` and `SemValue` |
| `RangesProofs` | lemmas about sorting, merging and complementing ranges |
| `CharClassProofs` | theorems about `CharClass` |
| `ClassObjectProofs` | theorems about `ClassObject` |
| `MultiStopProofs` | theorems about `MultiStop`, the refinement of `Markers` among them |

### SymSet

`dense` and `sparse` start with arbitrary contents (`DenseJunk`, `SparseJunk`).
`Contains` is the two-read test.  `Add` is one step, `include` of a vector is
`IncludeBegin` and an `IncludeOne` for each element.  The bulk assignment, by
which libmarpa writes the expected terminals straight into `dense`, is `Fill`
followed by `Link`; between the two the fields disagree (`filled`).  `byteset.c`
is the same algorithm without `add` and `include`.

### Engine

`Engine` is one module because the components share their state through one
struct and a handler can be active in the middle of all of them.  `pc` says which
piece of C code runs next and `caller` on whose behalf:

    idle --Process--> loop --ReachStop/ReachOver--> event
                      loop --Accept/Flush/ReachEof--> complete (caller: enter,
                            flush or eof), or back to loop
                      complete --Match--> report --> event, feed or return
                      event --HandlerOk--> loop, feed or return
                      feed --Feed--> parse or return
                      parse --Parse/ParseFails--> return or, caller "end", the loop
                      return --Finish...--> loop, or parse for the end of input

| Code | Actions |
|---|---|
| `rtc_cons`, `rtc_enter`, `rtc_reset` | `Init`, `Process` with `Reset`, `Leave` |
| `inbound_enter`, loop | `ReachStop`, `ReachEof`, `ReachOver`, `Reading`, `Loop`, `LoopUnlessAtEnd` |
| `gate_enter`, `lexer_enter`, `lexer_flush` | `Accept`, `Flush`, `Refuse`, `AcceptNull`, `FinishEnter`, `FinishFlush` |
| `gate_eof`, `lexer_eof`, `parser_eof` | `ReachEof`, `FinishEof`, `AfterParse` |
| `lex_complete` | `CompleteNothing`, `Mismatch`, `Match`, `Discarded`, `Report...`, `FeedNothing` |
| `lexer_acceptable`, `gate_acceptable` | `Renew`, `Restart` |
| `raise_event` | `Raise`, `HandlerOk`, `HandlerError` |
| `parser_enter`, `complete` of `parser.c` | `Feed`, `FeedBroken`, `Parse`, `ParseFails`, `ParseNothing` |
| match facade, `extend` | `CallFrom`, `CallTo`, `CallExtend`, `CallClear`, `CallAlternate`, `Skip` |

An `ASSERT` that fails, or the use of a recognizer that is gone, goes to
`pc = "crashed"` or is recorded in `broken`.

Positions are the engine's own: `loc` is the last character processed, and the
facade adds 1 (`from P` sets `loc` to P-1).  `src`, `next` and `tok` are history:
where each character of the lexeme came from, where the next one has to come
from, and the last match.  They are read by properties and by `Skip` only, never
by the actions of the engine.

The grammar is abstract.  Of L0 a set of words for each symbol is enough, of G1
a state machine (with sets of states, as a match may have several symbols).
`Match` chooses the order in which libmarpa delivers the parse trees of a match.

What handlers do is the constant `Calls`.  At a move a disciplined handler keeps
two rules, which the facade does not enforce: no move in a stop event while a
match is under way (`"inmatch"`), and at an event raised for the end of the input
no move away from the end (`"ateof"`).  A before handler either moves or skips the
lexeme (`Skip`), because one that does neither reads it for ever.

### Inbound

`Engine` takes one character for one byte, and a position for a number.  `Inbound`
is about what that hides: the text as bytes, the cursor in bytes and the one in
characters, and the index of `clindex.c` by which one is computed from the other.
A byte is its role in UTF-8 (a trailer, a byte of its own, a lead of 2 to 4
bytes); nothing else of it matters to decoding.

| Code | Definitions |
|---|---|
| `inbound_step`, `ok_char`, `MOVE` | `Step`, `Whole`, `Move` |
| `clindex_update`, with its `ASSERT` | `Update` |
| `clindex_find_c`, `clindex_find` | `FindChar`, `FindByte` with `Scan`, `LastAtMost`, `ByRun` |
| `move_byte`, `moveto`, `moveby`, `gate_redo` | `MoveByte`, `MoveTo`, `Redo` |
| `inbound_enter`, loop | `ReachStop`, `ReachEof`, `ReachOver`, `Accept`, `AcceptLast`, `Refuse` |
| `last`, `from`, `to`, `extend` | `CallLast`, `CallFrom`, `CallTo`, `CallExtend` |

Gate and lexer are nondeterministic here: a byte is accepted, or refused and
given back; a match that ends gives any number of its bytes back.  So `Inbound`
promises about every grammar what `Engine` takes for granted (a character moved
to is the one processed next, bytes given back are the same that were read).

The promise holds under a discipline only.  `Uses` names the three kinds of use
that break it: searching in front of the first character (`"first"`), going on
in the middle of a character after bytes were given back (`"inside"`), and
moving to, stopping after, or scanning on from a character of several bytes
(`"wide"`).  With `Uses = {}` the cursors and the index are exact on every text,
malformed ones included; the run `first`, and `MCLength.cfg` and `MCResume.cfg`
(section 3), show how the code breaks without the discipline.

`trailer`, the count of bytes still to come, is the reason: it belongs to the
place of the cursor, but no move and no scan changes it.

### GrammarCode, SemValue, Evaluation

`GrammarCode` has both sides of the interface between the generator and the
engine.  `Code`, `Masks` and `Semantics` write a grammar as words of 16 bits and
as vectors, `Setup` ... `Done` execute the words, one action per instruction, and
`G1decode`, `DecodeRule` and `Symid` look things up.  `Rule` stands for the calls
to libmarpa, which numbers rules in the order they are made.  `GrammarsAssumption` has
the limits that the generator checks, and what the language lets into a rule.  Decoding
alone is `DecodeSpec`; in `Evaluation` it is the first phase of an engine's life.
`RulesAsWritten` says also that the instruction at hand can be executed: `Executable` is
what the assertions of `spec.c:63-226` ask for, spelled out.

`SemValue` has what a value is: a kind, what it was made of, its elements if it
is a vector, and the count.  `Unrefs` is the release with all that follows from
it: references are given up one after the other, and the last one to a vector puts those of
its elements in front of the list.  Each reference is given up once, so that there are no
more steps than references (`Releases`).  A release of what is gone leaves a mark
(`Twice`).  `Nested` is the conversion to a Tcl value, up to a depth.

`Evaluation` runs an engine from one location of the input to the next, and
looks at the values only (how it gets there is `Engine`):

| Code | Actions |
|---|---|
| `lexer_init`, `spec_setup` | `Init`, `DecodeStep` |
| `lex_complete`, `get_sv` of `lexer.c` | `LexBegin`, `LexParse`, `LexDiscard`, `LexEnd`, `LexSv` |
| `marpatcl_rtc_lex_token`, the callback of the lexing-only mode | `LexPost`, `Posted`, `PostDone` |
| match facade | `Clear`, `Alternate` |
| `parser_enter`, `parser_eof` | `ParserEnter`, `Reject`, `Eof` |
| `complete`, `get_sv` of `parser.c` | `CompleteTree`, `Step...`, `TreeDone`, `CompleteDone`, `CompleteFail`, `RuleSv` |
| `rtc_enter`, `rtc_reset`, `sv_complete`, `rtc_destroy` | `Process`, `End`, `Destroy` |

libmarpa is external.  Which trees it finds over n tokens is the constant
`Programs`: each as the steps of the valuator, of which those are taken whose
tokens are among the alternatives that were entered.  A step says at which place of the
stack its value goes, as in libmarpa; `ProgramsAssumption` is the discipline of the
valuator: values are put one behind the other, and a rule takes the last ones.
`set_fill` and `set_trunc` are modelled for any place all the same.  `said` and `meant` are
history: what each value was made of, and what the grammar says that each slot
of the stack has to be.  `G1decode` finds the semantics in the vectors of
`GrammarCode`, while `RuleTree`, with which the result is compared, looks at the
grammar itself.

### CharClass

A class goes through up to `Rounds` calls.  Each normalises its argument first, in
place, so that what one call leaves decides what the next one does (`canon`).
The loops of the C code are steps:

| Code | Actions |
|---|---|
| `marpatcl_scr_norm` | `NormKnown`, `NormShort`, `NormSort`, `MergeExtend`, `MergeShift`, `MergeLast` |
| `marpatcl_scr_complement` | `NegateEmpty`, `NegateBegin`, `NegateRange`, `NegateRest` |
| `marpatcl_scr_unfold`, `dup` | `UnfoldEmpty`, `UnfoldBegin`, `UnfoldCode`, `UnfoldEnd`, norm of the temporary class, `UnfoldDup` |
| `marpatcl_asbr_new`, `marpatcl_assr_new` | `EncodeBegin`, `EncodeCode`, `MergeTop`, `MergeTopEnd`, `EncodeEnd` |

`work` is the class that `norm` works on, and `given` the history of what it was
given.  `qsort` is modelled by what it does (`Sorted`), the tables of equal letters
are a constant.  `asbr.c` and `assr.c` differ in the encoder (`Enc`).  `Allowed`
says which calls the callers make: the complement in the supplementary planes is
asked of classes in those planes, and never of the empty one, for which the code
would answer with all planes.

### ClassObject

`obj` are the Tcl values, `heap` the counted structures behind them.  A value has
a text, a list, a structure, or a text with one of the two.  Calls are functions
of the state (`WithText`, `AsList`, `AsClass`, `Dropped`, ...), put together the way the
C functions call each other, Tcl's own conversions among them (external).  A
structure is normalised for all who share it, and the text that a value already
has stays as it was.  `ClassValues` is what this has to implement: a value never
changes.  `Refused` is the failing conversion, which leaves a list behind, and
may have dropped alternatives for it.

### MultiStop

The adapter has any number of named markers, the engine below has one.  `tables`
are the four dictionaries and lists of the manager, which have to tell the same;
`stop` is the marker of the engine.  Between the two stand the conversion of
locations (outside of the engine a location is the character to read next, inside
the one read last) and the rules of access, which depend on the event in force.

| Code | Definitions |
|---|---|
| `mark-add`, `mark-cancel`, `Cancel` | `MarkAdd`, `MarkCancel`, `Add`, `Cancel` |
| `RecomputeActive`, `RA` | `Active`, `SetActive`, `Recompute`, `From` |
| `EVENT` | `StopEvent`, `StopEventFails`, `Skip`, `JumpTo`, `Call`, `EventDone`, `EventFails` |
| `inbound.tcl`: `enter`, `enter-more`, `barrier` | `Process`, `Read`, `ReadLast`, `ReachEof`, `Overrun`, `LoopFails`, `Extend`, `Barrier` |
| `gate.tcl`, locations | `Location`, `Inside`, `Last` |
| `match.tcl`: `Access`, `event!` | `MayMove`, `Calling`, `Throw`, `NestedReturn` |

Lexer and parser are nondeterministic: a match may end at any character, give
back what is behind its last one, and raise an event, or fail.  What was read
before a jump is not given back (`begin`): a jump in the middle of a match is the
matter of `Engine` (`"inmatch"`).  The actions of one place run in any order here;
the code takes them in the order of their names' entry.  An error anywhere ends
`process`, and leaves tables and marker as they are; what a further `process` makes of
the pipeline, which is not reset then, is left out.

The manager hears of a change only when it is called itself.  `Uses` names what
makes the marker of the engine wrong for that reason: a marker put into the match
under way, from where characters may still be given back (`"behind"`), and markers that
are left when `process` is called again (`"again"`).  A stop marker of `process` itself is
in force until the manager sets one; where it stops the manager has no entry, and
`process` fails with an error of `dict get` (`StopEventFails`).  With `Uses = {}` the adapter implements `Markers`.  A
handler may break off, replace markers that are about to run, call `barrier` (and so
another handler), and extend the input.

### Abstractions

* In `Engine` values are represented by the terminal they were made for, since the
  question is whether they stay in step with the symbols.  One evaluation stands
  for all the parse trees of `complete`.  In `Evaluation` values are trees.
* `Engine` is about parsers; the engine without G1 grammar is in `Evaluation`.
* Vectors grow as needed: `expand` is part of a push.
* Code points are the real ones; a class is given as ranges (a single code point
  is a range of one).
* A `process` inside of a handler of the same engine is left out.

## 3. Runs

| Run | Bounds | Shows |
|---|---|---|
| `symset` | 3 symbols, all junk, vectors up to 2 | `ContainsIsExact`, `RoomForNewcomer`, refinement of `OrderedSet` |
| `engine` | all texts up to 4 characters over 3, and 6 longer | `LongestMatch`, `LexerFollowsParser`, refinement of `Scanner`, which includes termination |
| `handlers` | 4 texts, 3 ranges, 2 extensions, 3 calls in a process | `InputPosition`, `LexemeIsText`, `NothingBroken` (until a failure), `SideBySide`, `StaysInRegion`, `Verdict`, `EofOnlyAtEnd` |
| `unruly` | 3 texts, 2 calls of any kind | `AtMostOneResult`, `Terminates` |
| `inbound` | all texts up to 3 bytes of 4 roles, 4 longer, 2 extensions, 2 calls | `CursorsAgree`, `IndexExact`, `LengthExact`, `ResumesAtTarget` |
| `values` | 2 inputs for a parser, 1 for a lexer, 2 locations in the first input and 1 in the next, 2 lexemes at a location, 2 L0 semantics; all pairs of rules of each kind, at the bounds of 12 bits | `RulesAsWritten`, `RuleFound`, `SvRefsExact`, `ValuesRight`, `Paired` |
| `charclass` | all triples of 6 ranges, pairs of 4 supplementary ones, 4 classes across the boundaries of the encodings; 2 calls of 6, 4 sets of flags | `SamePoints`, `CanonIsTruth`, `NegateExact`, `UnfoldExact`, `LanguageExact`, `Unambiguous`, `SurrogatesAgree` |
| `markers` | 3 characters of input, extensions of 0 and 1, at most 6 in all; 2 names, 5 actions, 3 calls in a process | `TablesAgree`, `StopIsNext`, refinement of `Markers` |
| `classobj` | 3 values, 4 contents (out of order and overlapping, empty, two that are no class) | `RefsExact`, `TextAgrees`, refinement of `ClassValues` |

The small language (`MCEngine`) has what each hazard needs: a word that extends
another one by more than one character (`aab` over `a`), two symbols with the
same word (K, M), a symbol expected in one context only and possibly empty (N),
discarded text of one or two characters (`s`), and a character that never fits
(`0`).  Texts of four characters reach every combination of a match, its
look-ahead, and what stands at the end.  `MaxCalls` bounds the facade calls of one
process: two suffice to move and stop, three to extend, go there and stop at the end (an
include).  In `handlers` the separator of texts is white space of the language, so
that a match could run from one text into the next.
Every run starts `process` again and again, so that endings of all kinds are
followed by a new text.

In `inbound` three bytes give every pair of neighbours and every broken
character of up to three bytes.  The longer texts change the length of characters
several times, so that the index has up to five runs and the binary search has
something to do, and contain a lead of four bytes.

In `values` two tokens suffice for the ambiguity of a list, so that there are several
trees and the result is replaced, and for a value that is copied, masked, put twice
into a vector and released.  There are 26 ids for values; a step that makes some needs as
many that are free (`Room`, a bound), and in this run there are always enough.  The second
input meets the result of the first one.
Rules have one kind of semantics each: `::first`, a vector with the same value
twice, a number, all children.  The other grammars are decoded, and not run: two
rules are enough, because an instruction depends on earlier ones only by the
left hand side it may reuse.

In `charclass` the ranges touch, overlap, contain each other, start together and
are equal, and reach both ends; three of them make the merge extend, shift, and
extend again.  The long classes are merged in the last two elements of an
alternative.  Two calls are enough because a call leaves nothing behind but the
class and its flag.  Properties look at `Probes` and `Words`, the boundaries and
their neighbours; `SamePoints` and `NegateExact` are proved for all sets of them,
and `LanguageExact` for all words.

In `markers` two names are what two markers of one place, and two places in a row
need; three calls put two of them and replace, cancel or jump.  (With a fourth the
run passes too, and takes some minutes.)

In `classobj` three values make every pair that shares a structure, and one more that
is made of it.

`unruly`, `first` and the inbound runs by hand have `CHECK_DEADLOCK FALSE`: a crashed
engine stops.  So have `values`, where the engine is destroyed at the end,
`charclass`, where no call follows the last, and `markers`, where `process` is not called
again as long as markers are left.

Three runs show that the code does something else than a comment or an assertion
of the repository says (findings in `PROJECT.json`, with the lines):

| Run | What happens |
|---|---|
| `failure` | a failure at the end of the input does not abort |
| `first` | the first byte is refused and given back: the index is searched in front of its first run |
| `lexeme_name` | `match alternate` does not find a lexeme: the table of names is sorted like a dictionary and searched by bytes |

More configurations are kept to be run by hand (`tlc -config X.cfg M`), each
with one property that TLC finds violated:

| Module, configuration | Property | What happens |
|---|---|---|
| `MCEngine`, `MCEofAway.cfg` | `EofOnlyAtEnd` | a handler at the end of the input moves away from it, and the parser is told of the end in spite of it |
| `MCEngine`, `MCTwice.cfg` | `SameSize` | the same alternative given twice: set and stack differ in size (assertion in `parser.c:101`) |
| `MCEngine`, `MCLatm.cfg` | `OnlyDiscardsAfterEnd` | an always acceptable lexeme after the end of the parse reaches a parser without recognizer |
| `MCInbound`, `MCLength.cfg` | `LengthExact` | the scan for the size in characters takes trailers of the largest visited character for characters |
| `MCEvaluation`, `MCLexonlyAgain.cfg` | `NoWildReset` | the second `process` of an engine without G1 grammar resets a parser that was never made (`rtc.c:120`) |
| `MCInbound`, `MCResume.cfg` | `ResumesAtTarget` | a move to behind a character of several bytes goes on with its trailers |
| `MCMultiStop`, `MCMarksBehind.cfg` | `StopIsNext` | a marker put into the match under way is read past when characters are given back |
| `MCMultiStop`, `MCMarksAgain.cfg` | `StopIsNext` | markers left by a `process` that ended are not set in the next one |
| `MCMultiStop`, `MCBarrier.cfg` | `CanRestore` | an event inside of `barrier` ends the stop event: the marker cannot be restored, as the comment of `barrier` expects |
| `MCMultiStop`, `MCReplaced.cfg` | `Replaced` | a handler replaces a marker of its own place, and the old action still runs |
| `MCMultiStop`, `MCEofJump.cfg` | `EofJumpEnds` | `@eof` moves in front of the last character |

### Fairness

`Spec` has weak fairness of `Step` as a whole: the C code runs until it returns,
and handlers return.  There is no fairness on `Process` (an application need not
call again), nor on single actions: which call a handler makes is its choice.
Handlers end because the calls of one process are bounded by `MaxCalls` in the
model; a handler that moves back for ever keeps `process` from returning, in the
model as in the code.

The other modules state safety only, and no fairness.

### Mutants

Every property of a passing run has a mutant of the code that breaks it.  They
stand next to the definitions they replace, with a comment that starts with
"Mutant".

## 4. Proofs

`SymSetProofs`: the invariant is that below `n` the two arrays are inverse to each
other, whatever they hold above.  From it follow exact membership, no store
beyond the arrays (a pigeonhole argument: a full set has every symbol), and the
refinement of `OrderedSet`, for every capacity and every junk.

`EngineProofs`, for every grammar, text, event set and handler:

* `TypeCorrect`: in particular only terminals of G1 get to the parser and every
  look-ahead count is a natural number.  One lemma per group of actions.
* `ResultOnce` (`AtMostOneResult`): inductive with `prec => results = 0`: there is
  a parser recognizer only as long as nothing was evaluated.
* `PairsTogether` (`SideBySide`), from `"twice" \notin Calls`: `msv = found`
  is inductive.  `MCTwice.cfg` shows that the assumption is needed.

Eight more are about how the parts stay together, for every grammar, text, range,
extension and event set, and any number of facade calls.  Each rests on an
inductive invariant, and the later ones on those before:

| Theorem | Property | Assumes | Inductive invariant |
|---|---|---|---|
| `PositionsAgree` | `InputPosition` | no `"inmatch"` | `PosInv` |
| `LexemeCorrect` | `LexemeIsText` | no `"inmatch"` | `PosInv` |
| `RegionKeeps` | `StaysInRegion` | no `"inmatch"` | `RegionInv` |
| `EofAtEnd` | `EofOnlyAtEnd` | nor `"ateof"` | `EndInv` |
| `LexerCorrect` | `LexerFollowsParser` | nor `"ateof"` | `FollowInv` |
| `VerdictGiven` | `Verdict` | nor `"ateof"` | `VerdictInv` |
| `Unbroken` | `NothingBroken` | nor `"twice"`, no always acceptable lexemes | `BrokenInv` |
| `SoundCorrect` | | as `Unbroken` | all of these together, with the types |

* `PosInv`: while the lexer reads, the cursor is at the end of the lexeme, and
  each character of the lexeme is from the place it should be.  The code keeps
  neither: it gives characters back by count, and the count is right only
  because of this.  A move in the middle of a match breaks it (`"inmatch"`).
* `RegionInv`: a lexeme that starts in the primary input ends there.
* `EndInv`: `lexer_eof` looks at the count of characters given back and takes it
  for the place of the cursor.  So the two have to agree on the whole way there,
  through the handlers; in a before event, where the cursor is taken back to the
  start of the lexeme, only the sum of start, length and count is known.
  `MCEofAway.cfg` shows what happens without the assumption.
* `FollowInv`: the acceptable symbols are those of the parser's latest Earley
  set, from the restart of the lexer through the next match, and there is a
  recognizer.  It is given up by the last match and by `lexer_eof`, so that its
  absence has to be known at each restart.
* `VerdictInv`: without failure, the parser has given up its recognizer exactly
  when it has evaluated, and only then does the loop end.  (`EndInv` is needed
  to know that it does not end at look-ahead that was given back.)
* `BrokenInv`: a parser without recognizer expects nothing, so the lexer looks
  for discarded symbols alone, so no terminal gets to the parser.  An always
  acceptable lexeme breaks the chain (`MCLatm.cfg`), and so does a failure at the
  end of the input, after which the loop goes on (run `failure`): the property
  speaks of the time before the first failure.

The rest of `EngineProofs` goes from the state to the text, on top of `PosInv` and of `SoundCorrect`:

| Theorem | Property | Assumes | Inductive invariant |
|---|---|---|---|
| `LongestTaken` | `LongestMatch` | no `"inmatch"` | `LongestInv` |
| `ScannerImplemented` | the steps of `Scanner` | no handlers, no always acceptable lexemes | `ScanInv` |

* `LongestInv`: the lexeme so far is the front of a word that is acceptable, and the
  last complete one is remembered with the count of what was read behind it; so
  when no word goes on with the next character, none that is longer was missed.
* `ScanInv` says at each `pc` where the scanner of the abstract specification is: what
  the engine has read but not decided yet is in front of it.  `ScannerImplemented`
  is about steps (`Scanner!Init` and `[][Scanner!Next]`); the fairness of `Scanner`, and
  with it that scanning ends, is what the run `engine` adds.

Assumptions are those of the modules: lexemes and discards are disjoint, words
are strings of characters, the grammar's tables are well typed, and the texts
are strings that the first position lies in.  The last is the duty of whoever
calls `process`: `marpatcl_rtc_pe_range` does not know the text and lets any
`from` of 0 or more pass.

The theorems about `Inbound` hold for all texts (any bytes: well-formed or not, of any
length), all extensions and any number of facade calls, and assume `Uses = {}`:

| Theorem | Property |
|---|---|
| `CursorsTogether` | `CursorsAgree` |
| `IndexCorrect` | `IndexExact` |
| `LengthCorrect` | `LengthExact` |
| `TargetReached` | `ResumesAtTarget` |
| `EntryFound` | `EntryExists`, and that no `ASSERT` fails |

All rest on `InboundCorrect`, the invariant `InboundInv`, of which each part is needed:

* `Placed`: the cursors are at one place, which was visited, and `IndexTrue`: a run
  starts where the one before ends, and each of its characters starts where the
  arithmetic says (`ByteInRun`), with the length of the run.  This is what makes the
  search of the runs right (`KeysIncrease`, `RunFound`, `ByteFound`, `CharFound`), and a
  step keeps it (`StepPlaced`), whether it visits a character for the first time or again.
* `TrailersKnown`: where a trailer is next, the count of trailers reaches to the next
  character.  No move sets that count, so a move has to end where it is not looked
  at; that is what the discipline says.
* `HandlerInv`, `StopInv`: handlers run between two characters, and so a stop marker
  must be behind a character of one byte (the loop compares the character cursor,
  which advances at the first byte).
* `FirstInv`: in front of the first byte nothing is indexed.
* `TextInv`: the primary input ends in front of a byte that is no trailer, so that an
  extension does not change the characters there (`FrontCounts`).

The loops of the code are recursive functions here (the binary search, `Search`, and
the scan, `Scanned`).  What they return for all inputs is an induction, which is done
over sets of numbers (`SetInduction`, `BoundedInduction`): such a set is a value, so that
the induction is a first-order fact.  It is proved by the pigeon hole
principle: adding one would put the members of the set below a missing number into one
place less.

The theorems about `CharClass` hold for every class given, every sequence of calls,
every last code point beyond the first plane, every table of equal letters, and
every set of `Probes` and `Words`:

| Theorem | Property | Inductive invariant |
|---|---|---|
| `TypeCorrect`, `PointsKept`, `CanonTrue` | `TypeOK`, `SamePoints`, `CanonIsTruth` | `NormInv`, `LoopInv` |
| `ComplementExact` | `NegateExact` | `FitInv`, `NegateInv` |
| `AlternativesExact`, `SurrogatesExact` | `LanguageExact`, `SurrogatesAgree` | `EncodeInv` |
| `AlternativesApart` | `Unambiguous` | `CountInv`, with `EncodeInv` |
| `UnfoldedExact` | `UnfoldExact` | `FoldInv`, with the first two |

* `NormInv`: in the middle of the merge the ranges up to `previous` are sorted with
  gaps, those from `current` on are sorted and start no earlier, and both together
  have the points that were given.  That sorting loses no range is a counting
  argument: ranks are a bijection (`RankOnto`).  The flag is true at every moment
  between two calls, which is what the calls rely on that find it set.
* `FitInv`: the ranges of the argument stay between the bottom of the planes in
  question and the last code point, through all calls.
* `NegateInv`: after n ranges the gaps are the complement of those n ranges, up to
  the point behind them, and there are as many as the size computed in advance
  has counted so far (`Partial`).
* `EncodeInv`: the alternatives on the stack match the encodings of the code points
  pushed so far, and no other word.  A merge keeps the language because two
  alternatives that are equal but for one adjacent element match the union
  (`MergedMatches`), wherever in the alternative that is; no order of code points
  is needed for it, nor that an encoding is injective.
* `CountInv`: the words of all alternatives, counted one alternative after the other, are as
  many as the code points pushed.  A merge adds up the two factors in which the
  alternatives differ; with `EncodeInv`, no word is matched by two of them.
* `FoldInv`: the temporary class has the letters of the code points passed, and no more
  ranges than `FoldMax` for each of these (`Visited`).  The sum of the sizes, computed
  before, is the room; it is checked only after the ranges were written.  Then the merge,
  the copy and the result keep the points.
* `SurrogatesAgree` is arithmetic, and holds for all code points.

Assumptions are the named ones of `CharClass`: what `points.c` lets into a class
(`ListsAssumption`), code points beyond the first plane, and a table whose letters
are code points.

The theorems about `GrammarCode` are about `DecodeSpec`, and hold for all grammars
within the limits (`GrammarsAssumption`): any number of rules of the three kinds, with
right-hand sides, masks and semantics of any length up to those limits.

| Theorem | Property | Inductive invariant |
|---|---|---|
| `DecodeInvariant` | | `DecodeInv` |
| `RulesDecoded` | `RulesAsWritten` | `DecodeInv` |
| `RulesFound` | `RuleFound` | `DecodeInv` |

* `DecodeInv`: `pc` is at the start, at the end, or behind the instructions of the first k
  rules (`Midway`), never in the middle of one.  `RulesAsWritten` alone does not say where
  the engine reads.  What was made so far is what those k rules mean, one behind the
  other (`Made`), and behind each entry of the data is the rule it was kept for, in the
  code that is read later (`Behind`).
* `Kept`: the left-hand side that the engine has kept for a short instruction is the one
  that the generator had in mind when it chose the short form.  Both change at a rule with a
  left-hand side of its own and at no other, so that lists and byte ranges in between do not
  matter; two programs that never meet have to agree on that.
* That each word comes back from the instruction it was packed into is arithmetic on 12
  bits, 4 bits and bytes (`CmdParts`, `BoxrParts`), and holds within the limits only.
* `RulesFound`: a list over the rules is stored in one of three forms (nothing, one for all, a
  table of places with every vector stored once).  For the table, `StoredPlace` says
  that the place of a vector is where it was put, whatever the order in which the
  different vectors are stored; `OneEach` is why the rules of G1, none of which is a byte
  range, have the numbers of the grammar.

The theorems about `Evaluation` hold for any grammar that is one of G1 (`ParsedAssumption`),
semantics of L0 (`L0Assumption`), numbers of tokens and inputs, parse trees whose steps
keep the discipline of libmarpa's valuator (`ProgramsAssumption`), names that handlers
give, and size of the memory:

| Theorem | Property | Inductive invariant |
|---|---|---|
| `EvaluationInvariant` | | `EvalInv` |
| `ReferencesExact` | `SvRefsExact` | `EvalInv` |

* `Exact(h, c, G)` is what the functions keep between them: each value of the heap h counts
  the references of vectors and c more, and only those in G live without any.  In the
  middle of a function `SvRefsExact` does not hold (a new value has no reference, a vector in the
  making has one of the function), so there is a lemma for each operation that says what becomes
  of c: `NewExact`, `RefExact`, `PushExact`, `CopyExact`, `UnrefsExact`.  The release is
  an induction over its steps; that all is given up in the end is the count of the references
  that are left (`Releasing`).
* `LexValue` and `RuleValue` are what the two `get_sv` return, for any keys and any right-hand
  side, with the values that several keys share: one new value with the reference of the
  caller, or without; the counts of all others are as before.
* `Holding` is the counts for the places of the engine: store, stack, lists and result
  (`Rooted`).  That it holds again after each step is `LexemeStored`, `GivenStored`, `LexemePosted`,
  `ValuePushed`, `RuleStepped`, `ResultTaken` and `LeftWith`.
* `Finding`: the numbers that libmarpa was given, or will be, are entries of the store, and in
  lexing-only mode the value made last is one of the list: the code keeps it without a
  reference of its own, to use it for the next lexeme.
* `Stepping`: the steps left are the rest of a program, and the stack is as high as they ask
  for: a rule finds its right-hand side, and `::first` one that was not masked away.
* `Reading`: what is evaluated is the grammar that was decoded, so that `RuleFound` says what the
  keys and masks of a rule are.

The theorems about `ClassObject` hold for any finite set of values, memory for as many
structures (`IdsAssumption`), all contents that are sequences of ranges of integers, good
ones or not (`ClassAssumption`), and all sequences of calls:

| Theorem | Property | Inductive invariant |
|---|---|---|
| `RefsCorrect` | `RefsExact` | `Right`, of which this needs `Counted` |
| `TextsAgree` | `TextAgrees` | `Right` |
| `ValuesImplemented` | `ValuesSpec` | `Right` |

* `Right` has two parts.  `Counted` is `RefsExact`, and that what refers to no structure
  has no identity, and that values and structures are records.  `Sane` is that a structure
  in use has ranges of code points, which are sorted with gaps if it is flagged so, and
  that the text of a value says what is behind it.  The flag matters: the structure of a
  complement or of a shared class is never sorted again.
* Between the calls inside of one command `Counted` does not always hold (a new structure
  has no reference yet), so the lemmas speak of what is put together: a value comes to a
  structure (`ObjectComes`), leaves it (`ObjectLeaves`), or one of the two changes under the
  other.  Each function of the model is shown to be made of these, and to change what
  at most one value says (`NormedKeeps`, `AsClassKeeps`, `WrappedNew`, ...).
* The refinement maps the values to what they say.  A command is the step of `ClassValues`
  of the same name; reading, converting and failing are none, whatever they do to the
  types, the texts and the shared structures.
* That there is memory for a new structure is not assumed: a value without
  structure leaves room, by the pigeon hole principle (`RoomForStruct`).
* That sorting and merging keep the code points, and that the gaps are the complement, is
  proved of the whole loops, for all ranges (`NormalizedFacts`, `ComplementFacts` in
  `RangesProofs`), by the induction of `InboundProofs`.  `CharClass` has the same loops step by
  step, and its proofs use the lemmas about one step.

The theorems about `MultiStop` hold for all names, commands, sizes and bounds:

| Theorem | Property | Assumes | Inductive invariant |
|---|---|---|---|
| `TablesCorrect` | `TablesAgree` | | `TablesAgree`, with types |
| `NextCorrect` | `StopIsNext` | `Uses = {}` | `IInv` |
| `Implementation` | `ImplementsMarkers` | `Uses = {}` | `IInv` |

* `IInv` adds to the agreement of the tables that no marker stands in the part of the
  input that may still be given back (`NoneBehind`), and that in a handler, too, the
  marker of the engine is the next one (`Synced`).  That leaves out the actions of a
  stop event, where the marker is off until all of these have run, and the end of an
  extension, after which nothing is read.
  `StopIsNext` speaks of the loop only, and is not inductive without either.
* The refinement maps `tables` to the function from names to places and commands, and
  needs `TablesAgree` for it: the manager finds what goes off by place, and `Markers`
  by name.

Only model-checked:

* liveness everywhere: that `process` returns (`Terminates`), and that scanning ends, which
  is part of `ImplementsScanner`;
* of `Evaluation`, `ValuesRight` and `Paired`: what a value says, as a tree (`AsTcl`,
  `RuleTree`).  They need that no value is part of itself and that no operation changes what a
  value in use says;
* the findings of section 3, of course: `FailureAborts` and `KnownLexeme` do not hold of the
  code, and `EntryExists` only without the use that the run `first` makes.

## 5. Plan

In this order, each with its runs and theorems:

1. `SymSet`, `Engine`, `Inbound`, `GrammarCode`, `Evaluation`, `CharClass`,
   `ClassObject`, `MultiStop`, and the proofs above (here).
2. Proofs: what the values of `Evaluation` say (`ValuesRight`, `Paired`), on top of their counts.
3. `TclEngine` and `Sequencing`: the Tcl pipeline and the automata of its mixins.
4. `slif-literal` on top of `Ranges`; symbol states of `slif-semantics`; precedence.

Behaviour seen while modelling that has no run of its own:

* `inbound.c:255`: a stop marker on a character of several bytes stops after its
  first byte, since the character cursor advances there.
* `gate.c:113`: a refused byte in the middle of a character is given back without
  its place in the count of trailers (`"inside"`), which ends in an `ASSERT` or a
  wrong index.
* `gate.c:92` says a character is retried "at most once".  With a lexeme that may
  be empty in a list, it is flushed again and again and `process` does not end.
* `pedesc.tcl:95`: `last` is one more than the location behind the last character,
  and `multi-stop.tcl:281` moves there ("jump to EOF").
* `multi-stop.tcl:208`: `marks` asks for the keys of the word `mypos` in place of the
  variable, which is always an error.
* `multi-stop.tcl:270`: an action that cancels another marker of the same place gets an
  error, since all of them are taken out before any runs.
* `inbound.tcl:118`: in the Tcl engine `last` is the location in front of the last
  character, in the C engine one behind the end.
* `rt_parse.tcl:130`: `process-file` ends with `mydone 0`, so that the next call does not
  reset the parser.
* `rtc.c:95`: `extend` returns an offset in bytes, which handlers use as a
  location in characters.
* `gen-common/runtime-c.tcl:391` checks the number of G1 symbols against 12 bits by
  the size of the L0 grammar, so that a G1 grammar with more symbols is written
  with their numbers cut off (`marpa_runtime_c.h:130` gives the bound).
* `gen-common/runtime-c.tcl`, `BRAN`: `SETUP` counts priority rules only, while the
  engine uses one place of the scratch area for a byte range (`spec.c:199`).
* `spec.c:111`: a rule that libmarpa refuses is not noticed; the numbers of all
  later rules differ from those in the tables.
* `parser.c:449`: `::first` of a rule whose right hand side is masked completely takes
  the first element of an empty vector.
* `sem_sva.c:354`: a copy into an expandable vector of capacity 0 doubles 0 for ever.
  No caller makes one.
* `sem_tcl.c:800`, `sem_tcl.c:855`: a message about a character at a negative index,
  and one that sorts the acceptable symbols in place while it is made.
* `scr.c:240`: the complement of the empty class in the supplementary planes is all
  planes; `doc/marpa_unicode.man:261` says it is restricted to the former.
* `scr_objtype.c:256`: asking for the class of a value that has alternatives makes a
  list of it, and the alternatives are computed again at the next use.
* `scr_objtype.c:288`: a list that is used as a class loses the list, so that its
  text is made from the class: another text than the list would have had.

Not modelled, and not planned: the generated SLIF parser, code templates, the libmarpa binding,
tracing and progress reports.
