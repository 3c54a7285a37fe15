------------------------------- MODULE Engine -------------------------------
(***************************************************************************)
(* The C engine of the runtime as one machine: the input loop of inbound.c,*)
(* the gate (gate.c), the lexer (lexer.c), the parser (parser.c), and the  *)
(* event handlers of the application that they call back (rtc.c, the match *)
(* facade of sem_tcl.c).                                                   *)
(*                                                                         *)
(* The engine is single threaded.  What makes it hard is the callback in   *)
(* the middle: a handler runs while the loop, the gate and lex_complete    *)
(* are all on the stack, and it may move the input, change the symbols of  *)
(* the match or fail.  So every piece of C code between two callbacks is   *)
(* an action or a few, and `pc` and `caller` say what is on the stack.     *)
(*                                                                         *)
(* A definition whose comment starts with "Mutant" is a wrong version of   *)
(* the one it precedes, for the mutation runs.                             *)
(*                                                                         *)
(* Every character is one byte here, so that the two cursors of inbound.c  *)
(* are one number, and looking up a position is exact, also before the     *)
(* first character.  What bytes do to it is the concern of Inbound.        *)
(***************************************************************************)
EXTENDS Recognizers

CONSTANTS
    Sep,         \* The \0 between the primary input and its extensions.
    Before, After, OnDiscard,  \* Symbols with an active event.
    Inputs,      \* Texts given to `process` ...
    Ranges,      \* ... with a first and last position, as inbound_enter's.
    Extensions,  \* Texts given to `extend`.
    Calls,       \* What event handlers do, see Handler actions.
    MaxCalls     \* Bound: facade calls in one `process`.

Kinds == {"from", "to", "extend", "clear", "alternate", "error",
          "inmatch", "ateof", "twice"}

ASSUME EventAssumption ==
    Before \subseteq Lexeme /\ After \subseteq Lexeme /\ OnDiscard \subseteq Discard
ASSUME InputAssumption ==
    /\ Sep \in Char
    /\ Inputs \subseteq Seq(Char) /\ Extensions \subseteq Seq(Char)
    /\ Ranges \subseteq { r \in Int \X Int : r[1] >= -1 /\ r[2] >= -2 }
    /\ \A t \in Inputs, r \in Ranges : r[1] < Len(t)
    /\ Calls \subseteq Kinds /\ MaxCalls \in Nat

VARIABLES
    \* Inbound
    text,        \* IN.bytes
    psize,       \* IN.psize, the length of the primary input.
    loc,         \* IN.location = IN.clocation, the last character processed.
    cstop,       \* IN.cstop, -2 for none.
    \* Gate
    acc,         \* The characters L0 can go on with.
    flushed,     \* GATE.flushed
    \* Lexer
    lrec,        \* Is there an L0 recognizer?  (LEX.recce)
    accept,      \* The symbols it was started with.
    start,       \* LEX.start = LEX.cstart, -1 while no match has begun.
    lexeme,      \* LEX.lexeme, and LEX.length, which counts its characters.
    found,       \* LEX.found, the terminals of the match in order.
    msv,         \* LEX.m_sv, here the terminal each value was made for.
    discards,    \* LEX.discards
    mevent,      \* LEX.m_event, the event whose handler is running.
    clearfirst,  \* LEX.m_clearfirst
    \* Parser
    prec,        \* Is there a G1 recognizer?  (PAR.recce)
    gset,        \* The states of G1 at its latest Earley set.
    parsable,    \* Does some prefix of the tokens so far parse?
    \* Runtime
    fail,        \* FAIL.origin, "none" unless FAIL.fail.
    done,        \* p->done
    results,     \* Evaluations in this `process`.  Each calls p->result, once
                 \* per parse tree.
    broken,      \* An ASSERT that failed or a NULL recognizer used, or "no".
    \* The C stack
    pc, caller, redo,
    calls,       \* Facade calls made so far in this `process`.
    \* History
    src,         \* Where in the text each character of `lexeme` came from.
    next,        \* The position of the next character to read.
    tok          \* The match just completed, or NoToken.

inbound == << text, psize, loc, cstop >>
gate    == << acc, flushed >>
lexer   == << lrec, accept, start, lexeme, src >>
match   == << found, msv, discards >>
handler == << mevent, clearfirst, calls >>
parser  == << prec, gset, parsable >>
outcome == << fail, done, results, broken >>
vars == << inbound, gate, lexer, match, handler, parser, outcome,
           pc, caller, redo, next, tok >>

NoToken == [at |-> -1, word |-> << >>, among |-> {}]

-----------------------------------------------------------------------------
(* Pieces of several actions                                               *)

\* marpatcl_rtc_failit: the first origin stays.
Fail(origin) == fail' = IF fail = "none" THEN origin ELSE fail

\* Mutant: discarded symbols are not always acceptable.
AcceptableNoAlways(g) == Expected(g)

\* The symbols the lexer looks for: what the parser expects, and what is always
\* acceptable.
Acceptable(g) == Expected(g) \cup Always

\* Mutant: the lexeme of the match before is not cleared.
RenewKeepLexeme(A) ==
    /\ lrec' = TRUE
    /\ start' = -1
    /\ UNCHANGED << lexeme, src >>
    /\ accept' = A
    /\ acc' = Viable(A, << >>)

\* marpatcl_rtc_lexer_acceptable up to its last line, gate_acceptable: a new
\* recognizer, fed with the acceptable symbols A.
Renew(A) ==
    /\ lrec' = TRUE
    /\ start' = -1
    /\ lexeme' = << >> /\ src' = << >>
    /\ accept' = A
    /\ acc' = Viable(A, << >>)

\* The same with the ASSERT at its head.
Restart(A) ==
    /\ broken' = IF lrec THEN "left over recognizer" ELSE broken
    /\ Renew(A)

\* POST_EVENT up to the call of the handler (raise_event).
Raise(event) ==
    /\ pc' = "event"
    /\ mevent' = event
    /\ clearfirst' = TRUE
    /\ UNCHANGED calls

\* The end of marpatcl_rtc_enter.
Leave == pc' = "idle" /\ done' = TRUE

\* inbound_enter after gate_enter returned: `if (FAIL.fail) break`.
Loop ==
    IF fail' # "none" THEN Leave ELSE pc' = "loop" /\ UNCHANGED done

\* inbound_enter after gate_eof returned.  FAIL is not looked at.
LoopUnlessAtEnd ==
    IF loc = psize - 1 THEN Leave ELSE pc' = "loop" /\ UNCHANGED done

Crash(what) == pc' = "crashed" /\ broken' = what

-----------------------------------------------------------------------------
(* Construction and `process`                                              *)

\* marpatcl_rtc_cons: parser_init ends in lexer_acceptable.
Init ==
    /\ text = << >> /\ psize = 0 /\ loc = -1 /\ cstop = -2
    /\ flushed = FALSE
    /\ prec = TRUE /\ gset = GInit /\ parsable = Accepting(GInit)
    /\ lrec = TRUE /\ start = -1 /\ lexeme = << >> /\ src = << >>
    /\ accept = Acceptable(GInit)
    /\ acc = Viable(accept, << >>)
    /\ found = << >> /\ msv = << >> /\ discards = {}
    /\ mevent = "none" /\ clearfirst = TRUE /\ calls = 0
    /\ fail = "none" /\ done = FALSE /\ results = 0 /\ broken = "no"
    /\ pc = "idle" /\ caller = "none" /\ redo = 0
    /\ next = 0 /\ tok = NoToken

\* Mutant: the parser goes on with the states of the text before.
ResetKeepParser ==
    /\ fail' = "none"
    /\ flushed' = FALSE
    /\ prec' = TRUE /\ UNCHANGED << gset, parsable >>
    /\ Renew(Acceptable(gset))

\* marpatcl_rtc_reset: gate, parser and lexer as after construction.
Reset ==
    /\ fail' = "none"
    /\ flushed' = FALSE
    /\ prec' = TRUE /\ gset' = GInit /\ parsable' = Accepting(GInit)
    /\ Renew(Acceptable(GInit))

\* marpatcl_rtc_enter, inbound_enter up to its loop.
Process(t, r) ==
    /\ pc = "idle"
    /\ \/ done /\ Reset
       \/ ~ done /\ UNCHANGED << fail, flushed, parser, lexer, acc >>
    /\ text' = t /\ psize' = Len(t)
    /\ loc' = r[1] /\ cstop' = r[2]
    /\ pc' = "loop"
    /\ done' = FALSE /\ results' = 0
    /\ calls' = 0 /\ next' = r[1] + 1 /\ tok' = NoToken
    /\ UNCHANGED << match, mevent, clearfirst, broken, caller, redo >>

-----------------------------------------------------------------------------
(* The input loop: inbound_enter, and the gate at the end of an iteration  *)

\* Mutant: the marker is not cleared.
ReachStopAgain ==
    /\ pc = "loop" /\ loc = cstop
    /\ Raise("stop")
    /\ UNCHANGED << inbound, gate, lexer, match, parser, outcome,
                    caller, redo, next, tok >>

\* The stop marker is reached.  It is cleared before the handler runs.
ReachStop ==
    /\ pc = "loop" /\ loc = cstop
    /\ cstop' = -2
    /\ Raise("stop")
    /\ UNCHANGED << text, psize, loc, gate, lexer, match, parser, outcome,
                    caller, redo, next, tok >>

\* Mutant: the recognizer is not released.
ReachEofKeeps ==
    /\ pc = "loop" /\ loc # cstop /\ loc = psize - 1
    /\ IF start >= 0 THEN pc' = "complete" /\ caller' = "eof"
                     ELSE pc' = "parse" /\ caller' = "end"
    /\ UNCHANGED << inbound, gate, lexer, match, handler, parser, outcome, redo,
                    next, tok >>

\* The last character of the primary input was processed: gate_eof and
\* lexer_eof.  A match under way is completed first, see FinishEof.
ReachEof ==
    /\ pc = "loop" /\ loc # cstop /\ loc = psize - 1
    /\ IF start >= 0 THEN pc' = "complete" /\ caller' = "eof" /\ UNCHANGED lrec
                     ELSE pc' = "parse" /\ caller' = "end" /\ lrec' = FALSE
    /\ UNCHANGED << inbound, gate, accept, start, lexeme, src, match, handler,
                    parser, outcome, redo, next, tok >>

\* The end of an extension was reached, and no marker had stopped us there.
ReachOver ==
    /\ pc = "loop" /\ loc # cstop /\ loc # psize - 1 /\ loc = Len(text) - 1
    /\ Raise("over")
    /\ UNCHANGED << inbound, gate, lexer, match, parser, outcome,
                    caller, redo, next, tok >>

\* Mutant: the end of the primary input is not respected.
ReadingOn == pc = "loop" /\ loc # cstop /\ loc # Len(text) - 1

\* inbound_step would read the next character.
Reading ==
    /\ pc = "loop"
    /\ loc # cstop /\ loc # psize - 1 /\ loc # Len(text) - 1

NextChar == text[loc + 2]

\* inbound_step, gate_enter and lexer_enter, for an acceptable character.  A
\* match that cannot be extended any more is completed at once.
Accept ==
    /\ Reading /\ NextChar \in acc /\ lrec
    /\ loc' = loc + 1
    /\ start' = IF start = -1 THEN loc + 1 ELSE start
    /\ lexeme' = Append(lexeme, NextChar)
    /\ src' = Append(src, loc + 1)
    /\ next' = loc + 2
    /\ UNCHANGED fail
    /\ IF Viable(accept, lexeme') = {}
       THEN /\ pc' = "complete" /\ caller' = "enter"
            /\ UNCHANGED << acc, flushed, done >>
       ELSE /\ acc' = Viable(accept, lexeme')
            /\ flushed' = FALSE
            /\ Loop
            /\ UNCHANGED caller
    /\ UNCHANGED << text, psize, cstop, lrec, accept, match, handler, parser,
                    results, broken, redo, tok >>

\* gate_enter and lexer_flush, for a character that is not acceptable.  It is
\* given back, to be tried again after the match before it was completed.
Flush ==
    /\ Reading /\ NextChar \notin acc /\ ~ flushed
    /\ UNCHANGED loc    \* one step forward, and move_byte(-1)
    /\ flushed' = TRUE
    /\ start' = IF start = -1 THEN loc + 1 ELSE start
    /\ pc' = "complete" /\ caller' = "flush"
    /\ UNCHANGED << text, psize, cstop, acc, lrec, accept, lexeme, src, match,
                    handler, parser, outcome, redo, next, tok >>

\* gate_enter, for a character that came back and is still not acceptable.
Refuse ==
    /\ Reading /\ NextChar \notin acc /\ flushed
    /\ loc' = loc + 1
    /\ Fail("gate")
    /\ Loop
    /\ UNCHANGED << text, psize, cstop, gate, lexer, match, handler, parser,
                    results, broken, caller, redo, next, tok >>

\* lexer_enter uses the recognizer without asking whether there is one.
AcceptNull ==
    /\ Reading /\ NextChar \in acc /\ ~ lrec
    /\ Crash("lexer without recognizer")
    /\ UNCHANGED << inbound, gate, lexer, match, handler, parser, fail, done,
                    results, caller, redo, next, tok >>

-----------------------------------------------------------------------------
(* lex_complete: the end of a match                                        *)

\* Called without a recognizer it does nothing.
CompleteNothing ==
    /\ pc = "complete" /\ ~ lrec
    /\ redo' = 0 /\ pc' = "return"
    /\ UNCHANGED << inbound, gate, lexer, match, handler, parser, outcome,
                    caller, next, tok >>

\* No prefix of the match is a word of an acceptable symbol.
Mismatch ==
    /\ pc = "complete" /\ lrec /\ MatchLengths(accept, lexeme) = {}
    /\ Fail("lexer")
    /\ lrec' = FALSE
    /\ lexeme' = << >> /\ src' = << >>
    /\ redo' = 0 /\ pc' = "return"
    /\ UNCHANGED << inbound, gate, accept, start, match, handler, parser, done,
                    results, broken, caller, next, tok >>

\* Mutant: the search starts one place before the end.
IsLongestOneLess(k, A, w) ==
    /\ k \in MatchLengths(A, w)
    /\ \A j \in MatchLengths(A, w) : j < Len(w) => j <= k

\* The search of lex_complete for the end of the match, backwards from the last
\* character, stops at the first place where a parse tree ends.
IsLongest(k, A, w) ==
    /\ k \in MatchLengths(A, w)
    /\ \A j \in MatchLengths(A, w) : j <= k

\* Mutant: discarded symbols are entered into the parser.
TerminalsAll(hits) == hits

\* lex_complete sorts the symbols found into terminals and discarded ones.
Terminals(hits) == hits \ Discard

\* Mutant: one character too many is given back.
GateRedoMore(back) ==
    /\ loc' = loc - back - 1
    /\ flushed' = (flushed /\ back = 0)

\* marpatcl_rtc_gate_redo
GateRedo(back) ==
    /\ loc' = loc - back
    /\ flushed' = (flushed /\ back = 0)

\* The longest prefix that is a word is the match, the rest is given back by
\* gate_redo.  All the symbols it is a word of are found, in the order of
\* libmarpa's parse trees, each with a value.
Match(k) ==
    LET back == Len(lexeme) - k
        word == SubSeq(lexeme, 1, k)
        hits == { s \in accept : word \in Words[s] }
    IN  /\ pc = "complete" /\ lrec
        /\ IsLongest(k, accept, lexeme)
        /\ lexeme' = word /\ src' = SubSeq(src, 1, k)
        /\ found' \in SetToSeqs(Terminals(hits))
        /\ msv' = found'
        /\ discards' = hits \cap Discard
        /\ redo' = back
        /\ GateRedo(back)
        /\ next' = IF back = 0 THEN next ELSE src[k + 1]
        /\ lrec' = FALSE
        /\ tok' = [at |-> start, word |-> word, among |-> accept]
        /\ pc' = "report"
        /\ UNCHANGED << text, psize, cstop, acc, accept, start, handler, parser,
                        outcome, caller >>

\* Does the match have an event of the kind, for one of its symbols?
Hits(symbols) == ToSet(found) \cap symbols # {}

\* Only discarded symbols: go on with the same acceptable symbols, after the
\* discard event if there is one.
Discarded ==
    /\ pc = "report" /\ found = << >>
    /\ IF discards \cap OnDiscard # {}
       THEN Raise("discard") /\ UNCHANGED << lexer, acc, broken >>
       ELSE Restart(accept) /\ pc' = "return" /\ UNCHANGED handler
    /\ UNCHANGED << inbound, flushed, match, parser, fail, done, results,
                    caller, redo, next, tok >>

\* A before event moves the input back to the start of the lexeme first.  It
\* suppresses the after events.
ReportBefore ==
    /\ pc = "report" /\ found # << >> /\ Hits(Before)
    /\ loc' = start - 1 /\ next' = start
    /\ Raise("before")
    /\ UNCHANGED << text, psize, cstop, gate, lexer, match, parser, outcome,
                    caller, redo, tok >>

ReportAfter ==
    /\ pc = "report" /\ found # << >> /\ ~ Hits(Before) /\ Hits(After)
    /\ Raise("after")
    /\ UNCHANGED << inbound, gate, lexer, match, parser, outcome, caller, redo,
                    next, tok >>

ReportNothing ==
    /\ pc = "report" /\ found # << >> /\ ~ Hits(Before) /\ ~ Hits(After)
    /\ pc' = "feed"
    /\ UNCHANGED << inbound, gate, lexer, match, handler, parser, outcome,
                    caller, redo, next, tok >>

-----------------------------------------------------------------------------
(* Handler actions: the calls of the match facade an event handler makes.  *)
(*                                                                         *)
(* `Calls` names what the handlers of a model do:                          *)
(*   from, to, extend, clear, alternate   make that call (to: also limit   *)
(*               and dont-stop; from: also from+)                          *)
(*   error       return with an error                                      *)
(*   inmatch     move in a stop event while a match is under way           *)
(*   ateof       in an event raised at the end of the input, move away from*)
(*               the end, move back to it after it was rewound, or fail    *)
(*   twice       give the same symbol as an alternative twice              *)

Calling(kind, events) ==
    /\ pc = "event" /\ mevent \in events
    /\ kind \in Calls /\ calls < MaxCalls
    /\ calls' = calls + 1

MoveEvents == {"stop", "discard", "before", "after"}

\* Was the event raised on behalf of lexer_eof?
AtEof == mevent \in {"discard", "before", "after"} /\ caller = "eof"

\* A place the handlers of this model move to.
Sensible(p) ==
    /\ mevent = "stop" /\ start >= 0 => "inmatch" \in Calls
    /\ AtEof /\ "ateof" \notin Calls => (p = psize <=> redo = 0)

\* match from P, match from+ D.  Position p is the next to process.
CallFrom(p) ==
    /\ Calling("from", MoveEvents)
    /\ Sensible(p)
    /\ loc' = p - 1 /\ next' = p
    /\ UNCHANGED << text, psize, cstop, gate, lexer, match, mevent, clearfirst,
                    parser, outcome, pc, caller, redo, tok >>

\* What the handler of a before event has to do at least: move behind the
\* lexeme, whose token is entered when it returns.
Skip ==
    /\ pc = "event" /\ mevent = "before" /\ loc = start - 1 /\ src # << >>
    /\ loc' = Last(src) /\ next' = Last(src) + 1
    /\ UNCHANGED << text, psize, cstop, gate, lexer, match, handler,
                    parser, outcome, pc, caller, redo, tok >>

\* match to P, match limit N, match dont-stop.
CallTo(c) ==
    /\ Calling("to", MoveEvents)
    /\ cstop' = c
    /\ UNCHANGED << text, psize, loc, gate, lexer, match, mevent, clearfirst,
                    parser, outcome, pc, caller, redo, next, tok >>

\* extend
CallExtend(x) ==
    /\ Calling("extend", MoveEvents \cup {"over"})
    /\ text' = text \o << Sep >> \o x
    /\ UNCHANGED << psize, loc, cstop, gate, lexer, match, mevent, clearfirst,
                    parser, outcome, pc, caller, redo, next, tok >>

\* Mutant: the values stay.
CallClearSymbols ==
    /\ Calling("clear", {"before", "after"})
    /\ found' = << >>
    /\ clearfirst' = FALSE
    /\ UNCHANGED << inbound, gate, lexer, msv, discards, mevent, parser, outcome,
                    pc, caller, redo, next, tok >>

\* match clear
CallClear ==
    /\ Calling("clear", {"before", "after"})
    /\ found' = << >> /\ msv' = << >>
    /\ clearfirst' = FALSE
    /\ UNCHANGED << inbound, gate, lexer, discards, mevent, parser, outcome,
                    pc, caller, redo, next, tok >>

\* match alternate T V: the first one drops what was found.  The terminal
\* joins a set, its value is pushed on a stack.
CallAlternate(t) ==
    LET syms == IF clearfirst THEN << >> ELSE found
        vals == IF clearfirst THEN << >> ELSE msv
    IN  /\ Calling("alternate", {"before", "after"})
        /\ t \in ToSet(syms) => "twice" \in Calls
        /\ found' = IF t \in ToSet(syms) THEN syms ELSE Append(syms, t)
        /\ msv' = Append(vals, t)
        /\ clearfirst' = FALSE
        /\ UNCHANGED << inbound, gate, lexer, discards, mevent, parser, outcome,
                        pc, caller, redo, next, tok >>

\* The handler returned (raise_event, and the code after each POST_EVENT).
HandlerOk ==
    /\ pc = "event"
    /\ mevent = "before" => loc # start - 1 \/ src = << >>
    /\ mevent' = "none"
    /\ \/ /\ mevent = "stop"
          /\ pc' = "loop"
          /\ UNCHANGED << lexer, acc, fail, done, broken >>
       \/ /\ mevent = "over"
          /\ Fail("overrun") /\ Leave
          /\ UNCHANGED << lexer, acc, broken >>
       \/ /\ mevent = "discard"
          /\ Restart(accept) /\ pc' = "return"
          /\ UNCHANGED << fail, done >>
       \/ /\ mevent \in {"before", "after"}
          /\ pc' = "feed"
          /\ UNCHANGED << lexer, acc, fail, done, broken >>
    /\ UNCHANGED << inbound, flushed, match, clearfirst, calls, parser, results,
                    caller, redo, next, tok >>

HandlerError ==
    /\ pc = "event" /\ "error" \in Calls
    /\ AtEof => "ateof" \in Calls
    /\ mevent' = "none"
    /\ Fail("event")
    /\ IF mevent \in {"stop", "over"}
       THEN Leave /\ UNCHANGED redo
       ELSE pc' = "return" /\ redo' = 0 /\ UNCHANGED done
    /\ UNCHANGED << inbound, gate, lexer, match, clearfirst, calls, parser,
                    results, broken, caller, next, tok >>

-----------------------------------------------------------------------------
(* The rest of lex_complete, and parser_enter                              *)

\* The handler left no symbols: the match is discarded after all.
FeedNothing ==
    /\ pc = "feed" /\ found = << >>
    /\ msv' = << >>
    /\ Restart(accept)
    /\ pc' = "return"
    /\ UNCHANGED << inbound, flushed, found, discards, handler, parser, fail,
                    done, results, caller, redo, next, tok >>

\* parser_enter: every symbol with the value at the same place of the stack.
Feed ==
    /\ pc = "feed" /\ found # << >> /\ Len(found) = Len(msv) /\ prec
    /\ gset' = Advance(gset, ToSet(found))
    /\ parsable' = (parsable \/ Accepting(gset'))
    /\ IF Expected(gset') = {}
       THEN pc' = "parse" /\ UNCHANGED << lexer, acc, broken >>
       ELSE pc' = "return" /\ Restart(Acceptable(gset'))
    /\ UNCHANGED << inbound, flushed, match, handler, prec, fail, done, results,
                    caller, redo, next, tok >>

\* The ASSERT of parser_enter, and then the use of a recognizer that is gone.
FeedBroken ==
    /\ pc = "feed" /\ found # << >>
    /\ \/ Len(found) # Len(msv) /\ Crash("set and stack differ in size")
       \/ Len(found) = Len(msv) /\ ~ prec /\ Crash("parser without recognizer")
    /\ UNCHANGED << inbound, gate, lexer, match, handler, parser, fail, done,
                    results, caller, redo, next, tok >>

-----------------------------------------------------------------------------
(* complete() of parser.c: the end of the parse                            *)

\* Back to parser_enter and lex_complete, or to parser_eof and the loop.
AfterParse ==
    IF caller = "end" THEN LoopUnlessAtEnd ELSE pc' = "return" /\ UNCHANGED done

ParseNothing ==
    /\ pc = "parse" /\ ~ prec
    /\ AfterParse
    /\ UNCHANGED << inbound, gate, lexer, match, handler, parser, fail, results,
                    broken, caller, redo, next, tok >>

\* Mutant: the failure is not recorded.
ParseFailsSilently ==
    /\ pc = "parse" /\ prec /\ ~ parsable
    /\ prec' = FALSE
    /\ UNCHANGED fail
    /\ AfterParse
    /\ UNCHANGED << inbound, gate, lexer, match, handler, gset, parsable, results,
                    broken, caller, redo, next, tok >>

\* No prefix of the tokens is a sentence.
ParseFails ==
    /\ pc = "parse" /\ prec /\ ~ parsable
    /\ Fail("parser")
    /\ prec' = FALSE
    /\ AfterParse
    /\ UNCHANGED << inbound, gate, lexer, match, handler, gset, parsable, results,
                    broken, caller, redo, next, tok >>

\* Mutant: the parser stays alive.
ParseAgain ==
    /\ pc = "parse" /\ prec /\ parsable
    /\ results' = results + 1
    /\ Restart(Acceptable(gset))
    /\ AfterParse
    /\ UNCHANGED << inbound, flushed, match, handler, parser, fail,
                    caller, redo, next, tok >>

\* The longest prefix that is one is evaluated, and its value delivered.  The
\* lexer is restarted: there may be more input to discard.
Parse ==
    /\ pc = "parse" /\ prec /\ parsable
    /\ results' = results + 1
    /\ Restart(Acceptable(gset))
    /\ prec' = FALSE
    /\ AfterParse
    /\ UNCHANGED << inbound, flushed, match, handler, gset, parsable, fail,
                    caller, redo, next, tok >>

-----------------------------------------------------------------------------
(* lex_complete returned `redo`                                            *)

\* ... to lexer_enter, and on to gate_enter.
FinishEnter ==
    /\ pc = "return" /\ caller = "enter"
    /\ flushed' = FALSE
    /\ UNCHANGED fail
    /\ Loop
    /\ UNCHANGED << inbound, acc, lexer, match, handler, parser, results, broken,
                    caller, redo, next, tok >>

\* ... to lexer_flush, and on to gate_enter.
FinishFlush ==
    /\ pc = "return" /\ caller = "flush"
    /\ UNCHANGED fail
    /\ Loop
    /\ UNCHANGED << inbound, gate, lexer, match, handler, parser, results, broken,
                    caller, redo, next, tok >>

\* Mutant: characters given back are not looked at.
FinishEofAtOnce ==
    /\ pc = "return" /\ caller = "eof"
    /\ pc' = "parse" /\ caller' = "end" /\ lrec' = FALSE
    /\ UNCHANGED << inbound, gate, accept, start, lexeme, src, match, handler,
                    parser, outcome, redo, next, tok >>

\* ... to lexer_eof: with characters given back there is more to read first.
FinishEof ==
    /\ pc = "return" /\ caller = "eof"
    /\ IF redo # 0 THEN LoopUnlessAtEnd /\ UNCHANGED << lrec, caller >>
                   ELSE /\ pc' = "parse" /\ caller' = "end" /\ lrec' = FALSE
                        /\ UNCHANGED done
    /\ UNCHANGED << inbound, gate, accept, start, lexeme, src, match, handler,
                    parser, fail, results, broken, redo, next, tok >>

-----------------------------------------------------------------------------

\* One iteration of the input loop up to a match.
ReadStep == ReachStop \/ ReachEof \/ ReachOver
            \/ Accept \/ Flush \/ Refuse \/ AcceptNull

\* lex_complete up to the handler.
CompleteStep == CompleteNothing \/ Mismatch
                \/ (\E k \in 0 .. Len(lexeme) : Match(k))
                \/ Discarded \/ ReportBefore \/ ReportAfter \/ ReportNothing

HandlerStep ==
    \/ \E p \in 0 .. Len(text) : CallFrom(p)
    \/ Skip
    \/ \E c \in -2 .. Len(text) - 1 : CallTo(c)
    \/ \E x \in Extensions : CallExtend(x)
    \/ CallClear
    \/ \E t \in Lexeme : CallAlternate(t)
    \/ HandlerOk
    \/ HandlerError

\* What comes after the handler, and the way back to the input loop.
FeedStep == FeedNothing \/ Feed \/ FeedBroken
            \/ ParseNothing \/ ParseFails \/ Parse
            \/ FinishEnter \/ FinishFlush \/ FinishEof

Step == ReadStep \/ CompleteStep \/ HandlerStep \/ FeedStep

Next == Step \/ \E t \in Inputs, r \in Ranges : Process(t, r)

\* The engine runs until `process` returns, and handlers return.
Spec == Init /\ [][Next]_vars /\ WF_vars(Step)

-----------------------------------------------------------------------------
(* Properties                                                              *)

Pcs == {"idle", "loop", "complete", "report", "event", "feed", "parse",
        "return", "crashed"}

\* The types of the input side: inbound, gate, and the match under way.
InputType ==
    /\ text \in Seq(Char) /\ psize \in Nat /\ loc \in Int /\ cstop \in Int
    /\ acc \subseteq Char /\ flushed \in BOOLEAN
    /\ lrec \in BOOLEAN /\ accept \subseteq L0 /\ start \in Int
    /\ lexeme \in Seq(Char) /\ src \in Seq(Int) /\ Len(src) = Len(lexeme)
    /\ next \in Int

\* The types of the token side: the completed match, and the parser.
TokenType ==
    /\ found \in Seq(Lexeme) /\ msv \in Seq(Lexeme) /\ discards \subseteq Discard
    /\ prec \in BOOLEAN /\ gset \subseteq GState /\ parsable \in BOOLEAN
    /\ tok \in [at : Int, word : Seq(Char), among : SUBSET L0]

\* The types of control: the stack, the handler, and the outcome.
ControlType ==
    /\ mevent \in {"none", "stop", "over", "discard", "before", "after"}
    /\ clearfirst \in BOOLEAN /\ calls \in 0 .. MaxCalls
    /\ fail \in {"none", "lexer", "gate", "parser", "event", "overrun"}
    /\ done \in BOOLEAN /\ results \in Nat
    /\ broken \in {"no", "left over recognizer", "lexer without recognizer",
                   "set and stack differ in size", "parser without recognizer"}
    /\ pc \in Pcs /\ caller \in {"none", "enter", "flush", "eof", "end"}
    /\ redo \in Nat

\* Type invariant.
TypeOK == InputType /\ TokenType /\ ControlType

\* The position of the input and the positions of the characters agree: what is
\* read next is what follows the characters consumed, however many were given
\* back, by whom, and wherever a handler moved.  The gate keeps no positions
\* and moves back by a count.
InputPosition == pc \in {"loop", "report", "feed"} /\ fail = "none" => loc + 1 = next

\* The lexeme is what stands in the text at `start`, which is how the handler
\* and the semantic values see it (start, length, value).  No character is
\* lost, taken twice, or left over from a match before.
LexemeIsText ==
    pc \in {"report", "event", "feed"} /\ (pc = "event" => mevent \notin {"stop", "over"}) =>
        lexeme = SubSeq(text, start + 1, start + Len(lexeme))

\* The place where the region of the input ends that position p is in: the
\* primary input or what `extend` added.
RegionEnd(p) == IF p < psize THEN psize ELSE Len(text)

\* Of the symbols the grammar accepts at this place the longest word in the
\* text is taken, whatever was read ahead and however the match ended: by
\* exhaustion, by a character that does not fit, or at the end of the input.
LongestMatch ==
    pc = "report" =>
        \A k \in Len(tok.word) + 1 .. RegionEnd(tok.at) - tok.at : \A s \in tok.among :
            SubSeq(text, tok.at + 1, tok.at + k) \notin Words[s]

\* Lexing is context sensitive: between two characters the lexer looks for what
\* the parser expects now and for nothing else, also after discarded input,
\* where the parser is not asked again, and after a handler changed the tokens.
LexerFollowsParser ==
    pc = "loop" /\ fail = "none" =>
        lrec /\ accept = Expected(gset) \cup Always /\ acc = Viable(accept, lexeme)

\* No ASSERT fails and no recognizer is used that is gone, as long as nothing
\* failed.  After a failure at the end of the input it may happen, because the
\* loop goes on (see FailureAborts).
NothingBroken == fail = "none" => broken = "no" /\ pc # "crashed"

\* The parser walks the set of symbols and the stack of values side by side.
\* Value and symbol at the same place belong together.
SideBySide == pc = "feed" => msv = found

\* `process` ends with one evaluation or with a failure, never without either.
Verdict == pc = "idle" /\ done /\ fail = "none" => results = 1

\* At most one evaluation per `process`, in any case: the application is given
\* the value (or the values of an ambiguous parse) only once.
AtMostOneResult == results <= 1

\* The parser is told of the end of the input when the input is at its end.
EofOnlyAtEnd == pc = "parse" /\ caller = "end" => loc = psize - 1

\* The input loop ends with the first failure: nothing is read or delivered
\* after it (gate.c, lexer.c: "FAIL, aborting").
FailureAborts ==
    [][fail # "none" /\ pc # "idle" => pc' # "loop" /\ results' = results]_vars

\* Once the sentence is complete, only discarded input gets as far as this: "the
\* G1 end marker may still be followed by L0 discards", which "do not make it to
\* the parser's enter" (parser.c).
OnlyDiscardsAfterEnd == pc = "feed" /\ found # << >> => prec

\* The parser takes for granted that "both set and stack will have the same
\* size" (parser.c).
SameSize == pc = "feed" => Len(found) = Len(msv)

\* No match runs from the primary input into what `extend` added behind it.
StaysInRegion == lexeme # << >> => start + Len(lexeme) <= RegionEnd(start)

\* `process` returns, or the program ends.
Terminates == pc # "idle" ~> pc \in {"idle", "crashed"}

-----------------------------------------------------------------------------
(* Without event handlers the engine implements a Scanner                  *)

Outcome == CASE fail # "none" -> "error"
             [] fail = "none" /\ pc = "idle" -> "value"
             [] OTHER -> "none"

\* The start of the match under way, or of the next one.
Position ==
    IF Outcome # "none" THEN 0
    ELSE IF pc \in {"report", "feed"} \/ (lrec /\ start >= 0) THEN start
    ELSE next

Scan == INSTANCE Scanner WITH at <- Position, states <- gset, verdict <- Outcome

\* Reading ahead, giving back, flushing and the callbacks between the parts
\* add up to the tokens, the verdict and the termination of Scanner.
ImplementsScanner == Scan!Spec

=============================================================================
