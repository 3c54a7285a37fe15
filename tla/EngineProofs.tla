---------------------------- MODULE EngineProofs ----------------------------
(***************************************************************************)
(* Proofs about Engine, for every pair of grammars, every text, and every  *)
(* sequence of calls the event handlers make.                              *)
(***************************************************************************)
EXTENDS Engine, FiniteSetTheorems, TLAPS

-----------------------------------------------------------------------------
(* The operators the actions are built from                                *)

LEMMA ViableType ==
    \A A, w : Viable(A, w) \subseteq Char
BY DEF Viable

LEMMA AcceptableType ==
    \A g : Acceptable(g) \subseteq L0
BY SymbolAssumption DEF Acceptable, Expected, L0

LEMMA AdvanceType ==
    ASSUME NEW g \in SUBSET GState, NEW T \in SUBSET Lexeme
    PROVE  Advance(g, T) \subseteq GState
<1>1. \A p \in g \X T : GNext[p] \subseteq GState
  BY GrammarAssumption
<1> QED BY <1>1 DEF Advance

LEMMA ToSetType ==
    ASSUME NEW s \in Seq(Lexeme)
    PROVE  ToSet(s) \subseteq Lexeme
BY DEF ToSet

\* The enumerations of a finite set are sequences of its elements.
LEMMA SetToSeqsType ==
    ASSUME NEW S \in SUBSET Lexeme, NEW f \in SetToSeqs(S)
    PROVE  f \in Seq(Lexeme)
<1>1. Cardinality(S) \in Nat
  BY SymbolAssumption, FS_Subset, FS_CardinalityType
<1>2. f \in [1 .. Cardinality(S) -> S]
  BY DEF SetToSeqs
<1> QED BY <1>1, <1>2

-----------------------------------------------------------------------------
(* Types                                                                   *)

LEMMA InitType == Init => TypeOK
<1> SUFFICES ASSUME Init PROVE TypeOK
  OBVIOUS
<1>1. InputType
  <2>1. acc \subseteq Char /\ accept \subseteq L0
    BY ViableType, AcceptableType DEF Init
  <2>2. << >> \in Seq(Char) /\ << >> \in Seq(Int)
    OBVIOUS
  <2>3. Len(src) = Len(lexeme) /\ lexeme \in Seq(Char) /\ src \in Seq(Int)
    BY <2>2 DEF Init
  <2>4. text \in Seq(Char) /\ psize \in Nat /\ loc \in Int /\ cstop \in Int
        /\ start \in Int /\ next \in Int
    BY <2>2 DEF Init
  <2>5. flushed \in BOOLEAN /\ lrec \in BOOLEAN
    BY Zenon DEF Init
  <2> QED BY <2>1, <2>3, <2>4, <2>5 DEF InputType
<1>2. TokenType
  <2>1. NoToken \in [at : Int, word : Seq(Char), among : SUBSET L0]
    BY DEF NoToken
  <2> QED BY <2>1, GrammarAssumption DEF Init, TokenType, Accepting
<1>3. ControlType
  <2>1. calls \in 0 .. MaxCalls
    BY InputAssumption DEF Init
  <2> QED BY <2>1 DEF Init, ControlType, Pcs
<1> QED BY <1>1, <1>2, <1>3 DEF TypeOK

\* What Restart and Reset leave behind.
LEMMA RenewType ==
    ASSUME NEW A, A \subseteq L0, Renew(A)
    PROVE  /\ lrec' \in BOOLEAN /\ start' \in Int /\ acc' \subseteq Char
           /\ lexeme' \in Seq(Char) /\ src' \in Seq(Int)
           /\ Len(src') = Len(lexeme') /\ accept' \subseteq L0
BY ViableType DEF Renew

\* The input loop.
LEMMA ReadType == TypeOK /\ ReadStep => TypeOK'
<1> SUFFICES ASSUME TypeOK, ReadStep PROVE TypeOK'
  OBVIOUS
<1> USE DEF TypeOK, inbound, gate, lexer, match, handler, parser, outcome
<1>1. CASE ReachStop
  <2>1. InputType'
    BY <1>1 DEF ReachStop, Raise, Pcs, InputType
  <2>2. TokenType'
    BY <1>1 DEF ReachStop, Raise, Pcs, TokenType
  <2>3. ControlType'
    BY <1>1 DEF ReachStop, Raise, Pcs, ControlType
  <2> QED BY <2>1, <2>2, <2>3 DEF TypeOK
<1>2. CASE ReachEof
  <2>1. InputType'
    BY <1>2 DEF ReachEof, Pcs, InputType
  <2>2. TokenType'
    BY <1>2 DEF ReachEof, Pcs, TokenType
  <2>3. ControlType'
    BY <1>2 DEF ReachEof, Pcs, ControlType
  <2> QED BY <2>1, <2>2, <2>3 DEF TypeOK
<1>3. CASE ReachOver
  <2>1. InputType'
    BY <1>3 DEF ReachOver, Raise, Pcs, InputType
  <2>2. TokenType'
    BY <1>3 DEF ReachOver, Raise, Pcs, TokenType
  <2>3. ControlType'
    BY <1>3 DEF ReachOver, Raise, Pcs, ControlType
  <2> QED BY <2>1, <2>2, <2>3 DEF TypeOK
<1>4. CASE Accept
  <2>1. InputType'
    <3>1. NextChar \in Char /\ lexeme' = Append(lexeme, NextChar)
          /\ src' = Append(src, loc + 1)
      BY <1>4 DEF Accept, InputType
    <3>2. lexeme' \in Seq(Char) /\ src' \in Seq(Int) /\ Len(src') = Len(lexeme')
      BY <3>1 DEF InputType
    <3>3. acc' \subseteq Char /\ flushed' \in BOOLEAN
      BY <1>4, ViableType DEF Accept, InputType
    <3> QED BY <1>4, <3>2, <3>3 DEF Accept, InputType
  <2>2. TokenType'
    BY <1>4 DEF Accept, Loop, Leave, Pcs, TokenType
  <2>3. ControlType'
    BY <1>4, ZenonT(60) DEF Accept, Loop, Leave, Pcs, ControlType
  <2> QED BY <2>1, <2>2, <2>3 DEF TypeOK
<1>5. CASE Flush
  <2>1. InputType'
    BY <1>5 DEF Flush, Pcs, InputType
  <2>2. TokenType'
    BY <1>5 DEF Flush, Pcs, TokenType
  <2>3. ControlType'
    BY <1>5 DEF Flush, Pcs, ControlType
  <2> QED BY <2>1, <2>2, <2>3 DEF TypeOK
<1>6. CASE Refuse
  <2>1. InputType'
    BY <1>6 DEF Refuse, Fail, Loop, Leave, Pcs, InputType
  <2>2. TokenType'
    BY <1>6 DEF Refuse, Fail, Loop, Leave, Pcs, TokenType
  <2>3. ControlType'
    BY <1>6 DEF Refuse, Fail, Loop, Leave, Pcs, ControlType
  <2> QED BY <2>1, <2>2, <2>3 DEF TypeOK
<1>7. CASE AcceptNull
  <2>1. InputType'
    BY <1>7 DEF AcceptNull, Crash, Pcs, InputType
  <2>2. TokenType'
    BY <1>7 DEF AcceptNull, Crash, Pcs, TokenType
  <2>3. ControlType'
    BY <1>7 DEF AcceptNull, Crash, Pcs, ControlType
  <2> QED BY <2>1, <2>2, <2>3 DEF TypeOK
<1> QED BY <1>1, <1>2, <1>3, <1>4, <1>5, <1>6, <1>7 DEF ReadStep

\* The end of a match, up to the handler.
LEMMA CompleteType == TypeOK /\ CompleteStep => TypeOK'
<1> SUFFICES ASSUME TypeOK, CompleteStep PROVE TypeOK'
  OBVIOUS
<1> USE DEF TypeOK, inbound, gate, lexer, match, handler, parser, outcome
<1>1. CASE CompleteNothing
  <2>1. InputType'
    BY <1>1 DEF CompleteNothing, Pcs, InputType
  <2>2. TokenType'
    BY <1>1 DEF CompleteNothing, Pcs, TokenType
  <2>3. ControlType'
    BY <1>1, ZenonT(60) DEF CompleteNothing, Pcs, ControlType
  <2> QED BY <2>1, <2>2, <2>3 DEF TypeOK
<1>2. CASE Mismatch
  <2>1. InputType'
    <3>1. lexeme' \in Seq(Char) /\ src' \in Seq(Int) /\ Len(src') = Len(lexeme')
      BY <1>2 DEF Mismatch
    <3> QED BY <1>2, <3>1 DEF Mismatch, InputType
  <2>2. TokenType'
    BY <1>2 DEF Mismatch, Fail, Pcs, TokenType
  <2>3. ControlType'
    BY <1>2, ZenonT(60) DEF Mismatch, Fail, Pcs, ControlType
  <2> QED BY <2>1, <2>2, <2>3 DEF TypeOK
<1>3. ASSUME NEW k \in 0 .. Len(lexeme), Match(k) PROVE TypeOK'
  <2>1. InputType'
    <3>1. lexeme' = SubSeq(lexeme, 1, k) /\ src' = SubSeq(src, 1, k)
      BY <1>3 DEF Match
    <3>2. lexeme' \in Seq(Char) /\ src' \in Seq(Int) /\ Len(src') = Len(lexeme')
      BY <3>1 DEF InputType
    <3>3. next' \in Int
      BY <1>3 DEF Match, InputType
    <3>4. loc' \in Int /\ flushed' \in BOOLEAN
      BY <1>3 DEF Match, GateRedo, InputType
    <3> QED BY <1>3, <3>2, <3>3, <3>4 DEF Match, InputType
  <2>2. TokenType'
    <3> DEFINE hits == { s \in accept : SubSeq(lexeme, 1, k) \in Words[s] }
    <3>1. found' \in Seq(Lexeme)
      <4>1. Terminals(hits) \in SUBSET Lexeme
        BY DEF Terminals, InputType, L0
      <4>2. found' \in SetToSeqs(Terminals(hits))
        BY <1>3 DEF Match
      <4> HIDE DEF hits
      <4> QED BY <4>1, <4>2, SetToSeqsType
    <3>2. discards' \subseteq Discard
      BY <1>3 DEF Match
    <3>3. tok' \in [at : Int, word : Seq(Char), among : SUBSET L0]
      BY <1>3 DEF Match, InputType
    <3> QED BY <1>3, <3>1, <3>2, <3>3 DEF Match, TokenType
  <2>3. ControlType'
    <3>1. redo' \in Nat
      BY <1>3 DEF Match, InputType
    <3> QED BY <1>3, <3>1, ZenonT(60) DEF Match, Pcs, ControlType
  <2> QED BY <2>1, <2>2, <2>3 DEF TypeOK
<1>4. CASE Discarded
  <2>1. InputType'
    <3>1. Renew(accept) \/ UNCHANGED << lexer, acc >>
      BY <1>4 DEF Discarded, Restart
    <3>2. CASE Renew(accept)
      BY <1>4, <3>2, RenewType, AcceptableType DEF Discarded, InputType
    <3>3. CASE UNCHANGED << lexer, acc >>
      BY <1>4, <3>3 DEF Discarded, InputType
    <3> QED BY <3>1, <3>2, <3>3
  <2>2. TokenType'
    BY <1>4 DEF Discarded, Raise, Restart, Pcs, TokenType
  <2>3. ControlType'
    BY <1>4 DEF Discarded, Raise, Restart, Pcs, ControlType
  <2> QED BY <2>1, <2>2, <2>3 DEF TypeOK
<1>5. CASE ReportBefore
  <2>1. InputType'
    BY <1>5 DEF ReportBefore, Raise, Pcs, InputType
  <2>2. TokenType'
    BY <1>5 DEF ReportBefore, Raise, Pcs, TokenType
  <2>3. ControlType'
    BY <1>5 DEF ReportBefore, Raise, Pcs, ControlType
  <2> QED BY <2>1, <2>2, <2>3 DEF TypeOK
<1>6. CASE ReportAfter
  <2>1. InputType'
    BY <1>6 DEF ReportAfter, Raise, Pcs, InputType
  <2>2. TokenType'
    BY <1>6 DEF ReportAfter, Raise, Pcs, TokenType
  <2>3. ControlType'
    BY <1>6 DEF ReportAfter, Raise, Pcs, ControlType
  <2> QED BY <2>1, <2>2, <2>3 DEF TypeOK
<1>7. CASE ReportNothing
  <2>1. InputType'
    BY <1>7 DEF ReportNothing, Pcs, InputType
  <2>2. TokenType'
    BY <1>7 DEF ReportNothing, Pcs, TokenType
  <2>3. ControlType'
    BY <1>7, ZenonT(60) DEF ReportNothing, Pcs, ControlType
  <2> QED BY <2>1, <2>2, <2>3 DEF TypeOK
<1> QED BY <1>1, <1>2, <1>3, <1>4, <1>5, <1>6, <1>7 DEF CompleteStep

LEMMA CallsBounded ==
    ASSUME ControlType, NEW kind, NEW events, Calling(kind, events)
    PROVE  calls' \in 0 .. MaxCalls
<1>1. calls \in 0 .. MaxCalls /\ calls < MaxCalls /\ calls' = calls + 1
  BY DEF ControlType, Calling
<1> QED BY <1>1, InputAssumption

\* The event handlers.
LEMMA HandlerType == TypeOK /\ HandlerStep => TypeOK'
<1> SUFFICES ASSUME TypeOK, HandlerStep PROVE TypeOK'
  OBVIOUS
<1> USE DEF TypeOK, inbound, gate, lexer, match, handler, parser, outcome
<1>1. ASSUME NEW p \in 0 .. Len(text), CallFrom(p) PROVE TypeOK'
  <2>1. InputType'
    BY <1>1 DEF CallFrom, Calling, Pcs, InputType
  <2>2. TokenType'
    BY <1>1 DEF CallFrom, Calling, Pcs, TokenType
  <2>3. ControlType'
    <3>1. calls' \in 0 .. MaxCalls
      BY <1>1, CallsBounded DEF CallFrom
    <3> QED BY <1>1, <3>1, ZenonT(60) DEF CallFrom, ControlType
  <2> QED BY <2>1, <2>2, <2>3 DEF TypeOK
<1>2. CASE Skip
  <2>1. InputType'
    BY <1>2 DEF Skip, Last, Pcs, InputType
  <2>2. TokenType'
    BY <1>2 DEF Skip, Last, Pcs, TokenType
  <2>3. ControlType'
    BY <1>2 DEF Skip, Last, Pcs, ControlType
  <2> QED BY <2>1, <2>2, <2>3 DEF TypeOK
<1>3. ASSUME NEW c \in -2 .. Len(text) - 1, CallTo(c) PROVE TypeOK'
  <2>1. InputType'
    BY <1>3 DEF CallTo, Calling, Pcs, InputType
  <2>2. TokenType'
    BY <1>3 DEF CallTo, Calling, Pcs, TokenType
  <2>3. ControlType'
    <3>1. calls' \in 0 .. MaxCalls
      BY <1>3, CallsBounded DEF CallTo
    <3> QED BY <1>3, <3>1, ZenonT(60) DEF CallTo, ControlType
  <2> QED BY <2>1, <2>2, <2>3 DEF TypeOK
<1>4. ASSUME NEW x \in Extensions, CallExtend(x) PROVE TypeOK'
  <2>1. InputType'
    BY <1>4, InputAssumption DEF CallExtend, Calling, Pcs, InputType
  <2>2. TokenType'
    BY <1>4 DEF CallExtend, Calling, Pcs, TokenType
  <2>3. ControlType'
    <3>1. calls' \in 0 .. MaxCalls
      BY <1>4, CallsBounded DEF CallExtend
    <3> QED BY <1>4, <3>1, ZenonT(60) DEF CallExtend, ControlType
  <2> QED BY <2>1, <2>2, <2>3 DEF TypeOK
<1>5. CASE CallClear
  <2>1. InputType'
    BY <1>5 DEF CallClear, Calling, Pcs, InputType
  <2>2. TokenType'
    BY <1>5 DEF CallClear, Calling, Pcs, TokenType
  <2>3. ControlType'
    <3>1. calls' \in 0 .. MaxCalls
      BY <1>5, CallsBounded DEF CallClear
    <3> QED BY <1>5, <3>1 DEF CallClear, ControlType
  <2> QED BY <2>1, <2>2, <2>3 DEF TypeOK
<1>6. ASSUME NEW t \in Lexeme, CallAlternate(t) PROVE TypeOK'
  <2>1. InputType'
    BY <1>6 DEF CallAlternate, Calling, Pcs, InputType
  <2>2. TokenType'
    BY <1>6 DEF CallAlternate, Calling, Pcs, TokenType
  <2>3. ControlType'
    <3>1. calls' \in 0 .. MaxCalls
      BY <1>6, CallsBounded DEF CallAlternate
    <3> QED BY <1>6, <3>1 DEF CallAlternate, ControlType
  <2> QED BY <2>1, <2>2, <2>3 DEF TypeOK
<1>7. CASE HandlerOk
  <2>1. InputType'
    <3>1. Renew(accept) \/ UNCHANGED << lexer, acc >>
      BY <1>7 DEF HandlerOk, Restart
    <3>2. CASE Renew(accept)
      BY <1>7, <3>2, RenewType, AcceptableType DEF HandlerOk, InputType
    <3>3. CASE UNCHANGED << lexer, acc >>
      BY <1>7, <3>3 DEF HandlerOk, InputType
    <3> QED BY <3>1, <3>2, <3>3
  <2>2. TokenType'
    BY <1>7 DEF HandlerOk, Restart, Fail, Leave, Pcs, TokenType
  <2>3. ControlType'
    BY <1>7 DEF HandlerOk, Restart, Fail, Leave, Pcs, ControlType
  <2> QED BY <2>1, <2>2, <2>3 DEF TypeOK
<1>8. CASE HandlerError
  <2>1. InputType'
    BY <1>8 DEF HandlerError, Fail, Leave, Pcs, InputType
  <2>2. TokenType'
    BY <1>8 DEF HandlerError, Fail, Leave, Pcs, TokenType
  <2>3. ControlType'
    <3>1. pc' \in Pcs /\ done' \in BOOLEAN /\ redo' \in Nat
      <4>1. \/ pc' = "idle" /\ done' = TRUE /\ redo' = redo
            \/ pc' = "return" /\ done' = done /\ redo' = 0
        BY <1>8, Zenon DEF HandlerError, Leave
      <4>2. done \in BOOLEAN /\ redo \in Nat /\ 0 \in Nat
        BY DEF ControlType
      <4>3. done' \in BOOLEAN /\ redo' \in Nat
        BY <4>1, <4>2, Zenon
      <4> QED BY <4>1, <4>3, Zenon DEF Pcs
    <3>2. fail' \in {"none", "lexer", "gate", "parser", "event", "overrun"}
      <4>1. fail' = IF fail = "none" THEN "event" ELSE fail
        BY <1>8, Zenon DEF HandlerError, Fail
      <4> QED BY <4>1 DEF ControlType
    <3>3. mevent' = "none" /\ calls' \in 0 .. MaxCalls /\ results' \in Nat
          /\ broken' = broken /\ caller' = caller
      BY <1>8 DEF HandlerError, ControlType
    <3>4. clearfirst' \in BOOLEAN
      BY <1>8 DEF HandlerError, ControlType
    <3> QED BY <3>1, <3>2, <3>3, <3>4, Zenon DEF ControlType
  <2> QED BY <2>1, <2>2, <2>3 DEF TypeOK
<1> QED BY <1>1, <1>2, <1>3, <1>4, <1>5, <1>6, <1>7, <1>8 DEF HandlerStep

\* The tokens go to the parser, and the calls return.
LEMMA FeedType == TypeOK /\ FeedStep => TypeOK'
<1> SUFFICES ASSUME TypeOK, FeedStep PROVE TypeOK'
  OBVIOUS
<1> USE DEF TypeOK, inbound, gate, lexer, match, handler, parser, outcome
<1>1. CASE FeedNothing
  <2>1. InputType'
    <3>1. Renew(accept) \/ UNCHANGED << lexer, acc >>
      BY <1>1 DEF FeedNothing, Restart
    <3>2. CASE Renew(accept)
      BY <1>1, <3>2, RenewType, AcceptableType DEF FeedNothing, InputType
    <3>3. CASE UNCHANGED << lexer, acc >>
      BY <1>1, <3>3 DEF FeedNothing, InputType
    <3> QED BY <3>1, <3>2, <3>3
  <2>2. TokenType'
    BY <1>1 DEF FeedNothing, Restart, Pcs, TokenType
  <2>3. ControlType'
    BY <1>1 DEF FeedNothing, Restart, Pcs, ControlType
  <2> QED BY <2>1, <2>2, <2>3 DEF TypeOK
<1>2. CASE Feed
  <2>1. InputType'
    <3>1. Renew(Acceptable(gset')) \/ UNCHANGED << lexer, acc >>
      BY <1>2 DEF Feed, Restart
    <3>2. CASE Renew(Acceptable(gset'))
      BY <1>2, <3>2, RenewType, AcceptableType DEF Feed, InputType
    <3>3. CASE UNCHANGED << lexer, acc >>
      BY <1>2, <3>3 DEF Feed, InputType
    <3> QED BY <3>1, <3>2, <3>3
  <2>2. TokenType'
    <3>1. gset' \subseteq GState
      BY <1>2, ToSetType, AdvanceType DEF Feed, TokenType
    <3> QED BY <1>2, <3>1 DEF Feed, TokenType, Accepting
  <2>3. ControlType'
    BY <1>2, ZenonT(60) DEF Feed, Restart, Pcs, ControlType
  <2> QED BY <2>1, <2>2, <2>3 DEF TypeOK
<1>3. CASE FeedBroken
  <2>1. InputType'
    BY <1>3 DEF FeedBroken, Crash, Pcs, InputType
  <2>2. TokenType'
    BY <1>3 DEF FeedBroken, Crash, Pcs, TokenType
  <2>3. ControlType'
    BY <1>3 DEF FeedBroken, Crash, Pcs, ControlType
  <2> QED BY <2>1, <2>2, <2>3 DEF TypeOK
<1>4. CASE ParseNothing
  <2>1. InputType'
    BY <1>4 DEF ParseNothing, AfterParse, LoopUnlessAtEnd, Leave, Pcs, InputType
  <2>2. TokenType'
    BY <1>4 DEF ParseNothing, AfterParse, LoopUnlessAtEnd, Leave, Pcs, TokenType
  <2>3. ControlType'
    BY <1>4, ZenonT(60) DEF ParseNothing, AfterParse, LoopUnlessAtEnd, Leave, Pcs, ControlType
  <2> QED BY <2>1, <2>2, <2>3 DEF TypeOK
<1>5. CASE ParseFails
  <2>1. InputType'
    BY <1>5 DEF ParseFails, AfterParse, LoopUnlessAtEnd, Leave, Fail, Pcs, InputType
  <2>2. TokenType'
    BY <1>5 DEF ParseFails, AfterParse, LoopUnlessAtEnd, Leave, Fail, Pcs, TokenType
  <2>3. ControlType'
    BY <1>5, ZenonT(60) DEF ParseFails, AfterParse, LoopUnlessAtEnd, Leave, Fail, Pcs, ControlType
  <2> QED BY <2>1, <2>2, <2>3 DEF TypeOK
<1>6. CASE Parse
  <2>1. InputType'
    <3>1. Renew(Acceptable(gset)) \/ UNCHANGED << lexer, acc >>
      BY <1>6 DEF Parse, Restart
    <3>2. CASE Renew(Acceptable(gset))
      BY <1>6, <3>2, RenewType, AcceptableType DEF Parse, InputType
    <3>3. CASE UNCHANGED << lexer, acc >>
      BY <1>6, <3>3 DEF Parse, InputType
    <3> QED BY <3>1, <3>2, <3>3
  <2>2. TokenType'
    BY <1>6 DEF Parse, AfterParse, LoopUnlessAtEnd, Leave, Restart, Pcs, TokenType
  <2>3. ControlType'
    <3>1. pc' \in Pcs /\ done' \in BOOLEAN
      BY <1>6 DEF Parse, AfterParse, LoopUnlessAtEnd, Leave, Pcs, ControlType
    <3>2. results' \in Nat
      <4>1. results' = results + 1
        BY <1>6, Zenon DEF Parse
      <4>2. results \in Nat
        BY DEF ControlType
      <4> QED BY <4>1, <4>2
    <3>3. broken' = broken \/ broken' = "left over recognizer"
      <4>1. broken' = IF lrec THEN "left over recognizer" ELSE broken
        BY <1>6, Zenon DEF Parse, Restart
      <4> QED BY <4>1
    <3>4. mevent' = mevent /\ calls' \in 0 .. MaxCalls /\ fail' = fail
          /\ caller' = caller /\ redo' \in Nat
      BY <1>6 DEF Parse, ControlType
    <3>5. clearfirst' \in BOOLEAN
      BY <1>6 DEF Parse, ControlType
    <3> QED BY <3>1, <3>2, <3>3, <3>4, <3>5, Zenon DEF ControlType
  <2> QED BY <2>1, <2>2, <2>3 DEF TypeOK
<1>7. CASE FinishEnter
  <2>1. InputType'
    BY <1>7 DEF FinishEnter, Loop, Leave, Pcs, InputType
  <2>2. TokenType'
    BY <1>7 DEF FinishEnter, Loop, Leave, Pcs, TokenType
  <2>3. ControlType'
    BY <1>7 DEF FinishEnter, Loop, Leave, Pcs, ControlType
  <2> QED BY <2>1, <2>2, <2>3 DEF TypeOK
<1>8. CASE FinishFlush
  <2>1. InputType'
    BY <1>8 DEF FinishFlush, Loop, Leave, Pcs, InputType
  <2>2. TokenType'
    BY <1>8 DEF FinishFlush, Loop, Leave, Pcs, TokenType
  <2>3. ControlType'
    BY <1>8 DEF FinishFlush, Loop, Leave, Pcs, ControlType
  <2> QED BY <2>1, <2>2, <2>3 DEF TypeOK
<1>9. CASE FinishEof
  <2>1. InputType'
    BY <1>9 DEF FinishEof, LoopUnlessAtEnd, Leave, Pcs, InputType
  <2>2. TokenType'
    BY <1>9 DEF FinishEof, LoopUnlessAtEnd, Leave, Pcs, TokenType
  <2>3. ControlType'
    BY <1>9 DEF FinishEof, LoopUnlessAtEnd, Leave, Pcs, ControlType
  <2> QED BY <2>1, <2>2, <2>3 DEF TypeOK
<1> QED BY <1>1, <1>2, <1>3, <1>4, <1>5, <1>6, <1>7, <1>8, <1>9 DEF FeedStep

\* A new `process`.
LEMMA ProcessType ==
    ASSUME TypeOK, NEW t \in Inputs, NEW r \in Ranges, Process(t, r)
    PROVE  TypeOK'
<1> USE DEF inbound, gate, lexer, match, handler, parser, outcome
<1>1. t \in Seq(Char) /\ r[1] \in Int /\ r[2] \in Int
  BY InputAssumption
<1>2. tok' \in [at : Int, word : Seq(Char), among : SUBSET L0]
  BY DEF Process, NoToken
<1>3. pc' \in Pcs /\ done' \in BOOLEAN
  BY DEF Process, Pcs
<1>4. results' = 0 /\ calls' = 0 /\ mevent' = mevent /\ clearfirst' = clearfirst
      /\ broken' = broken /\ caller' = caller /\ redo' = redo
  BY Zenon DEF Process
<1>5. ASSUME fail' = "none" \/ fail' = fail
      PROVE  ControlType'
  <2>1. calls' \in 0 .. MaxCalls /\ results' \in Nat
    BY <1>4, InputAssumption
  <2> QED BY <1>3, <1>4, <1>5, <2>1, Zenon DEF ControlType, TypeOK
<1>6. CASE Reset
  <2>1. InputType'
    <3>1. /\ text' = t /\ psize' = Len(t) /\ loc' = r[1] /\ cstop' = r[2]
          /\ next' = r[1] + 1 /\ flushed' = FALSE
      BY <1>6, Zenon DEF Process, Reset
    <3>2. Renew(Acceptable(GInit)) /\ Acceptable(GInit) \subseteq L0
      BY <1>6, AcceptableType, GrammarAssumption, Zenon DEF Reset
    <3>3. /\ acc' \subseteq Char /\ lrec' \in BOOLEAN /\ accept' \subseteq L0
          /\ start' \in Int /\ lexeme' \in Seq(Char) /\ src' \in Seq(Int)
          /\ Len(src') = Len(lexeme')
      BY <3>2, RenewType
    <3>4. text' \in Seq(Char) /\ psize' \in Nat /\ loc' \in Int
          /\ cstop' \in Int /\ next' \in Int
      BY <1>1, <3>1
    <3> QED BY <3>1, <3>3, <3>4, Zenon DEF InputType
  <2>2. TokenType'
    <3>1. prec' \in BOOLEAN /\ gset' \subseteq GState /\ parsable' \in BOOLEAN
      BY <1>6, GrammarAssumption DEF Reset, Accepting
    <3>2. found' = found /\ msv' = msv /\ discards' = discards
      BY Zenon DEF Process
    <3> QED BY <1>2, <3>1, <3>2, Zenon DEF TokenType, TypeOK
  <2>3. fail' = "none"
    BY <1>6, Zenon DEF Reset
  <2> QED BY <1>5, <2>1, <2>2, <2>3 DEF TypeOK
<1>7. CASE UNCHANGED << fail, flushed, parser, lexer, acc >>
  <2>1. InputType'
    BY <1>1, <1>7 DEF Process, InputType, TypeOK
  <2>2. TokenType'
    <3>1. /\ found' = found /\ msv' = msv /\ discards' = discards
          /\ prec' = prec /\ gset' = gset /\ parsable' = parsable
      BY <1>7, Zenon DEF Process
    <3> QED BY <1>2, <3>1, Zenon DEF TokenType, TypeOK
  <2>3. fail' = fail
    BY <1>7, Zenon
  <2> QED BY <1>5, <2>1, <2>2, <2>3 DEF TypeOK
<1>8. Reset \/ UNCHANGED << fail, flushed, parser, lexer, acc >>
  BY Zenon DEF Process
<1> QED BY <1>6, <1>7, <1>8

LEMMA TypeStep == TypeOK /\ [Next]_vars => TypeOK'
<1>1. CASE TypeOK /\ UNCHANGED vars
  <2>1. InputType' BY <1>1 DEF TypeOK, InputType, vars, inbound, gate, lexer
  <2>2. TokenType' BY <1>1 DEF TypeOK, TokenType, vars, match, parser
  <2>3. ControlType' BY <1>1, ZenonT(60) DEF TypeOK, ControlType, vars, handler, outcome
  <2> QED BY <2>1, <2>2, <2>3 DEF TypeOK
<1>2. CASE TypeOK /\ Step
  BY <1>2, ReadType, CompleteType, HandlerType, FeedType DEF Step
<1>3. ASSUME TypeOK, NEW t \in Inputs, NEW r \in Ranges, Process(t, r) PROVE TypeOK'
  BY <1>3, ProcessType
<1> QED BY <1>1, <1>2, <1>3 DEF Next

\* Every variable keeps its type, in every engine.
THEOREM TypeCorrect == Spec => []TypeOK
BY InitType, TypeStep, PTL DEF Spec

-----------------------------------------------------------------------------
(* At most one result                                                      *)

\* The parser delivers a value only while it has a recognizer, and gives the
\* recognizer up when it does.
OneInv == (results = 0 \/ results = 1) /\ (prec => results = 0)

LEMMA OneUnchanged ==
    ASSUME OneInv, UNCHANGED << prec, results >>
    PROVE  OneInv'
<1>1. results' = results BY Zenon
<1>2. prec' = prec BY Zenon
<1>3. results' = 0 \/ results' = 1 BY <1>1 DEF OneInv
<1>4. prec' => prec BY <1>2
<1>5. prec => results = 0 BY Zenon DEF OneInv
<1>6. prec' => results' = 0 BY <1>1, <1>4, <1>5, Zenon
<1> QED BY <1>3, <1>6, Zenon DEF OneInv

\* Only parsing and a new `process` touch the recognizer and the results.
LEMMA ReadKeepsResult == ReadStep => UNCHANGED << prec, results >>
<1> USE DEF parser, outcome
<1>1. ReachStop => UNCHANGED << prec, results >> BY Zenon DEF ReachStop
<1>2. ReachEof => UNCHANGED << prec, results >> BY Zenon DEF ReachEof
<1>3. ReachOver => UNCHANGED << prec, results >> BY Zenon DEF ReachOver
<1>4. Accept => UNCHANGED << prec, results >> BY Zenon DEF Accept
<1>5. Flush => UNCHANGED << prec, results >> BY Zenon DEF Flush
<1>6. Refuse => UNCHANGED << prec, results >> BY Zenon DEF Refuse
<1>7. AcceptNull => UNCHANGED << prec, results >> BY Zenon DEF AcceptNull
<1> QED BY <1>1, <1>2, <1>3, <1>4, <1>5, <1>6, <1>7, Zenon DEF ReadStep

LEMMA CompleteKeepsResult == CompleteStep => UNCHANGED << prec, results >>
<1> USE DEF parser, outcome
<1>1. CompleteNothing => UNCHANGED << prec, results >> BY Zenon DEF CompleteNothing
<1>2. Mismatch => UNCHANGED << prec, results >> BY Zenon DEF Mismatch
<1>3. ASSUME NEW k \in 0 .. Len(lexeme), Match(k) PROVE UNCHANGED << prec, results >>
  BY <1>3, Zenon DEF Match
<1>4. Discarded => UNCHANGED << prec, results >> BY Zenon DEF Discarded
<1>5. ReportBefore => UNCHANGED << prec, results >> BY Zenon DEF ReportBefore
<1>6. ReportAfter => UNCHANGED << prec, results >> BY Zenon DEF ReportAfter
<1>7. ReportNothing => UNCHANGED << prec, results >> BY Zenon DEF ReportNothing
<1> QED BY <1>1, <1>2, <1>3, <1>4, <1>5, <1>6, <1>7, Zenon DEF CompleteStep

LEMMA HandlerKeepsResult == HandlerStep => UNCHANGED << prec, results >>
<1> USE DEF parser, outcome
<1>1. ASSUME NEW p \in 0 .. Len(text), CallFrom(p) PROVE UNCHANGED << prec, results >>
  BY <1>1, Zenon DEF CallFrom
<1>2. Skip => UNCHANGED << prec, results >> BY Zenon DEF Skip
<1>3. ASSUME NEW c \in -2 .. Len(text) - 1, CallTo(c) PROVE UNCHANGED << prec, results >>
  BY <1>3, Zenon DEF CallTo
<1>4. ASSUME NEW x \in Extensions, CallExtend(x) PROVE UNCHANGED << prec, results >>
  BY <1>4, Zenon DEF CallExtend
<1>5. CallClear => UNCHANGED << prec, results >> BY Zenon DEF CallClear
<1>6. ASSUME NEW t \in Lexeme, CallAlternate(t) PROVE UNCHANGED << prec, results >>
  BY <1>6, Zenon DEF CallAlternate
<1>7. HandlerOk => UNCHANGED << prec, results >> BY Zenon DEF HandlerOk
<1>8. HandlerError => UNCHANGED << prec, results >> BY Zenon DEF HandlerError
<1> QED BY <1>1, <1>2, <1>3, <1>4, <1>5, <1>6, <1>7, <1>8, Zenon DEF HandlerStep

LEMMA FeedOne == OneInv /\ FeedStep => OneInv'
<1> USE DEF parser, outcome
<1>1. FeedNothing => UNCHANGED << prec, results >> BY Zenon DEF FeedNothing
<1>2. Feed => UNCHANGED << prec, results >> BY Zenon DEF Feed
<1>3. FeedBroken => UNCHANGED << prec, results >> BY Zenon DEF FeedBroken
<1>4. ParseNothing => UNCHANGED << prec, results >> BY Zenon DEF ParseNothing
<1>5. ParseFails => prec' = FALSE /\ results' = results BY Zenon DEF ParseFails
<1>6. Parse => prec /\ prec' = FALSE /\ results' = results + 1 BY Zenon DEF Parse
<1>7. FinishEnter => UNCHANGED << prec, results >> BY Zenon DEF FinishEnter
<1>8. FinishFlush => UNCHANGED << prec, results >> BY Zenon DEF FinishFlush
<1>9. FinishEof => UNCHANGED << prec, results >> BY Zenon DEF FinishEof
<1>10. OneInv /\ UNCHANGED << prec, results >> => OneInv' BY OneUnchanged, Zenon
<1>11. OneInv /\ prec' = FALSE /\ results' = results => OneInv' BY Zenon DEF OneInv
<1>12. ASSUME OneInv, prec, prec' = FALSE, results' = results + 1 PROVE OneInv'
  <2>1. results = 0 BY <1>12, Zenon DEF OneInv
  <2>2. results' = 1 BY <1>12, <2>1
  <2> QED BY <1>12, <2>2, Zenon DEF OneInv
<1> QED BY <1>1, <1>2, <1>3, <1>4, <1>5, <1>6, <1>7, <1>8, <1>9, <1>10, <1>11, <1>12,
           Zenon DEF FeedStep

LEMMA OneStep == OneInv /\ [Next]_vars => OneInv'
<1>1. OneInv /\ UNCHANGED << prec, results >> => OneInv' BY OneUnchanged, Zenon
<1>2. UNCHANGED vars => UNCHANGED << prec, results >> BY DEF vars, parser, outcome
<1>3. ASSUME NEW t \in Inputs, NEW r \in Ranges, Process(t, r) PROVE results' = 0
  BY <1>3, Zenon DEF Process
<1>4. results' = 0 => OneInv' BY Zenon DEF OneInv
<1> QED BY <1>1, <1>2, <1>3, <1>4, ReadKeepsResult, CompleteKeepsResult,
           HandlerKeepsResult, FeedOne, Zenon DEF Next, Step

\* One `process` never evaluates twice: whatever the handlers do, however the end
\* of the input is reached, and also after a failure.
THEOREM ResultOnce == Spec => []AtMostOneResult
<1>1. Init => OneInv BY Zenon DEF Init, OneInv
<1>2. OneInv => AtMostOneResult BY DEF OneInv, AtMostOneResult
<1> QED BY <1>1, <1>2, OneStep, PTL DEF Spec

-----------------------------------------------------------------------------
(* Symbols and values                                                      *)

\* Symbols and values go together as long as no handler gives an alternative
\* twice.
LEMMA ReadKeepsMatch == ReadStep => UNCHANGED << found, msv >>
<1> USE DEF match
<1>1. ReachStop => UNCHANGED << found, msv >> BY Zenon DEF ReachStop
<1>2. ReachEof => UNCHANGED << found, msv >> BY Zenon DEF ReachEof
<1>3. ReachOver => UNCHANGED << found, msv >> BY Zenon DEF ReachOver
<1>4. Accept => UNCHANGED << found, msv >> BY Zenon DEF Accept
<1>5. Flush => UNCHANGED << found, msv >> BY Zenon DEF Flush
<1>6. Refuse => UNCHANGED << found, msv >> BY Zenon DEF Refuse
<1>7. AcceptNull => UNCHANGED << found, msv >> BY Zenon DEF AcceptNull
<1> QED BY <1>1, <1>2, <1>3, <1>4, <1>5, <1>6, <1>7, Zenon DEF ReadStep

LEMMA CompleteKeepsPairs ==
    ASSUME msv = found, CompleteStep
    PROVE  msv' = found'
<1> USE DEF match
<1>1. CompleteNothing => UNCHANGED << found, msv >> BY Zenon DEF CompleteNothing
<1>2. Mismatch => UNCHANGED << found, msv >> BY Zenon DEF Mismatch
<1>3. ASSUME NEW k \in 0 .. Len(lexeme), Match(k) PROVE msv' = found'
  BY <1>3, Zenon DEF Match
<1>4. Discarded => UNCHANGED << found, msv >> BY Zenon DEF Discarded
<1>5. ReportBefore => UNCHANGED << found, msv >> BY Zenon DEF ReportBefore
<1>6. ReportAfter => UNCHANGED << found, msv >> BY Zenon DEF ReportAfter
<1>7. ReportNothing => UNCHANGED << found, msv >> BY Zenon DEF ReportNothing
<1> QED BY <1>1, <1>2, <1>3, <1>4, <1>5, <1>6, <1>7, Zenon DEF CompleteStep

LEMMA HandlerKeepsPairs ==
    ASSUME "twice" \notin Calls, msv = found, HandlerStep
    PROVE  msv' = found'
<1> USE DEF match
<1>1. ASSUME NEW p \in 0 .. Len(text), CallFrom(p) PROVE UNCHANGED << found, msv >>
  BY <1>1, Zenon DEF CallFrom
<1>2. Skip => UNCHANGED << found, msv >> BY Zenon DEF Skip
<1>3. ASSUME NEW c \in -2 .. Len(text) - 1, CallTo(c) PROVE UNCHANGED << found, msv >>
  BY <1>3, Zenon DEF CallTo
<1>4. ASSUME NEW x \in Extensions, CallExtend(x) PROVE UNCHANGED << found, msv >>
  BY <1>4, Zenon DEF CallExtend
<1>5. CallClear => msv' = found' BY Zenon DEF CallClear
<1>6. ASSUME NEW t \in Lexeme, CallAlternate(t) PROVE msv' = found'
  <2> DEFINE syms == IF clearfirst THEN << >> ELSE found
             vals == IF clearfirst THEN << >> ELSE msv
  <2>1. t \notin ToSet(syms) BY <1>6, Zenon DEF CallAlternate
  <2>2. found' = IF t \in ToSet(syms) THEN syms ELSE Append(syms, t)
    BY <1>6, Zenon DEF CallAlternate
  <2>3. msv' = Append(vals, t) BY <1>6, Zenon DEF CallAlternate
  <2>4. vals = syms OBVIOUS
  <2> HIDE DEF syms, vals
  <2> QED BY <2>1, <2>2, <2>3, <2>4
<1>7. HandlerOk => UNCHANGED << found, msv >> BY Zenon DEF HandlerOk
<1>8. HandlerError => UNCHANGED << found, msv >> BY Zenon DEF HandlerError
<1> QED BY <1>1, <1>2, <1>3, <1>4, <1>5, <1>6, <1>7, <1>8, Zenon DEF HandlerStep

LEMMA FeedKeepsPairs ==
    ASSUME msv = found, FeedStep
    PROVE  msv' = found'
<1> USE DEF match
<1>1. FeedNothing => msv' = found' BY Zenon DEF FeedNothing
<1>2. Feed => UNCHANGED << found, msv >> BY Zenon DEF Feed
<1>3. FeedBroken => UNCHANGED << found, msv >> BY Zenon DEF FeedBroken
<1>4. ParseNothing => UNCHANGED << found, msv >> BY Zenon DEF ParseNothing
<1>5. ParseFails => UNCHANGED << found, msv >> BY Zenon DEF ParseFails
<1>6. Parse => UNCHANGED << found, msv >> BY Zenon DEF Parse
<1>7. FinishEnter => UNCHANGED << found, msv >> BY Zenon DEF FinishEnter
<1>8. FinishFlush => UNCHANGED << found, msv >> BY Zenon DEF FinishFlush
<1>9. FinishEof => UNCHANGED << found, msv >> BY Zenon DEF FinishEof
<1> QED BY <1>1, <1>2, <1>3, <1>4, <1>5, <1>6, <1>7, <1>8, <1>9, Zenon DEF FeedStep

LEMMA PairsStep ==
    ASSUME "twice" \notin Calls, msv = found, [Next]_vars
    PROVE  msv' = found'
<1>1. UNCHANGED vars => msv' = found' BY DEF vars, match
<1>2. ASSUME NEW t \in Inputs, NEW r \in Ranges, Process(t, r) PROVE msv' = found'
  BY <1>2, Zenon DEF Process, match
<1>3. ReadStep => msv' = found' BY ReadKeepsMatch, Zenon
<1> QED BY <1>1, <1>2, <1>3, CompleteKeepsPairs, HandlerKeepsPairs,
           FeedKeepsPairs, Zenon DEF Next, Step

\* The parser gets symbols and values that belong together, whatever the
\* handlers do short of giving the same alternative twice.
THEOREM PairsTogether == ASSUME "twice" \notin Calls PROVE Spec => []SideBySide
<1> DEFINE Inv == msv = found
<1>1. Init => Inv BY DEF Init
<1>2. Inv /\ [Next]_vars => Inv' BY PairsStep
<1>3. Inv => SideBySide BY DEF SideBySide
<1> HIDE DEF Inv
<1> QED BY <1>1, <1>2, <1>3, PTL DEF Spec

-----------------------------------------------------------------------------
(***************************************************************************)
(* Proofs that the parts of Engine stay together: the cursor and the lexeme*)
(* with the text, the end of the input with its position, the lexer with   *)
(* the parser, and the outcome with what was evaluated.  Each section has  *)
(* an inductive invariant, that of the next one rests on those before.     *)
(*                                                                         *)
(* They hold for handlers that keep the two rules of movement: no move in  *)
(* the middle of a match, and no move away from the end of the input when  *)
(* the end is being processed.                                             *)
(***************************************************************************)

-----------------------------------------------------------------------------
(* The cursor and the lexeme                                               *)

\* lex_complete has found the match, and the lexer is not yet restarted.
Matched ==
    \/ pc \in {"report", "feed"}
    \/ pc = "event" /\ mevent \notin {"stop", "over"}

\* The cursor stays inside of the text, and the history of the next character
\* is about it.
Bounded ==
    /\ loc \in -1 .. Len(text) - 1
    /\ start \in -1 .. Len(text)
    /\ pc # "idle" => next = loc + 1

\* The characters of the lexeme come from the text, one behind the other.
FromText ==
    /\ src # << >> => start >= 0
    /\ \A i \in 1 .. Len(src) :
           src[i] = start + i - 1 /\ start + i <= Len(text) /\ lexeme[i] = text[start + i]

\* While the lexer reads, the cursor is at the end of the lexeme.  That is why
\* the count of characters to give back is the distance to go back.
AtLexemeEnd == lrec /\ start >= 0 /\ pc # "idle" => loc + 1 = start + Len(src)

\* What lex_complete finds and leaves.
Phases ==
    /\ pc = "complete" => start >= 0
    /\ Matched => ~ lrec /\ start >= 0
    /\ pc = "idle" /\ ~ done => start = -1 /\ src = << >>

PosInv == Bounded /\ FromText /\ AtLexemeEnd /\ Phases

\* A step that leaves the input and the lexeme alone and goes on with some other
\* part of the engine.
LEMMA PosUnchanged ==
    ASSUME PosInv, pc # "idle",
           UNCHANGED << text, loc, next, start, src, lexeme, lrec >>,
           Matched' => Matched,
           pc' = "complete" => start >= 0,
           pc' = "idle" => done'
    PROVE  PosInv'
<1>1. Bounded'
  BY DEF PosInv, Bounded
<1>2. FromText'
  BY DEF PosInv, FromText
<1>3. AtLexemeEnd'
  BY DEF PosInv, AtLexemeEnd
<1>4. Phases'
  BY DEF PosInv, Phases
<1> QED BY <1>1, <1>2, <1>3, <1>4 DEF PosInv

\* The same when the recognizer is released.
LEMMA PosReleased ==
    ASSUME PosInv, pc # "idle",
           UNCHANGED << text, loc, next, start, src, lexeme >>, lrec' = FALSE,
           pc' \notin {"complete", "report", "event", "feed", "idle"}
    PROVE  PosInv'
<1>1. Bounded'
  BY DEF PosInv, Bounded
<1>2. FromText'
  BY DEF PosInv, FromText
<1>3. AtLexemeEnd'
  BY DEF AtLexemeEnd
<1>4. Phases'
  BY DEF Phases, Matched
<1> QED BY <1>1, <1>2, <1>3, <1>4 DEF PosInv

\* The lexer is restarted.
LEMMA PosRenewed ==
    ASSUME TypeOK, PosInv, pc # "idle",
           UNCHANGED << text, loc, next >>, NEW A, Renew(A),
           pc' \notin {"complete", "report", "event", "feed"},
           pc' = "idle" => done'
    PROVE  PosInv'
<1>1. start' = -1 /\ src' = << >> /\ lexeme' = << >>
  BY DEF Renew
<1>2. Bounded'
  BY <1>1 DEF PosInv, Bounded, TypeOK, InputType
<1>3. FromText'
  BY <1>1 DEF FromText
<1>4. AtLexemeEnd'
  BY <1>1 DEF AtLexemeEnd
<1>5. Phases'
  BY <1>1 DEF Phases, Matched
<1> QED BY <1>2, <1>3, <1>4, <1>5 DEF PosInv

\* The input loop.
LEMMA ReadPos == TypeOK /\ PosInv /\ ReadStep => PosInv'
<1> SUFFICES ASSUME TypeOK, PosInv, ReadStep PROVE PosInv'
  OBVIOUS
<1> USE DEF inbound, gate, lexer, match, handler, parser, outcome
<1>1. CASE ReachStop
  BY <1>1, PosUnchanged DEF ReachStop, Raise, Matched
<1>2. CASE ReachEof
  <2>1. CASE start >= 0
    BY <1>2, <2>1, PosUnchanged DEF ReachEof, Matched
  <2>2. CASE ~ (start >= 0)
    BY <1>2, <2>2, PosReleased DEF ReachEof
  <2> QED BY <2>1, <2>2
<1>3. CASE ReachOver
  BY <1>3, PosUnchanged DEF ReachOver, Raise, Matched
<1>4. CASE Accept
  <2>1. /\ pc = "loop" /\ lrec /\ loc \in -1 .. Len(text) - 1 /\ loc # Len(text) - 1
        /\ text \in Seq(Char) /\ lexeme \in Seq(Char) /\ src \in Seq(Int)
        /\ Len(src) = Len(lexeme) /\ start \in -1 .. Len(text)
    BY <1>4 DEF Accept, Reading, TypeOK, InputType, PosInv, Bounded
  <2>2. /\ text' = text /\ loc' = loc + 1 /\ next' = loc + 2 /\ lrec' = lrec
        /\ start' = IF start = -1 THEN loc + 1 ELSE start
        /\ lexeme' = Append(lexeme, text[loc + 2])
        /\ src' = Append(src, loc + 1)
    BY <1>4 DEF Accept, NextChar
  <2>3. pc' \in {"complete", "loop", "idle"} /\ (pc' = "idle" => done')
    BY <1>4 DEF Accept, Loop, Leave
  <2>4. start' >= 0 /\ loc + 1 = start' + Len(src)
    BY <2>1, <2>2 DEF PosInv, FromText, AtLexemeEnd
  <2>5. Bounded'
    BY <2>1, <2>2 DEF Bounded
  <2>6. FromText'
    <3>1. start = -1 => src = << >>
      BY DEF PosInv, FromText
    <3>2. ASSUME NEW i \in 1 .. Len(src')
          PROVE  src'[i] = start' + i - 1 /\ start' + i <= Len(text') /\ lexeme'[i] = text'[start' + i]
      <4>1. CASE i = Len(src) + 1
        <5>1. src'[i] = loc + 1 /\ lexeme'[i] = text[loc + 2]
          BY <2>1, <2>2, <4>1
        <5>2. Len(src) \in Nat /\ Len(text) \in Nat /\ start' \in Int /\ loc \in Int
          BY <2>1, <2>2
        <5>3. start' + i = loc + 2
          BY <2>4, <4>1, <5>2, SMTT(30)
        <5>4. loc + 2 <= Len(text)
          BY <2>1, <5>2
        <5>5. src'[i] = start' + i - 1
          BY <5>1, <5>2, <5>3, <4>1, SMTT(30)
        <5>6. text' = text
          BY <2>2
        <5> QED BY <5>1, <5>3, <5>4, <5>5, <5>6
      <4>2. CASE i \in 1 .. Len(src)
        <5>1. start' = start
          BY <2>1, <2>2, <3>1, <4>2
        <5>2. src'[i] = src[i] /\ lexeme'[i] = lexeme[i]
          BY <2>1, <2>2, <4>2
        <5> QED BY <2>2, <4>2, <5>1, <5>2 DEF PosInv, FromText
      <4>3. i \in 1 .. Len(src) + 1
        BY <2>1, <2>2
      <4> QED BY <2>1, <4>1, <4>2, <4>3
    <3> QED BY <2>4, <3>2 DEF FromText
  <2>7. AtLexemeEnd'
    BY <2>1, <2>2, <2>4 DEF AtLexemeEnd
  <2>8. Phases'
    BY <2>3, <2>4 DEF Phases, Matched
  <2> QED BY <2>5, <2>6, <2>7, <2>8 DEF PosInv
<1>5. CASE Flush
  <2>1. /\ pc = "loop" /\ loc \in -1 .. Len(text) - 1 /\ loc # Len(text) - 1
        /\ src \in Seq(Int) /\ start \in -1 .. Len(text) /\ text \in Seq(Char)
    BY <1>5 DEF Flush, Reading, TypeOK, InputType, PosInv, Bounded
  <2>2. /\ UNCHANGED << text, loc, next, lrec, src, lexeme >> /\ pc' = "complete"
        /\ start' = IF start = -1 THEN loc + 1 ELSE start
    BY <1>5 DEF Flush
  <2>3. start' >= 0
    BY <2>1, <2>2
  <2>4. start = -1 => src = << >>
    BY DEF PosInv, FromText
  <2>5. Bounded'
    BY <2>1, <2>2 DEF PosInv, Bounded
  <2>6. FromText'
    BY <2>1, <2>2, <2>3, <2>4 DEF PosInv, FromText
  <2>7. AtLexemeEnd'
    BY <2>1, <2>2, <2>4 DEF PosInv, AtLexemeEnd
  <2>8. Phases'
    BY <2>2, <2>3 DEF Phases, Matched
  <2> QED BY <2>5, <2>6, <2>7, <2>8 DEF PosInv
<1>6. CASE Refuse
  <2>1. pc' = "idle" /\ done' = TRUE
    BY <1>6 DEF Refuse, Fail, Loop, Leave
  <2>2. /\ loc \in -1 .. Len(text) - 1 /\ loc # Len(text) - 1 /\ loc' = loc + 1
        /\ UNCHANGED << text, start, src, lexeme >> /\ text \in Seq(Char)
    BY <1>6 DEF Refuse, Reading, PosInv, Bounded, TypeOK, InputType
  <2>3. Bounded'
    BY <2>1, <2>2 DEF PosInv, Bounded
  <2>4. FromText'
    BY <2>2 DEF PosInv, FromText
  <2>5. AtLexemeEnd' /\ Phases'
    BY <2>1 DEF AtLexemeEnd, Phases, Matched
  <2> QED BY <2>3, <2>4, <2>5 DEF PosInv
<1>7. CASE AcceptNull
  BY <1>7, PosUnchanged DEF AcceptNull, Reading, Crash, Matched
<1> QED BY <1>1, <1>2, <1>3, <1>4, <1>5, <1>6, <1>7 DEF ReadStep

\* The end of a match.  The cursor goes back by the characters that the match
\* does not need.
LEMMA CompletePos == TypeOK /\ PosInv /\ CompleteStep => PosInv'
<1> SUFFICES ASSUME TypeOK, PosInv, CompleteStep PROVE PosInv'
  OBVIOUS
<1> USE DEF inbound, gate, lexer, match, handler, parser, outcome
<1>1. CASE CompleteNothing
  BY <1>1, PosUnchanged DEF CompleteNothing, Matched
<1>2. CASE Mismatch
  <2>1. /\ pc = "complete" /\ UNCHANGED << text, loc, next, start >>
        /\ lrec' = FALSE /\ src' = << >> /\ lexeme' = << >> /\ pc' = "return"
    BY <1>2 DEF Mismatch
  <2>2. Bounded'
    BY <2>1 DEF PosInv, Bounded
  <2>3. FromText' /\ AtLexemeEnd' /\ Phases'
    BY <2>1 DEF FromText, AtLexemeEnd, Phases, Matched
  <2> QED BY <2>2, <2>3 DEF PosInv
<1>3. ASSUME NEW k \in 0 .. Len(lexeme), Match(k) PROVE PosInv'
  <2>1. /\ pc = "complete" /\ lrec /\ lexeme \in Seq(Char) /\ src \in Seq(Int)
        /\ Len(src) = Len(lexeme) /\ start \in -1 .. Len(text) /\ loc \in Int
        /\ text \in Seq(Char) /\ start >= 0 /\ next = loc + 1
    BY <1>3 DEF Match, TypeOK, InputType, PosInv, Bounded, Phases
  <2>2. /\ text' = text /\ start' = start /\ lrec' = FALSE /\ pc' = "report"
        /\ lexeme' = SubSeq(lexeme, 1, k) /\ src' = SubSeq(src, 1, k)
        /\ loc' = loc - (Len(lexeme) - k)
        /\ next' = IF Len(lexeme) - k = 0 THEN next ELSE src[k + 1]
    BY <1>3 DEF Match, GateRedo
  <2>3. loc + 1 = start + Len(src)
    BY <2>1 DEF PosInv, AtLexemeEnd
  <2>4. Len(src) \in Nat /\ k \in 0 .. Len(src) /\ Len(src') = k
    BY <2>1, <2>2
  <2>5. \A i \in 1 .. Len(src) :
            src[i] = start + i - 1 /\ start + i <= Len(text) /\ lexeme[i] = text[start + i]
    BY DEF PosInv, FromText
  <2>6. loc' = start + k - 1
    <3>1. loc' = loc - (Len(src) - k)
      BY <2>1, <2>2
    <3>2. loc \in Int /\ start \in Int /\ Len(src) \in Int /\ k \in Int
      BY <2>1, <2>4
    <3> QED BY <2>3, <3>1, <3>2
  <2>7. next' = loc' + 1
    <3>1. CASE k = Len(src)
      BY <2>1, <2>2, <3>1
    <3>2. CASE k # Len(src)
      <4>1. k + 1 \in 1 .. Len(src)
        BY <2>4, <3>2
      <4>2. next' = src[k + 1]
        BY <2>1, <2>2, <2>4, <3>2
      <4>3. src[k + 1] = start + (k + 1) - 1
        BY <2>5, <4>1
      <4> QED BY <2>1, <2>4, <2>6, <4>2, <4>3
    <3> QED BY <3>1, <3>2
  <2>8. Bounded'
    <3>1. loc' \in -1 .. Len(text) - 1
      BY <2>1, <2>2, <2>4, <2>6 DEF PosInv, Bounded
    <3> QED BY <2>1, <2>2, <2>7, <3>1 DEF Bounded
  <2>9. FromText'
    <3>1. ASSUME NEW i \in 1 .. Len(src')
          PROVE  src'[i] = start' + i - 1 /\ start' + i <= Len(text') /\ lexeme'[i] = text'[start' + i]
      <4>1. i \in 1 .. k /\ i \in 1 .. Len(src)
        BY <2>4
      <4>2. src'[i] = src[i] /\ lexeme'[i] = lexeme[i]
        BY <2>1, <2>2, <2>4, <4>1, SMTT(30)
      <4> QED BY <2>2, <2>5, <4>1, <4>2
    <3> QED BY <2>1, <2>2, <3>1 DEF FromText
  <2>10. AtLexemeEnd' /\ Phases'
    BY <2>1, <2>2 DEF AtLexemeEnd, Phases, Matched
  <2> QED BY <2>8, <2>9, <2>10 DEF PosInv
<1>4. CASE Discarded
  <2>1. CASE Raise("discard") /\ UNCHANGED << lexer, acc, broken >>
    BY <1>4, <2>1, PosUnchanged DEF Discarded, Raise, Matched
  <2>2. CASE Restart(accept) /\ pc' = "return"
    BY <1>4, <2>2, PosRenewed DEF Discarded, Restart
  <2> QED BY <1>4, <2>1, <2>2 DEF Discarded
<1>5. CASE ReportBefore
  <2>1. /\ pc = "report" /\ loc' = start - 1 /\ next' = start
        /\ UNCHANGED << text, start, src, lexeme, lrec >>
        /\ pc' = "event" /\ mevent' = "before"
    BY <1>5 DEF ReportBefore, Raise
  <2>2. ~ lrec /\ start >= 0 /\ start \in -1 .. Len(text) /\ text \in Seq(Char)
    BY <2>1 DEF PosInv, Phases, Matched, Bounded, TypeOK, InputType
  <2>3. Bounded'
    BY <2>1, <2>2 DEF Bounded
  <2>4. FromText'
    BY <2>1 DEF PosInv, FromText
  <2>5. AtLexemeEnd' /\ Phases'
    BY <2>1, <2>2 DEF AtLexemeEnd, Phases
  <2> QED BY <2>3, <2>4, <2>5 DEF PosInv
<1>6. CASE ReportAfter
  BY <1>6, PosUnchanged DEF ReportAfter, Raise, Matched
<1>7. CASE ReportNothing
  BY <1>7, PosUnchanged DEF ReportNothing, Matched
<1> QED BY <1>1, <1>2, <1>3, <1>4, <1>5, <1>6, <1>7 DEF CompleteStep

\* A handler moves the cursor while the lexer has no recognizer, or nothing read.
LEMMA PosMoved ==
    ASSUME TypeOK, PosInv, pc = "event", pc' = "event", mevent' = mevent,
           loc' \in -1 .. Len(text) - 1, next' = loc' + 1,
           UNCHANGED << text, start, src, lexeme, lrec >>,
           lrec => start = -1
    PROVE  PosInv'
<1>1. Bounded'
  BY DEF PosInv, Bounded
<1>2. FromText'
  BY DEF PosInv, FromText
<1>3. AtLexemeEnd'
  BY DEF AtLexemeEnd
<1>4. Phases'
  BY DEF PosInv, Phases, Matched
<1> QED BY <1>1, <1>2, <1>3, <1>4 DEF PosInv

\* What happens when a handler returns.
LEMMA HandlerOkCases ==
    HandlerOk =>
        \/ mevent \in {"stop", "over"} /\ UNCHANGED << lexer, acc, broken >>
              /\ (pc' = "loop" \/ (pc' = "idle" /\ done'))
        \/ mevent = "discard" /\ Restart(accept) /\ pc' = "return"
        \/ mevent \in {"before", "after"} /\ UNCHANGED << lexer, acc, broken >>
              /\ pc' = "feed"
<1> SUFFICES ASSUME HandlerOk PROVE
        \/ mevent \in {"stop", "over"} /\ UNCHANGED << lexer, acc, broken >>
              /\ (pc' = "loop" \/ (pc' = "idle" /\ done'))
        \/ mevent = "discard" /\ Restart(accept) /\ pc' = "return"
        \/ mevent \in {"before", "after"} /\ UNCHANGED << lexer, acc, broken >>
              /\ pc' = "feed"
  OBVIOUS
<1>1. CASE mevent = "stop" /\ pc' = "loop" /\ UNCHANGED << lexer, acc, fail, done, broken >>
  <2>1. UNCHANGED << lexer, acc, broken >>
    BY <1>1
  <2>2. mevent \in {"stop", "over"} /\ pc' = "loop"
    BY <1>1
  <2> QED BY <2>1, <2>2
<1>2. CASE mevent = "over" /\ Leave /\ UNCHANGED << lexer, acc, broken >>
  BY <1>2 DEF Leave
<1>3. CASE mevent = "discard" /\ Restart(accept) /\ pc' = "return"
  BY <1>3
<1>4. CASE mevent \in {"before", "after"} /\ pc' = "feed"
           /\ UNCHANGED << lexer, acc, fail, done, broken >>
  BY <1>4
<1> QED BY <1>1, <1>2, <1>3, <1>4 DEF HandlerOk

\* The event handlers.
LEMMA HandlerPos ==
    ASSUME "inmatch" \notin Calls, TypeOK, PosInv, HandlerStep
    PROVE  PosInv'
<1> USE DEF inbound, gate, lexer, match, handler, parser, outcome
<1>1. ASSUME NEW p \in 0 .. Len(text), CallFrom(p) PROVE PosInv'
  <2>1. /\ pc = "event" /\ pc' = pc /\ mevent' = mevent /\ mevent \in MoveEvents
        /\ loc' = p - 1 /\ next' = p
        /\ UNCHANGED << text, start, src, lexeme, lrec >>
    BY <1>1 DEF CallFrom, Calling
  <2>2. loc' \in -1 .. Len(text) - 1 /\ next' = loc' + 1
    BY <2>1 DEF TypeOK, InputType
  <2>3. mevent = "stop" => start = -1
    BY <1>1 DEF CallFrom, Sensible, PosInv, Bounded
  <2>4. lrec => start = -1
    BY <2>1, <2>3 DEF MoveEvents, PosInv, Phases, Matched
  <2> QED BY <2>1, <2>2, <2>4, PosMoved
<1>2. CASE Skip
  <2>1. /\ pc = "event" /\ pc' = pc /\ mevent = "before" /\ mevent' = mevent
        /\ src # << >> /\ loc' = src[Len(src)] /\ next' = src[Len(src)] + 1
        /\ UNCHANGED << text, start, src, lexeme, lrec >>
    BY <1>2 DEF Skip, Last
  <2>2. src \in Seq(Int) /\ text \in Seq(Char) /\ ~ lrec /\ start >= 0 /\ start \in Int
    BY <2>1 DEF TypeOK, InputType, PosInv, Phases, Matched
  <2>3. Len(src) \in 1 .. Len(src)
    BY <2>1, <2>2
  <2>4. src[Len(src)] = start + Len(src) - 1 /\ start + Len(src) <= Len(text)
    BY <2>3 DEF PosInv, FromText
  <2>5. loc' \in -1 .. Len(text) - 1 /\ next' = loc' + 1
    BY <2>1, <2>2, <2>3, <2>4
  <2> QED BY <2>1, <2>2, <2>5, PosMoved
<1>3. ASSUME NEW c \in -2 .. Len(text) - 1, CallTo(c) PROVE PosInv'
  BY <1>3, PosUnchanged DEF CallTo, Calling, Matched
<1>4. ASSUME NEW x \in Extensions, CallExtend(x) PROVE PosInv'
  <2>1. /\ pc = "event" /\ pc' = pc /\ mevent' = mevent
        /\ text' = text \o << Sep >> \o x
        /\ UNCHANGED << loc, next, start, src, lexeme, lrec, done >>
    BY <1>4 DEF CallExtend, Calling
  <2>2. /\ text \in Seq(Char) /\ x \in Seq(Char) /\ << Sep >> \in Seq(Char)
        /\ loc \in Int /\ start \in Int /\ src \in Seq(Int)
    BY <1>4, InputAssumption DEF TypeOK, InputType
  <2>3. /\ Len(text') >= Len(text) /\ Len(text') \in Nat
        /\ \A i \in 1 .. Len(text) : text'[i] = text[i]
    BY <2>1, <2>2
  <2>4. Bounded'
    BY <2>1, <2>2, <2>3 DEF PosInv, Bounded
  <2>5. FromText'
    <3>1. ASSUME NEW i \in 1 .. Len(src)
          PROVE  src[i] = start + i - 1 /\ start + i <= Len(text') /\ lexeme[i] = text'[start + i]
      <4>1. src # << >> /\ start >= 0
        BY <2>2 DEF PosInv, FromText
      <4>2. src[i] = start + i - 1 /\ start + i <= Len(text) /\ lexeme[i] = text[start + i]
        BY DEF PosInv, FromText
      <4>3. start + i \in 1 .. Len(text)
        BY <2>2, <4>1, <4>2
      <4>4. text'[start + i] = text[start + i] /\ start + i <= Len(text')
        BY <2>2, <2>3, <4>2, <4>3
      <4> QED BY <4>2, <4>4
    <3> QED BY <2>1, <3>1 DEF PosInv, FromText
  <2>6. AtLexemeEnd' /\ Phases'
    BY <2>1 DEF PosInv, AtLexemeEnd, Phases, Matched
  <2> QED BY <2>4, <2>5, <2>6 DEF PosInv
<1>5. CASE CallClear
  BY <1>5, PosUnchanged DEF CallClear, Calling, Matched
<1>6. ASSUME NEW t \in Lexeme, CallAlternate(t) PROVE PosInv'
  BY <1>6, PosUnchanged DEF CallAlternate, Calling, Matched
<1>7. CASE HandlerOk
  <2>1. pc = "event" /\ UNCHANGED << text, loc, next >>
    BY <1>7 DEF HandlerOk
  <2>2. CASE mevent = "discard" /\ Restart(accept) /\ pc' = "return"
    BY <2>1, <2>2, PosRenewed DEF Restart
  <2>3. CASE mevent \in {"stop", "over"} /\ UNCHANGED << lexer, acc, broken >>
             /\ (pc' = "loop" \/ (pc' = "idle" /\ done'))
    BY <2>1, <2>3, PosUnchanged DEF Matched
  <2>4. CASE mevent \in {"before", "after"} /\ UNCHANGED << lexer, acc, broken >>
             /\ pc' = "feed"
    BY <2>1, <2>4, PosUnchanged DEF Matched
  <2> QED BY <1>7, <2>2, <2>3, <2>4, HandlerOkCases
<1>8. CASE HandlerError
  <2>1. pc = "event" /\ UNCHANGED << text, loc, next, start, src, lexeme, lrec >>
    BY <1>8 DEF HandlerError
  <2>2. pc' = "return" \/ (pc' = "idle" /\ done')
    BY <1>8, Zenon DEF HandlerError, Leave
  <2> QED BY <2>1, <2>2, PosUnchanged DEF Matched
<1> QED BY <1>1, <1>2, <1>3, <1>4, <1>5, <1>6, <1>7, <1>8 DEF HandlerStep

\* The tokens go to the parser, and the calls return.
LEMMA FeedPos == TypeOK /\ PosInv /\ FeedStep => PosInv'
<1> SUFFICES ASSUME TypeOK, PosInv, FeedStep PROVE PosInv'
  OBVIOUS
<1> USE DEF inbound, gate, lexer, match, handler, parser, outcome
<1>1. CASE FeedNothing
  BY <1>1, PosRenewed DEF FeedNothing, Restart
<1>2. CASE Feed
  <2>1. CASE pc' = "parse" /\ UNCHANGED << lexer, acc, broken >>
    BY <1>2, <2>1, PosUnchanged DEF Feed, Matched
  <2>2. CASE pc' = "return" /\ Restart(Acceptable(gset'))
    BY <1>2, <2>2, PosRenewed DEF Feed, Restart
  <2> QED BY <1>2, <2>1, <2>2 DEF Feed
<1>3. CASE FeedBroken
  BY <1>3, PosUnchanged DEF FeedBroken, Crash, Matched
<1>4. CASE ParseNothing
  BY <1>4, PosUnchanged DEF ParseNothing, AfterParse, LoopUnlessAtEnd, Leave, Matched
<1>5. CASE ParseFails
  BY <1>5, PosUnchanged DEF ParseFails, AfterParse, LoopUnlessAtEnd, Leave, Matched
<1>6. CASE Parse
  BY <1>6, PosRenewed DEF Parse, Restart, AfterParse, LoopUnlessAtEnd, Leave
<1>7. CASE FinishEnter
  BY <1>7, PosUnchanged DEF FinishEnter, Loop, Leave, Matched
<1>8. CASE FinishFlush
  BY <1>8, PosUnchanged DEF FinishFlush, Loop, Leave, Matched
<1>9. CASE FinishEof
  <2>1. CASE redo # 0
    BY <1>9, <2>1, PosUnchanged DEF FinishEof, LoopUnlessAtEnd, Leave, Matched
  <2>2. CASE redo = 0
    BY <1>9, <2>2, PosReleased DEF FinishEof
  <2> QED BY <2>1, <2>2
<1> QED BY <1>1, <1>2, <1>3, <1>4, <1>5, <1>6, <1>7, <1>8, <1>9 DEF FeedStep

\* A new `process`.
LEMMA ProcessPos ==
    ASSUME TypeOK, PosInv, NEW t \in Inputs, NEW r \in Ranges, Process(t, r)
    PROVE  PosInv'
<1>1. /\ pc = "idle" /\ pc' = "loop" /\ text' = t /\ loc' = r[1] /\ next' = r[1] + 1
  BY Zenon DEF Process
<1>2. start' = -1 /\ src' = << >>
  <2>1. CASE done /\ Reset
    BY <2>1 DEF Reset, Renew
  <2>2. CASE ~ done /\ UNCHANGED lexer
    BY <1>1, <2>2 DEF PosInv, Phases, lexer
  <2> QED BY <2>1, <2>2, Zenon DEF Process
<1>3. t \in Seq(Char) /\ r[1] \in Int /\ r[1] >= -1 /\ r[1] < Len(t)
  BY InputAssumption
<1>4. Bounded'
  BY <1>1, <1>2, <1>3 DEF Bounded
<1>5. FromText' /\ AtLexemeEnd' /\ Phases'
  BY <1>1, <1>2 DEF FromText, AtLexemeEnd, Phases, Matched
<1> QED BY <1>4, <1>5 DEF PosInv

LEMMA PosStep ==
    ASSUME "inmatch" \notin Calls, TypeOK, PosInv, [Next]_vars
    PROVE  PosInv'
<1>1. CASE UNCHANGED vars
  <2>1. /\ UNCHANGED << text, loc, next, start, src, lexeme >> /\ lrec' = lrec
        /\ pc' = pc /\ mevent' = mevent /\ done' = done
    BY <1>1 DEF vars, inbound, lexer, handler, outcome
  <2> QED BY <2>1 DEF PosInv, Bounded, FromText, AtLexemeEnd, Phases, Matched
<1>2. CASE Step
  BY <1>2, ReadPos, CompletePos, HandlerPos, FeedPos DEF Step
<1>3. ASSUME NEW t \in Inputs, NEW r \in Ranges, Process(t, r) PROVE PosInv'
  BY <1>3, ProcessPos
<1> QED BY <1>1, <1>2, <1>3 DEF Next

LEMMA PosInit == Init => PosInv
BY DEF Init, PosInv, Bounded, FromText, AtLexemeEnd, Phases, Matched

THEOREM PosCorrect == ASSUME "inmatch" \notin Calls PROVE Spec => [](TypeOK /\ PosInv)
<1>1. Init => TypeOK /\ PosInv
  BY InitType, PosInit
<1>2. TypeOK /\ PosInv /\ [Next]_vars => (TypeOK /\ PosInv)'
  BY TypeStep, PosStep
<1> QED BY <1>1, <1>2, PTL DEF Spec

\* What is read next follows what was consumed, however many characters were
\* given back and wherever a handler moved, in every engine.
THEOREM PositionsAgree ==
    ASSUME "inmatch" \notin Calls PROVE Spec => []InputPosition
<1>1. PosInv => InputPosition
  BY DEF PosInv, Bounded, InputPosition
<1> QED BY <1>1, PosCorrect, PTL

\* The lexeme of a match is what stands in the text at its start.  Handlers that
\* move in the middle of a match are excluded: they make it of two places.
THEOREM LexemeCorrect ==
    ASSUME "inmatch" \notin Calls PROVE Spec => []LexemeIsText
<1>1. ASSUME TypeOK, PosInv PROVE LexemeIsText
  <2> SUFFICES ASSUME pc \in {"report", "event", "feed"},
                      pc = "event" => mevent \notin {"stop", "over"}
               PROVE  lexeme = SubSeq(text, start + 1, start + Len(lexeme))
    BY DEF LexemeIsText
  <2>1. /\ lexeme \in Seq(Char) /\ text \in Seq(Char) /\ Len(src) = Len(lexeme)
        /\ Len(lexeme) \in Nat /\ start \in -1 .. Len(text) /\ Len(text) \in Nat
    BY <1>1 DEF TypeOK, InputType, PosInv, Bounded
  <2>2. start >= 0
    BY <1>1 DEF PosInv, Phases, Matched
  <2>3. \A i \in 1 .. Len(lexeme) : start + i <= Len(text) /\ lexeme[i] = text[start + i]
    BY <1>1, <2>1 DEF PosInv, FromText
  <2> DEFINE piece == SubSeq(text, start + 1, start + Len(lexeme))
  <2>4. start + Len(lexeme) <= Len(text)
    <3>1. CASE Len(lexeme) = 0
      BY <2>1, <3>1
    <3>2. CASE Len(lexeme) \in 1 .. Len(lexeme)
      BY <2>3, <3>2
    <3> QED BY <2>1, <3>1, <3>2
  <2>5. piece \in Seq(Char) /\ Len(piece) = Len(lexeme)
        /\ \A i \in 1 .. Len(lexeme) : piece[i] = text[start + i]
    BY <2>1, <2>2, <2>4
  <2> HIDE DEF piece
  <2>6. lexeme = piece
    BY <2>1, <2>3, <2>5
  <2> QED BY <2>6 DEF piece
<1> QED BY <1>1, PosCorrect, PTL

-----------------------------------------------------------------------------
(* The end of the input                                                    *)

\* After the last match characters were given back exactly if the cursor is not
\* at the end of the primary input.
EofTold == redo = 0 <=> loc = psize - 1

\* lexer_eof looks at `redo` only, so it has to tell where the cursor is: on the
\* way from the match to lexer_eof, through whatever handler.
EndInv ==
    /\ pc = "event" => mevent # "none"
    /\ Matched \/ pc \in {"complete", "return"} => caller # "end"
    /\ pc = "parse" /\ caller = "end" => loc = psize - 1
    /\ caller = "eof" =>
          /\ pc = "complete" => loc = psize - 1
          /\ pc = "report" => loc + redo = psize - 1 /\ loc + 1 = start + Len(src)
          /\ pc = "event" /\ mevent \in {"discard", "after"} => EofTold
          /\ pc = "event" /\ mevent = "before" =>
                start + Len(src) + redo = psize /\ (loc = start - 1 \/ EofTold)
          /\ pc \in {"feed", "parse", "return"} => EofTold

LEMMA Numbers ==
    ASSUME TypeOK
    PROVE  /\ loc \in Int /\ psize \in Int /\ start \in Int /\ src \in Seq(Int)
           /\ Len(src) \in Nat /\ redo \in Nat
           /\ mevent \in {"none", "stop", "over", "discard", "before", "after"}
<1>1. loc \in Int /\ psize \in Int /\ start \in Int /\ src \in Seq(Int) /\ Len(src) \in Nat
  BY DEF TypeOK, InputType
<1>2. ControlType
  BY DEF TypeOK
<1>3. redo \in Nat /\ mevent \in {"none", "stop", "over", "discard", "before", "after"}
  BY <1>2, Zenon DEF ControlType
<1> QED BY <1>1, <1>3

\* The input loop.
LEMMA ReadEnd == TypeOK /\ PosInv /\ EndInv /\ ReadStep => EndInv'
<1> SUFFICES ASSUME TypeOK, PosInv, EndInv, ReadStep PROVE EndInv'
  OBVIOUS
<1> USE DEF inbound, gate, lexer, match, handler, parser, outcome
<1>1. CASE ReachStop
  BY <1>1 DEF ReachStop, Raise, EndInv, Matched
<1>2. CASE ReachEof
  BY <1>2 DEF ReachEof, EndInv, Matched
<1>3. CASE ReachOver
  BY <1>3 DEF ReachOver, Raise, EndInv, Matched
<1>4. CASE Accept
  <2>1. \/ pc' = "complete" /\ caller' = "enter"
        \/ pc' \in {"loop", "idle"}
    BY <1>4 DEF Accept, Loop, Leave
  <2> QED BY <2>1 DEF EndInv, Matched
<1>5. CASE Flush
  BY <1>5 DEF Flush, EndInv, Matched
<1>6. CASE Refuse
  <2>1. pc' \in {"loop", "idle"}
    BY <1>6 DEF Refuse, Loop, Leave
  <2> QED BY <2>1 DEF EndInv, Matched
<1>7. CASE AcceptNull
  BY <1>7 DEF AcceptNull, Crash, EndInv, Matched
<1> QED BY <1>1, <1>2, <1>3, <1>4, <1>5, <1>6, <1>7 DEF ReadStep

\* The end of a match.
LEMMA CompleteEnd == TypeOK /\ PosInv /\ EndInv /\ CompleteStep => EndInv'
<1> SUFFICES ASSUME TypeOK, PosInv, EndInv, CompleteStep PROVE EndInv'
  OBVIOUS
<1> USE DEF inbound, gate, lexer, match, handler, parser, outcome
<1>1. CASE CompleteNothing
  BY <1>1 DEF CompleteNothing, EndInv, Matched, EofTold
<1>2. CASE Mismatch
  BY <1>2 DEF Mismatch, EndInv, Matched, EofTold
<1>3. ASSUME NEW k \in 0 .. Len(lexeme), Match(k) PROVE EndInv'
  <2>1. /\ pc = "complete" /\ pc' = "report" /\ caller' = caller /\ psize' = psize
        /\ start' = start /\ src' = SubSeq(src, 1, k)
        /\ redo' = Len(lexeme) - k /\ loc' = loc - (Len(lexeme) - k)
    BY <1>3 DEF Match, GateRedo
  <2>2. /\ loc \in Int /\ psize \in Int /\ start \in Int /\ k \in 0 .. Len(src)
        /\ src \in Seq(Int) /\ Len(src) \in Nat /\ Len(lexeme) = Len(src)
    BY DEF TypeOK, InputType
  <2>3. loc + 1 = start + Len(src)
    BY <1>3, <2>1 DEF Match, PosInv, AtLexemeEnd, Phases
  <2>4. Len(src') = k
    BY <2>1, <2>2
  <2>5. caller = "eof" => loc = psize - 1
    BY <2>1 DEF EndInv, Matched
  <2>6. loc' + 1 = start' + Len(src')
    BY <2>1, <2>2, <2>3, <2>4, SMTT(30)
  <2>7. caller = "eof" => loc' + redo' = psize' - 1
    BY <2>1, <2>2, <2>5
  <2> QED BY <2>1, <2>6, <2>7 DEF EndInv, Matched
<1>4. CASE Discarded
  <2>1. /\ pc = "report" /\ UNCHANGED << loc, psize, redo, caller >>
        /\ \/ pc' = "event" /\ mevent' = "discard"
           \/ pc' = "return"
    BY <1>4 DEF Discarded, Raise
  <2>2. loc \in Int /\ redo \in Int /\ psize \in Int
    BY Numbers
  <2> QED BY <2>1, <2>2 DEF EndInv, Matched, EofTold
<1>5. CASE ReportBefore
  <2>1. /\ pc = "report" /\ pc' = "event" /\ mevent' = "before" /\ loc' = start - 1
        /\ UNCHANGED << psize, redo, caller, start, src >>
    BY <1>5 DEF ReportBefore, Raise
  <2>2. loc \in Int /\ redo \in Int /\ psize \in Int /\ start \in Int /\ Len(src) \in Int
    BY Numbers
  <2> QED BY <2>1, <2>2 DEF EndInv, Matched
<1>6. CASE ReportAfter
  <2>1. /\ pc = "report" /\ pc' = "event" /\ mevent' = "after"
        /\ UNCHANGED << loc, psize, redo, caller >>
    BY <1>6 DEF ReportAfter, Raise
  <2>2. loc \in Int /\ redo \in Int /\ psize \in Int
    BY Numbers
  <2> QED BY <2>1, <2>2 DEF EndInv, Matched, EofTold
<1>7. CASE ReportNothing
  <2>1. pc = "report" /\ pc' = "feed" /\ UNCHANGED << loc, psize, redo, caller >>
    BY <1>7 DEF ReportNothing
  <2>2. loc \in Int /\ redo \in Int /\ psize \in Int
    BY Numbers
  <2> QED BY <2>1, <2>2 DEF EndInv, Matched, EofTold
<1> QED BY <1>1, <1>2, <1>3, <1>4, <1>5, <1>6, <1>7 DEF CompleteStep

\* The event handlers.  A handler that keeps the rule for the end of the input
\* moves to the end exactly if no characters were given back.
LEMMA HandlerEnd ==
    ASSUME "ateof" \notin Calls, TypeOK, PosInv, EndInv, HandlerStep
    PROVE  EndInv'
<1> USE DEF inbound, gate, lexer, match, handler, parser, outcome
<1> DEFINE Same == pc = "event" /\ pc' = "event"
                   /\ UNCHANGED << psize, mevent, caller, redo, start, src >>
<1>1. ASSUME NEW p \in 0 .. Len(text), CallFrom(p) PROVE EndInv'
  <2>1. Same /\ loc' = p - 1
    BY <1>1 DEF CallFrom, Calling
  <2>2. AtEof => (p = psize <=> redo = 0)
    BY <1>1 DEF CallFrom, Sensible
  <2>3. p \in Int /\ psize \in Int
    BY DEF TypeOK, InputType
  <2> QED BY <2>1, <2>2, <2>3 DEF EndInv, Matched, EofTold, AtEof
<1>2. CASE Skip
  <2>1. Same /\ mevent = "before" /\ src # << >> /\ loc' = src[Len(src)]
    BY <1>2 DEF Skip, Last
  <2>2. /\ src \in Seq(Int) /\ Len(src) \in 1 .. Len(src) /\ psize \in Int
        /\ start \in Int /\ redo \in Nat
    BY <2>1, Numbers
  <2>3. src[Len(src)] = start + Len(src) - 1
    BY <2>2 DEF PosInv, FromText
  <2>4. caller = "eof" => start + Len(src) + redo = psize
    BY <2>1 DEF EndInv, Matched
  <2>5. caller = "eof" => (redo = 0 <=> loc' = psize - 1)
    BY <2>1, <2>2, <2>3, <2>4
  <2> QED BY <2>1, <2>4, <2>5 DEF EndInv, Matched, EofTold
<1>3. ASSUME NEW c \in -2 .. Len(text) - 1, CallTo(c) PROVE EndInv'
  <2>1. Same /\ loc' = loc
    BY <1>3 DEF CallTo, Calling
  <2> QED BY <2>1 DEF EndInv, Matched, EofTold
<1>4. ASSUME NEW x \in Extensions, CallExtend(x) PROVE EndInv'
  <2>1. Same /\ loc' = loc
    BY <1>4 DEF CallExtend, Calling
  <2> QED BY <2>1 DEF EndInv, Matched, EofTold
<1>5. CASE CallClear
  <2>1. Same /\ loc' = loc
    BY <1>5 DEF CallClear, Calling
  <2> QED BY <2>1 DEF EndInv, Matched, EofTold
<1>6. ASSUME NEW t \in Lexeme, CallAlternate(t) PROVE EndInv'
  <2>1. Same /\ loc' = loc
    BY <1>6 DEF CallAlternate, Calling
  <2> QED BY <2>1 DEF EndInv, Matched, EofTold
<1>7. CASE HandlerOk
  <2>1. pc = "event" /\ UNCHANGED << loc, psize, redo, caller >>
    BY <1>7 DEF HandlerOk
  <2>2. CASE mevent = "discard" /\ pc' = "return"
    BY <2>1, <2>2 DEF EndInv, Matched, EofTold
  <2>3. CASE mevent \in {"stop", "over"} /\ pc' \in {"loop", "idle"}
    BY <2>1, <2>3 DEF EndInv, Matched, EofTold
  <2>4. CASE mevent = "after" /\ pc' = "feed"
    BY <2>1, <2>4 DEF EndInv, Matched, EofTold
  <2>5. CASE mevent = "before" /\ pc' = "feed"
    <3>1. loc # start - 1 \/ src = << >>
      BY <1>7, <2>5 DEF HandlerOk
    <3>2. loc \in Int /\ redo \in Int /\ psize \in Int /\ start \in Int /\ Len(src) \in Int
      BY Numbers
    <3>3. caller = "eof" => EofTold
      <4>1. CASE loc # start - 1
        BY <2>1, <2>5, <4>1 DEF EndInv, Matched
      <4>2. CASE src = << >> /\ loc = start - 1
        <5>1. caller = "eof" => start + redo = psize
          BY <2>1, <2>5, <3>2, <4>2 DEF EndInv, Matched
        <5> QED BY <3>2, <4>2, <5>1 DEF EofTold
      <4> QED BY <3>1, <4>1, <4>2
    <3> QED BY <2>1, <2>5, <3>3 DEF EndInv, Matched, EofTold
  <2> QED BY <1>7, <2>2, <2>3, <2>4, <2>5, HandlerOkCases
<1>8. CASE HandlerError
  <2>1. pc = "event" /\ caller' = caller /\ loc' = loc /\ ~ AtEof
    BY <1>8 DEF HandlerError
  <2>2. \/ mevent \in {"stop", "over"} /\ pc' = "idle"
        \/ mevent \notin {"stop", "over"} /\ caller # "eof" /\ pc' = "return"
    BY <1>8, <2>1, Numbers DEF HandlerError, Leave, AtEof, EndInv, Matched
  <2> QED BY <2>1, <2>2 DEF EndInv, Matched
<1> QED BY <1>1, <1>2, <1>3, <1>4, <1>5, <1>6, <1>7, <1>8 DEF HandlerStep

\* The tokens go to the parser, and the calls return.
LEMMA FeedEnd == TypeOK /\ PosInv /\ EndInv /\ FeedStep => EndInv'
<1> SUFFICES ASSUME TypeOK, PosInv, EndInv, FeedStep PROVE EndInv'
  OBVIOUS
<1> USE DEF inbound, gate, lexer, match, handler, parser, outcome
<1> DEFINE Same == UNCHANGED << loc, psize, redo, caller >>
<1>1. CASE FeedNothing
  <2>1. Same /\ pc = "feed" /\ pc' = "return"
    BY <1>1 DEF FeedNothing
  <2> QED BY <2>1 DEF EndInv, Matched, EofTold
<1>2. CASE Feed
  <2>1. Same /\ pc = "feed" /\ pc' \in {"parse", "return"}
    BY <1>2 DEF Feed
  <2> QED BY <2>1 DEF EndInv, Matched, EofTold
<1>3. CASE FeedBroken
  BY <1>3 DEF FeedBroken, Crash, EndInv, Matched
<1>4. CASE ParseNothing \/ ParseFails \/ Parse
  <2>1. Same /\ pc = "parse" /\ AfterParse
    BY <1>4 DEF ParseNothing, ParseFails, Parse
  <2>2. \/ pc' \in {"idle", "loop"}
        \/ caller # "end" /\ pc' = "return"
    BY <2>1 DEF AfterParse, LoopUnlessAtEnd, Leave
  <2> QED BY <2>1, <2>2 DEF EndInv, Matched, EofTold
<1>5. CASE FinishEnter \/ FinishFlush
  <2>1. pc' \in {"loop", "idle"}
    BY <1>5 DEF FinishEnter, FinishFlush, Loop, Leave
  <2> QED BY <2>1 DEF EndInv, Matched
<1>6. CASE FinishEof
  <2>1. UNCHANGED << loc, psize, redo >> /\ pc = "return" /\ caller = "eof"
    BY <1>6 DEF FinishEof
  <2>2. \/ redo # 0 /\ pc' \in {"loop", "idle"}
        \/ redo = 0 /\ pc' = "parse" /\ caller' = "end"
    BY <1>6 DEF FinishEof, LoopUnlessAtEnd, Leave
  <2> QED BY <2>1, <2>2 DEF EndInv, Matched, EofTold
<1> QED BY <1>1, <1>2, <1>3, <1>4, <1>5, <1>6 DEF FeedStep

LEMMA EndStep ==
    ASSUME "ateof" \notin Calls, TypeOK, PosInv, EndInv, [Next]_vars
    PROVE  EndInv'
<1>1. CASE UNCHANGED vars
  <2>1. UNCHANGED << loc, psize, redo, caller, pc, mevent, start, src >>
    BY <1>1 DEF vars, inbound, lexer, handler
  <2> QED BY <2>1 DEF EndInv, Matched, EofTold
<1>2. CASE Step
  BY <1>2, ReadEnd, CompleteEnd, HandlerEnd, FeedEnd DEF Step
<1>3. ASSUME NEW t \in Inputs, NEW r \in Ranges, Process(t, r) PROVE EndInv'
  <2>1. pc' = "loop"
    BY <1>3, Zenon DEF Process
  <2> QED BY <2>1 DEF EndInv, Matched
<1> QED BY <1>1, <1>2, <1>3 DEF Next

THEOREM EndCorrect ==
    ASSUME Calls \cap {"inmatch", "ateof"} = {}
    PROVE  Spec => [](TypeOK /\ PosInv /\ EndInv)
<1>1. Init => TypeOK /\ PosInv /\ EndInv
  BY InitType, PosInit DEF Init, EndInv, Matched
<1>2. TypeOK /\ PosInv /\ EndInv /\ [Next]_vars => (TypeOK /\ PosInv /\ EndInv)'
  BY TypeStep, PosStep, EndStep
<1> QED BY <1>1, <1>2, PTL DEF Spec

\* The parser is told of the end of the input at the end of the input, through
\* any number of characters given back and returns to the end.
THEOREM EofAtEnd ==
    ASSUME Calls \cap {"inmatch", "ateof"} = {} PROVE Spec => []EofOnlyAtEnd
<1>1. EndInv => EofOnlyAtEnd
  BY DEF EndInv, Matched, EofOnlyAtEnd
<1> QED BY <1>1, EndCorrect, PTL

-----------------------------------------------------------------------------
(* The regions of the input                                                *)

\* The lexeme under way is on one side of the end of the primary input.
RegionInv == src # << >> /\ start < psize => start + Len(src) <= psize

\* What most steps do with the lexeme: nothing, drop it, or shorten it.
LexemeKept ==
    psize' = psize /\ start' = start
    /\ (src' = src \/ \E k \in 0 .. Len(src) : src' = SubSeq(src, 1, k))

LexemeDropped == src' = << >>

LEMMA RegionKept ==
    ASSUME TypeOK, RegionInv, LexemeKept \/ LexemeDropped
    PROVE  RegionInv'
<1>1. src \in Seq(Int) /\ start \in Int /\ psize \in Int /\ Len(src) \in Nat
  BY Numbers
<1>2. CASE LexemeDropped
  BY <1>2 DEF LexemeDropped, RegionInv
<1>3. CASE psize' = psize /\ start' = start /\ src' = src
  BY <1>3 DEF RegionInv
<1>4. ASSUME psize' = psize, start' = start, NEW k \in 0 .. Len(src), src' = SubSeq(src, 1, k)
      PROVE  RegionInv'
  <2>1. Len(src') = k /\ (src = << >> => src' = << >>)
    BY <1>1, <1>4
  <2> QED BY <1>1, <1>4, <2>1 DEF RegionInv
<1> QED BY <1>2, <1>3, <1>4 DEF LexemeKept

LEMMA ReadRegion == TypeOK /\ PosInv /\ RegionInv /\ ReadStep => RegionInv'
<1> SUFFICES ASSUME TypeOK, PosInv, RegionInv, ReadStep PROVE RegionInv'
  OBVIOUS
<1> USE DEF inbound, gate, lexer
<1>0. /\ src \in Seq(Int) /\ start \in Int /\ psize \in Int /\ Len(src) \in Nat /\ loc \in Int
      /\ start >= -1 /\ (start = -1 => src = << >>)
  BY Numbers DEF PosInv, Bounded, FromText
<1>1. CASE ReachStop \/ ReachEof \/ ReachOver \/ Refuse \/ AcceptNull
  <2>1. LexemeKept
    BY <1>1 DEF ReachStop, ReachEof, ReachOver, Refuse, AcceptNull, LexemeKept
  <2> QED BY <2>1, RegionKept
<1>2. CASE Accept
  <2>1. /\ psize' = psize /\ start' = (IF start = -1 THEN loc + 1 ELSE start)
        /\ src' = Append(src, loc + 1) /\ loc # psize - 1
    BY <1>2 DEF Accept, Reading
  <2>2. start >= 0 => loc + 1 = start + Len(src)
    BY <1>2 DEF Accept, Reading, PosInv, AtLexemeEnd
  <2>3. Len(src') = Len(src) + 1 /\ start' + Len(src) = loc + 1
    BY <1>0, <2>1, <2>2
  <2>4. start < psize /\ src # << >> => start + Len(src) <= psize
    BY DEF RegionInv
  <2>5. ASSUME start' < psize PROVE loc + 1 < psize
    <3>1. CASE src = << >>
      BY <1>0, <2>1, <2>3, <2>5, <3>1
    <3>2. CASE src # << >>
      BY <1>0, <2>1, <2>3, <2>4, <2>5, <3>2
    <3> QED BY <3>1, <3>2
  <2> QED BY <1>0, <2>1, <2>3, <2>5 DEF RegionInv
<1>3. CASE Flush
  <2>1. psize' = psize /\ src' = src /\ start' = (IF start = -1 THEN loc + 1 ELSE start)
    BY <1>3 DEF Flush
  <2> QED BY <1>0, <2>1 DEF RegionInv
<1> QED BY <1>1, <1>2, <1>3 DEF ReadStep

LEMMA CompleteRegion == TypeOK /\ RegionInv /\ CompleteStep => RegionInv'
<1> SUFFICES ASSUME TypeOK, RegionInv, CompleteStep PROVE RegionInv'
  OBVIOUS
<1> USE DEF inbound, gate, lexer
<1>1. CASE CompleteNothing \/ ReportBefore \/ ReportAfter \/ ReportNothing
  <2>1. LexemeKept
    BY <1>1 DEF CompleteNothing, ReportBefore, ReportAfter, ReportNothing, LexemeKept
  <2> QED BY <2>1, RegionKept
<1>2. CASE Mismatch
  BY <1>2, RegionKept DEF Mismatch, LexemeDropped
<1>3. ASSUME NEW k \in 0 .. Len(lexeme), Match(k) PROVE RegionInv'
  <2>1. Len(src) = Len(lexeme)
    BY DEF TypeOK, InputType
  <2>2. psize' = psize /\ start' = start /\ src' = SubSeq(src, 1, k)
    BY <1>3 DEF Match
  <2>3. k \in 0 .. Len(src)
    BY <2>1
  <2>4. LexemeKept
    BY <2>2, <2>3 DEF LexemeKept
  <2> QED BY <2>4, RegionKept
<1>4. CASE Discarded
  <2>1. LexemeKept \/ LexemeDropped
    BY <1>4 DEF Discarded, Restart, Renew, LexemeKept, LexemeDropped
  <2> QED BY <2>1, RegionKept
<1> QED BY <1>1, <1>2, <1>3, <1>4 DEF CompleteStep

LEMMA HandlerRegion == TypeOK /\ RegionInv /\ HandlerStep => RegionInv'
<1> SUFFICES ASSUME TypeOK, RegionInv, HandlerStep PROVE RegionInv'
  OBVIOUS
<1> USE DEF inbound, gate, lexer
<1>1. ASSUME NEW p \in 0 .. Len(text), CallFrom(p) PROVE LexemeKept
  BY <1>1 DEF CallFrom, LexemeKept
<1>2. ASSUME NEW c \in -2 .. Len(text) - 1, CallTo(c) PROVE LexemeKept
  BY <1>2 DEF CallTo, LexemeKept
<1>3. ASSUME NEW x \in Extensions, CallExtend(x) PROVE LexemeKept
  BY <1>3 DEF CallExtend, LexemeKept
<1>4. ASSUME NEW t \in Lexeme, CallAlternate(t) PROVE LexemeKept
  BY <1>4 DEF CallAlternate, LexemeKept
<1>5. ASSUME Skip \/ CallClear \/ HandlerError PROVE LexemeKept
  BY <1>5 DEF Skip, CallClear, HandlerError, LexemeKept
<1>6. ASSUME HandlerOk PROVE LexemeKept \/ LexemeDropped
  <2>1. psize' = psize /\ (Restart(accept) \/ UNCHANGED << lexer, acc, broken >>)
    BY <1>6, HandlerOkCases DEF HandlerOk
  <2> QED BY <2>1 DEF Restart, Renew, LexemeKept, LexemeDropped
<1> QED BY <1>1, <1>2, <1>3, <1>4, <1>5, <1>6, RegionKept DEF HandlerStep

LEMMA FeedRegion == TypeOK /\ RegionInv /\ FeedStep => RegionInv'
<1> SUFFICES ASSUME TypeOK, RegionInv, FeedStep PROVE RegionInv'
  OBVIOUS
<1> USE DEF inbound, gate, lexer
<1>1. CASE FeedNothing \/ Feed \/ Parse
  <2>1. LexemeKept \/ LexemeDropped
    BY <1>1 DEF FeedNothing, Feed, Parse, Restart, Renew, LexemeKept, LexemeDropped
  <2> QED BY <2>1, RegionKept
<1>2. CASE FeedBroken \/ ParseNothing \/ ParseFails
  <2>1. LexemeKept
    BY <1>2 DEF FeedBroken, ParseNothing, ParseFails, LexemeKept
  <2> QED BY <2>1, RegionKept
<1>3. CASE FinishEnter \/ FinishFlush \/ FinishEof
  <2>1. LexemeKept
    BY <1>3 DEF FinishEnter, FinishFlush, FinishEof, LexemeKept
  <2> QED BY <2>1, RegionKept
<1> QED BY <1>1, <1>2, <1>3 DEF FeedStep

LEMMA RegionStep == TypeOK /\ PosInv /\ RegionInv /\ [Next]_vars => RegionInv'
<1> SUFFICES ASSUME TypeOK, PosInv, RegionInv, [Next]_vars PROVE RegionInv'
  OBVIOUS
<1>1. CASE UNCHANGED vars
  BY <1>1, RegionKept DEF vars, inbound, lexer, LexemeKept
<1>2. CASE Step
  BY <1>2, ReadRegion, CompleteRegion, HandlerRegion, FeedRegion DEF Step
<1>3. ASSUME NEW t \in Inputs, NEW r \in Ranges, Process(t, r) PROVE RegionInv'
  <2>1. CASE Reset
    BY <2>1, RegionKept DEF Reset, Renew, LexemeDropped
  <2>2. CASE ~ done /\ UNCHANGED << fail, flushed, parser, lexer, acc >>
    <3>1. src = << >> /\ src' = src
      BY <1>3, <2>2, Zenon DEF Process, PosInv, Phases, lexer
    <3> QED BY <3>1, RegionKept DEF LexemeDropped
  <2> QED BY <1>3, <2>1, <2>2, Zenon DEF Process
<1> QED BY <1>1, <1>2, <1>3 DEF Next

\* No match runs from the primary input into what was added behind it, though
\* the text of both is one array.
THEOREM RegionKeeps ==
    ASSUME "inmatch" \notin Calls PROVE Spec => []StaysInRegion
<1>1. Init => RegionInv
  BY DEF Init, RegionInv
<1>2. TypeOK /\ PosInv /\ RegionInv /\ [Next]_vars => RegionInv'
  BY RegionStep
<1>3. ASSUME TypeOK, PosInv, RegionInv PROVE StaysInRegion
  <2> SUFFICES ASSUME lexeme # << >> PROVE start + Len(lexeme) <= RegionEnd(start)
    BY DEF StaysInRegion
  <2>1. /\ src \in Seq(Int) /\ lexeme \in Seq(Char) /\ Len(src) = Len(lexeme)
        /\ Len(src) \in Nat /\ start \in Int /\ psize \in Int /\ Len(text) \in Int
    BY <1>3 DEF TypeOK, InputType
  <2>2. src # << >> /\ Len(src) \in 1 .. Len(src)
    BY <2>1
  <2>3. start + Len(src) <= Len(text)
    BY <1>3, <2>2 DEF PosInv, FromText
  <2>4. start < psize => start + Len(src) <= psize
    BY <1>3, <2>2 DEF RegionInv
  <2> QED BY <2>1, <2>3, <2>4 DEF RegionEnd
<1> QED BY <1>1, <1>2, <1>3, PosCorrect, PTL DEF Spec

-----------------------------------------------------------------------------
(* The lexer and the parser                                                *)

\* Places where the lexer is ready for the next character.
Looking ==
    \/ pc \in {"loop", "return"}
    \/ pc = "idle" /\ ~ done
    \/ pc = "event" /\ mevent \in {"stop", "over"}

\* The lexer looks for what the parser expects, from the restart that follows a
\* match up to the next one.  A parse at the end of a sentence has a recognizer.
FollowInv ==
    /\ fail = "none" =>
          /\ Looking => lrec /\ accept = Acceptable(gset) /\ acc = Viable(accept, lexeme)
          /\ pc = "complete" => lrec /\ accept = Acceptable(gset)
          /\ Matched => accept = Acceptable(gset)
    /\ pc = "parse" => ~ lrec /\ (caller # "end" => prec)

\* A step from one part of the engine to another one.
LEMMA FollowUnchanged ==
    ASSUME FollowInv, UNCHANGED << fail, accept, acc, lexeme, gset, lrec >>,
           Looking' => Looking,
           pc' = "complete" => Looking \/ pc = "complete",
           Matched' => Matched,
           pc' # "parse"
    PROVE  FollowInv'
BY DEF FollowInv

LEMMA FollowRenewed ==
    ASSUME NEW A, Renew(A), A = Acceptable(gset'), pc' # "parse"
    PROVE  FollowInv'
BY DEF FollowInv, Renew

LEMMA FollowFailed ==
    ASSUME fail' # "none", pc' # "parse"
    PROVE  FollowInv'
BY DEF FollowInv

\* The input loop.
LEMMA ReadFollow == FollowInv /\ ReadStep => FollowInv'
<1> SUFFICES ASSUME FollowInv, ReadStep PROVE FollowInv'
  OBVIOUS
<1> USE DEF inbound, gate, lexer, match, handler, parser, outcome
<1>1. CASE ReachStop
  BY <1>1, FollowUnchanged DEF ReachStop, Raise, Looking, Matched
<1>2. CASE ReachEof
  <2>1. CASE start >= 0
    BY <1>2, <2>1, FollowUnchanged DEF ReachEof, Looking, Matched
  <2>2. CASE ~ (start >= 0)
    BY <1>2, <2>2 DEF ReachEof, FollowInv, Looking, Matched
  <2> QED BY <2>1, <2>2
<1>3. CASE ReachOver
  BY <1>3, FollowUnchanged DEF ReachOver, Raise, Looking, Matched
<1>4. CASE Accept
  <2>1. /\ pc = "loop" /\ UNCHANGED << fail, accept, gset, lrec >>
    BY <1>4 DEF Accept, Reading
  <2>2. \/ pc' = "complete"
        \/ pc' = "loop" /\ acc' = Viable(accept, lexeme')
        \/ pc' = "idle" /\ fail' # "none"
    BY <1>4 DEF Accept, Loop, Leave
  <2> QED BY <2>1, <2>2 DEF FollowInv, Looking, Matched
<1>5. CASE Flush
  BY <1>5, FollowUnchanged DEF Flush, Reading, Looking, Matched
<1>6. CASE Refuse
  <2>1. fail' # "none" /\ pc' # "parse"
    BY <1>6 DEF Refuse, Fail, Loop, Leave
  <2> QED BY <2>1, FollowFailed
<1>7. CASE AcceptNull
  BY <1>7, FollowUnchanged DEF AcceptNull, Crash, Looking, Matched
<1> QED BY <1>1, <1>2, <1>3, <1>4, <1>5, <1>6, <1>7 DEF ReadStep

\* The end of a match.
LEMMA CompleteFollow == FollowInv /\ CompleteStep => FollowInv'
<1> SUFFICES ASSUME FollowInv, CompleteStep PROVE FollowInv'
  OBVIOUS
<1> USE DEF inbound, gate, lexer, match, handler, parser, outcome
<1>1. CASE CompleteNothing
  <2>1. fail # "none" /\ fail' = fail /\ pc' # "parse"
    BY <1>1 DEF CompleteNothing, FollowInv
  <2> QED BY <2>1, FollowFailed
<1>2. CASE Mismatch
  <2>1. fail' # "none" /\ pc' # "parse"
    BY <1>2 DEF Mismatch, Fail
  <2> QED BY <2>1, FollowFailed
<1>3. ASSUME NEW k \in 0 .. Len(lexeme), Match(k) PROVE FollowInv'
  <2>1. pc = "complete" /\ pc' = "report" /\ UNCHANGED << fail, accept, gset >>
    BY <1>3 DEF Match
  <2> QED BY <2>1 DEF FollowInv, Looking, Matched
<1>4. CASE Discarded
  <2>1. pc = "report" /\ UNCHANGED << fail, gset >>
    BY <1>4 DEF Discarded
  <2>2. fail = "none" => accept = Acceptable(gset)
    BY <2>1 DEF FollowInv, Matched
  <2>3. CASE Raise("discard") /\ UNCHANGED << lexer, acc, broken >>
    BY <2>1, <2>3, FollowUnchanged DEF Raise, Looking, Matched
  <2>4. CASE Restart(accept) /\ pc' = "return"
    <3>1. CASE fail = "none"
      BY <2>1, <2>2, <2>4, <3>1, FollowRenewed DEF Restart
    <3>2. CASE fail # "none"
      BY <2>1, <2>4, <3>2, FollowFailed
    <3> QED BY <3>1, <3>2
  <2> QED BY <1>4, <2>3, <2>4 DEF Discarded
<1>5. CASE ReportBefore
  BY <1>5, FollowUnchanged DEF ReportBefore, Raise, Looking, Matched
<1>6. CASE ReportAfter
  BY <1>6, FollowUnchanged DEF ReportAfter, Raise, Looking, Matched
<1>7. CASE ReportNothing
  BY <1>7, FollowUnchanged DEF ReportNothing, Looking, Matched
<1> QED BY <1>1, <1>2, <1>3, <1>4, <1>5, <1>6, <1>7 DEF CompleteStep

\* The event handlers: none of them touches the lexer but by returning.
LEMMA HandlerFollow ==
    ASSUME TypeOK, FollowInv, HandlerStep
    PROVE  FollowInv'
<1> USE DEF inbound, gate, lexer, match, handler, parser, outcome
<1> DEFINE Same == /\ pc = "event" /\ pc' = "event" /\ mevent' = mevent
                   /\ UNCHANGED << fail, accept, acc, lexeme, gset, lrec >>
<1>1. ASSUME NEW p \in 0 .. Len(text), CallFrom(p) PROVE Same
  BY <1>1 DEF CallFrom, Calling
<1>2. ASSUME Skip PROVE Same
  BY <1>2 DEF Skip
<1>3. ASSUME NEW c \in -2 .. Len(text) - 1, CallTo(c) PROVE Same
  BY <1>3 DEF CallTo, Calling
<1>4. ASSUME NEW x \in Extensions, CallExtend(x) PROVE Same
  BY <1>4 DEF CallExtend, Calling
<1>5. ASSUME CallClear PROVE Same
  BY <1>5 DEF CallClear, Calling
<1>6. ASSUME NEW t \in Lexeme, CallAlternate(t) PROVE Same
  BY <1>6 DEF CallAlternate, Calling
<1>7. ASSUME Same PROVE FollowInv'
  <2>1. (Looking' => Looking) /\ (Matched' => Matched) /\ pc' \notin {"complete", "parse"}
    BY <1>7 DEF Looking, Matched
  <2> QED BY <1>7, <2>1, FollowUnchanged
<1>8. CASE HandlerOk
  <2>1. pc = "event" /\ gset' = gset
    BY <1>8 DEF HandlerOk
  <2>2. fail' = fail \/ fail' # "none"
    BY <1>8 DEF HandlerOk, Fail
  <2>3. pc' # "parse"
    BY <1>8, HandlerOkCases
  <2>4. CASE fail' # "none"
    BY <2>3, <2>4, FollowFailed
  <2>5. CASE fail' = "none" /\ fail = "none"
    <3>1. CASE mevent = "discard" /\ Restart(accept) /\ pc' = "return"
      <4>1. accept = Acceptable(gset')
        BY <2>1, <2>5, <3>1 DEF FollowInv, Matched
      <4>2. Renew(accept) /\ pc' # "parse"
        BY <3>1 DEF Restart
      <4> QED BY <4>1, <4>2, FollowRenewed
    <3>2. CASE mevent \in {"stop", "over"} /\ UNCHANGED << lexer, acc, broken >>
      BY <2>1, <2>3, <2>5, <3>2, HandlerOkCases, <1>8, FollowUnchanged DEF Looking, Matched
    <3>3. CASE mevent \in {"before", "after"} /\ UNCHANGED << lexer, acc, broken >>
               /\ pc' = "feed"
      BY <2>1, <2>5, <3>3, FollowUnchanged DEF Looking, Matched
    <3> QED BY <1>8, <3>1, <3>2, <3>3, HandlerOkCases
  <2> QED BY <2>2, <2>4, <2>5
<1>9. CASE HandlerError
  <2>1. fail' # "none" /\ pc' # "parse"
    BY <1>9 DEF HandlerError, Fail, Leave
  <2> QED BY <2>1, FollowFailed
<1> QED BY <1>1, <1>2, <1>3, <1>4, <1>5, <1>6, <1>7, <1>8, <1>9 DEF HandlerStep

\* The tokens go to the parser, and the calls return.
LEMMA FeedFollow == TypeOK /\ PosInv /\ EndInv /\ FollowInv /\ FeedStep => FollowInv'
<1> SUFFICES ASSUME TypeOK, PosInv, EndInv, FollowInv, FeedStep PROVE FollowInv'
  OBVIOUS
<1> USE DEF inbound, gate, lexer, match, handler, parser, outcome
<1>1. CASE FeedNothing
  <2>1. pc = "feed" /\ pc' = "return" /\ UNCHANGED << fail, gset >> /\ Renew(accept)
    BY <1>1 DEF FeedNothing, Restart
  <2>2. CASE fail = "none"
    <3>1. accept = Acceptable(gset')
      BY <2>1, <2>2 DEF FollowInv, Matched
    <3> QED BY <2>1, <3>1, FollowRenewed
  <2>3. CASE fail # "none"
    BY <2>1, <2>3, FollowFailed
  <2> QED BY <2>2, <2>3
<1>2. CASE Feed
  <2>1. /\ pc = "feed" /\ prec /\ prec' = prec /\ caller' = caller
        /\ \/ pc' = "parse" /\ lrec' = lrec
           \/ pc' = "return" /\ Renew(Acceptable(gset'))
    BY <1>2 DEF Feed, Restart
  <2>2. CASE pc' = "parse" /\ lrec' = lrec
    <3>1. ~ lrec
      BY <2>1 DEF PosInv, Phases, Matched
    <3> QED BY <2>1, <2>2, <3>1 DEF FollowInv, Looking, Matched
  <2>3. CASE pc' = "return" /\ Renew(Acceptable(gset'))
    BY <2>3, FollowRenewed
  <2> QED BY <2>1, <2>2, <2>3
<1>3. CASE FeedBroken
  BY <1>3 DEF FeedBroken, Crash, FollowInv, Looking, Matched
<1>4. CASE ParseNothing
  <2>1. pc = "parse" /\ ~ prec /\ AfterParse /\ UNCHANGED << loc, psize >>
    BY <1>4 DEF ParseNothing
  <2>2. caller = "end" /\ loc = psize - 1
    BY <2>1 DEF FollowInv, EndInv
  <2>3. pc' = "idle" /\ done'
    BY <2>1, <2>2, SMT DEF AfterParse, LoopUnlessAtEnd, Leave
  <2> QED BY <2>3 DEF FollowInv, Looking, Matched
<1>5. CASE ParseFails
  <2>1. fail' # "none" /\ pc' # "parse"
    BY <1>5 DEF ParseFails, Fail, AfterParse, LoopUnlessAtEnd, Leave
  <2> QED BY <2>1, FollowFailed
<1>6. CASE Parse
  <2>1. gset' = gset /\ Renew(Acceptable(gset)) /\ pc' # "parse"
    BY <1>6 DEF Parse, Restart, AfterParse, LoopUnlessAtEnd, Leave
  <2> QED BY <2>1, FollowRenewed
<1>7. CASE FinishEnter \/ FinishFlush
  <2>1. /\ pc = "return" /\ UNCHANGED << fail, accept, acc, lexeme, gset, lrec >>
        /\ pc' \in {"loop", "idle"}
    BY <1>7 DEF FinishEnter, FinishFlush, Loop, Leave
  <2>2. Looking /\ ~ Matched' /\ pc' \notin {"complete", "parse"}
    BY <2>1 DEF Looking, Matched
  <2> QED BY <2>1, <2>2, FollowUnchanged
<1>8. CASE FinishEof
  <2>1. CASE pc' = "parse" /\ caller' = "end" /\ ~ lrec'
    BY <2>1 DEF FollowInv, Looking, Matched
  <2>2. CASE /\ pc = "return" /\ UNCHANGED << fail, accept, acc, lexeme, gset, lrec >>
             /\ pc' \in {"loop", "idle"}
    <3>1. Looking /\ ~ Matched' /\ pc' \notin {"complete", "parse"}
      BY <2>2 DEF Looking, Matched
    <3> QED BY <2>2, <3>1, FollowUnchanged
  <2> QED BY <1>8, <2>1, <2>2 DEF FinishEof, LoopUnlessAtEnd, Leave
<1> QED BY <1>1, <1>2, <1>3, <1>4, <1>5, <1>6, <1>7, <1>8 DEF FeedStep

\* `process`: the parser and the lexer start again, or were just constructed.
LEMMA ProcessFollow ==
    ASSUME FollowInv, NEW t \in Inputs, NEW r \in Ranges, Process(t, r)
    PROVE  FollowInv'
<1>1. pc = "idle" /\ pc' = "loop"
  BY Zenon DEF Process
<1>2. CASE Reset
  <2>1. Renew(Acceptable(gset'))
    BY <1>2 DEF Reset
  <2> QED BY <1>1, <2>1, FollowRenewed
<1>3. CASE ~ done /\ UNCHANGED << fail, flushed, parser, lexer, acc >>
  <2>1. Looking /\ UNCHANGED << fail, accept, acc, lexeme, gset, lrec >>
    BY <1>1, <1>3 DEF Looking, parser, lexer
  <2>2. ~ Matched' /\ pc' \notin {"complete", "parse"}
    BY <1>1 DEF Matched
  <2> QED BY <2>1, <2>2, FollowUnchanged
<1> QED BY <1>2, <1>3, Zenon DEF Process

LEMMA FollowStep == TypeOK /\ PosInv /\ EndInv /\ FollowInv /\ [Next]_vars => FollowInv'
<1> SUFFICES ASSUME TypeOK, PosInv, EndInv, FollowInv, [Next]_vars PROVE FollowInv'
  OBVIOUS
<1>1. CASE UNCHANGED vars
  <2>1. UNCHANGED << fail, accept, acc, lexeme, gset, lrec, pc, mevent, done, prec, caller >>
    BY <1>1 DEF vars, gate, lexer, handler, parser, outcome
  <2> QED BY <2>1 DEF FollowInv, Looking, Matched
<1>2. CASE Step
  BY <1>2, ReadFollow, CompleteFollow, HandlerFollow, FeedFollow DEF Step
<1>3. ASSUME NEW t \in Inputs, NEW r \in Ranges, Process(t, r) PROVE FollowInv'
  BY <1>3, ProcessFollow
<1> QED BY <1>1, <1>2, <1>3 DEF Next

THEOREM FollowCorrect ==
    ASSUME Calls \cap {"inmatch", "ateof"} = {}
    PROVE  Spec => []FollowInv
<1>1. Init => FollowInv
  BY DEF Init, FollowInv, Looking, Matched
<1>2. TypeOK /\ PosInv /\ EndInv /\ FollowInv /\ [Next]_vars => FollowInv'
  BY FollowStep
<1> QED BY <1>1, <1>2, EndCorrect, PTL DEF Spec

\* The lexer looks for what the parser expects and for nothing else, after every
\* match, after discarded input, and after every change a handler made.
THEOREM LexerCorrect ==
    ASSUME Calls \cap {"inmatch", "ateof"} = {} PROVE Spec => []LexerFollowsParser
<1>1. FollowInv => LexerFollowsParser
  BY DEF FollowInv, Looking, LexerFollowsParser, Acceptable
<1> QED BY <1>1, FollowCorrect, PTL

-----------------------------------------------------------------------------
(* The verdict                                                             *)

\* The parser has given up its recognizer exactly if it has evaluated, and the
\* engine stops with that alone.
VerdictInv ==
    fail = "none" => /\ ~ prec => results = 1
                     /\ pc = "idle" => (done <=> ~ prec)

\* The steps outside of the parser stop the engine with a failure only.
GoesOn == fail' = "none" => fail = "none" /\ pc' # "idle"

LEMMA ReadGoesOn == ReadStep => GoesOn
<1> USE DEF outcome, GoesOn
<1>1. CASE ReachStop
  BY <1>1 DEF ReachStop, Raise
<1>2. CASE ReachEof
  BY <1>2 DEF ReachEof
<1>3. CASE ReachOver
  BY <1>3 DEF ReachOver, Raise
<1>4. CASE Accept
  BY <1>4 DEF Accept, Loop
<1>5. CASE Flush
  BY <1>5 DEF Flush
<1>6. CASE Refuse
  BY <1>6 DEF Refuse, Fail
<1>7. CASE AcceptNull
  BY <1>7 DEF AcceptNull, Crash
<1> QED BY <1>1, <1>2, <1>3, <1>4, <1>5, <1>6, <1>7 DEF ReadStep

LEMMA CompleteGoesOn == CompleteStep => GoesOn
<1> USE DEF outcome, GoesOn
<1>1. CASE CompleteNothing
  BY <1>1 DEF CompleteNothing
<1>2. CASE Mismatch
  BY <1>2 DEF Mismatch, Fail
<1>3. ASSUME NEW k \in 0 .. Len(lexeme), Match(k) PROVE GoesOn
  BY <1>3 DEF Match
<1>4. CASE Discarded
  BY <1>4 DEF Discarded, Raise
<1>5. CASE ReportBefore
  BY <1>5 DEF ReportBefore, Raise
<1>6. CASE ReportAfter
  BY <1>6 DEF ReportAfter, Raise
<1>7. CASE ReportNothing
  BY <1>7 DEF ReportNothing
<1> QED BY <1>1, <1>2, <1>3, <1>4, <1>5, <1>6, <1>7 DEF CompleteStep

LEMMA HandlerGoesOn == HandlerStep => GoesOn
<1> USE DEF outcome, GoesOn
<1>1. ASSUME NEW p \in 0 .. Len(text), CallFrom(p) PROVE GoesOn
  BY <1>1 DEF CallFrom, Calling
<1>2. CASE Skip
  BY <1>2 DEF Skip
<1>3. ASSUME NEW c \in -2 .. Len(text) - 1, CallTo(c) PROVE GoesOn
  BY <1>3 DEF CallTo, Calling
<1>4. ASSUME NEW x \in Extensions, CallExtend(x) PROVE GoesOn
  BY <1>4 DEF CallExtend, Calling
<1>5. CASE CallClear
  BY <1>5 DEF CallClear, Calling
<1>6. ASSUME NEW t \in Lexeme, CallAlternate(t) PROVE GoesOn
  BY <1>6 DEF CallAlternate, Calling
<1>7. CASE HandlerOk
  BY <1>7 DEF HandlerOk, Fail
<1>8. CASE HandlerError
  BY <1>8 DEF HandlerError, Fail
<1> QED BY <1>1, <1>2, <1>3, <1>4, <1>5, <1>6, <1>7, <1>8 DEF HandlerStep

LEMMA VerdictUnchanged ==
    ASSUME VerdictInv, UNCHANGED << prec, results >>, GoesOn
    PROVE  VerdictInv'
BY DEF VerdictInv, GoesOn

\* Only the end of a parse leaves the engine without a failure.
LEMMA FeedVerdict == TypeOK /\ OneInv /\ EndInv /\ VerdictInv /\ FeedStep => VerdictInv'
<1> SUFFICES ASSUME TypeOK, OneInv, EndInv, VerdictInv, FeedStep PROVE VerdictInv'
  OBVIOUS
<1> USE DEF inbound, parser, outcome
<1>1. CASE FeedNothing
  BY <1>1 DEF FeedNothing, VerdictInv
<1>2. CASE Feed
  BY <1>2 DEF Feed, VerdictInv
<1>3. CASE FeedBroken
  BY <1>3 DEF FeedBroken, Crash, VerdictInv
<1>4. CASE ParseNothing
  <2>1. ~ prec /\ UNCHANGED << prec, results, fail >> /\ (pc' = "idle" => done')
    BY <1>4 DEF ParseNothing, AfterParse, LoopUnlessAtEnd, Leave
  <2> QED BY <2>1 DEF VerdictInv
<1>5. CASE ParseFails
  BY <1>5 DEF ParseFails, Fail, VerdictInv
<1>6. CASE Parse
  <2>1. prec /\ ~ prec' /\ results' = results + 1 /\ (pc' = "idle" => done')
    BY <1>6 DEF Parse, AfterParse, LoopUnlessAtEnd, Leave
  <2>2. results = 0
    BY <2>1 DEF OneInv
  <2> QED BY <2>1, <2>2 DEF VerdictInv
<1>7. CASE FinishEnter \/ FinishFlush
  <2>1. UNCHANGED << prec, results, fail >> /\ Loop
    BY <1>7 DEF FinishEnter, FinishFlush
  <2>2. pc' = "idle" => fail' # "none"
    BY <2>1 DEF Loop
  <2> QED BY <2>1, <2>2 DEF VerdictInv
<1>8. CASE FinishEof
  <2>1. UNCHANGED << prec, results, fail >> /\ pc = "return" /\ caller = "eof"
    BY <1>8 DEF FinishEof
  <2>2. redo = 0 <=> loc = psize - 1
    BY <2>1 DEF EndInv, EofTold, Matched
  <2>3. pc' # "idle"
    BY <1>8, <2>2 DEF FinishEof, LoopUnlessAtEnd
  <2> QED BY <2>1, <2>3 DEF VerdictInv
<1> QED BY <1>1, <1>2, <1>3, <1>4, <1>5, <1>6, <1>7, <1>8 DEF FeedStep

LEMMA VerdictStep ==
    TypeOK /\ OneInv /\ EndInv /\ VerdictInv /\ [Next]_vars => VerdictInv'
<1> SUFFICES ASSUME TypeOK, OneInv, EndInv, VerdictInv, [Next]_vars PROVE VerdictInv'
  OBVIOUS
<1>1. CASE UNCHANGED vars
  <2>1. UNCHANGED << fail, prec, results, pc, done >>
    BY <1>1 DEF vars, parser, outcome
  <2> QED BY <2>1 DEF VerdictInv
<1>2. CASE ReadStep \/ CompleteStep \/ HandlerStep
  BY <1>2, ReadGoesOn, CompleteGoesOn, HandlerGoesOn, ReadKeepsResult, CompleteKeepsResult,
     HandlerKeepsResult, VerdictUnchanged
<1>3. CASE FeedStep
  BY <1>3, FeedVerdict
<1>4. ASSUME NEW t \in Inputs, NEW r \in Ranges, Process(t, r) PROVE VerdictInv'
  <2>1. pc = "idle" /\ pc' = "loop"
    BY <1>4, Zenon DEF Process
  <2>2. CASE Reset
    BY <2>1, <2>2 DEF Reset, VerdictInv
  <2>3. CASE ~ done /\ UNCHANGED << fail, flushed, parser, lexer, acc >>
    BY <2>1, <2>3 DEF parser, VerdictInv
  <2> QED BY <1>4, <2>2, <2>3, Zenon DEF Process
<1> QED BY <1>1, <1>2, <1>3, <1>4 DEF Next, Step

\* `process` ends with exactly one evaluation or with a failure.
THEOREM VerdictGiven ==
    ASSUME Calls \cap {"inmatch", "ateof"} = {} PROVE Spec => []Verdict
<1>1. Init => OneInv /\ VerdictInv
  BY DEF Init, OneInv, VerdictInv
<1>2. TypeOK /\ EndInv /\ OneInv /\ VerdictInv /\ [Next]_vars => (OneInv /\ VerdictInv)'
  BY OneStep, VerdictStep
<1>3. VerdictInv => Verdict
  BY DEF VerdictInv, Verdict
<1> QED BY <1>1, <1>2, <1>3, EndCorrect, PTL DEF Spec

-----------------------------------------------------------------------------
(* ASSERTs and recognizers                                                 *)

\* Places on the way from the input loop to the parser and back.
Running == pc \notin {"idle", "parse", "crashed"}

\* Symbols are on their way to the parser.
Delivering ==
    \/ pc \in {"report", "feed"} /\ found # << >>
    \/ pc = "event" /\ mevent \in {"before", "after"}

\* A sentence that is complete has a parser without recognizer, which nothing
\* reaches any more, because it expects nothing.
BrokenInv ==
    /\ broken = "no" \/ pc = "crashed"
    /\ fail = "none" =>
          /\ pc # "crashed"
          /\ Running /\ ~ prec => Expected(gset) = {}
          /\ pc = "parse" /\ caller # "end" => Expected(gset) = {}
          /\ Delivering => prec

\* What the proof needs of the other invariants.
Sound == TypeOK /\ PosInv /\ EndInv /\ FollowInv /\ VerdictInv /\ msv = found

LEMMA BrokenUnchanged ==
    ASSUME BrokenInv, UNCHANGED << prec, gset >>, broken' = "no",
           fail' = "none" => fail = "none",
           pc' # "crashed",
           Running' => Running,
           pc' = "parse" => caller' = "end",
           Delivering' => Delivering
    PROVE  BrokenInv'
BY DEF BrokenInv

LEMMA BrokenFailed ==
    ASSUME broken' = "no" \/ pc' = "crashed", fail' # "none"
    PROVE  BrokenInv'
BY DEF BrokenInv

\* The ASSERT of lexer_acceptable holds where the recognizer was released before.
LEMMA RestartSound ==
    ASSUME broken = "no", ~ lrec, NEW A, Restart(A)
    PROVE  broken' = "no"
BY DEF Restart

LEMMA ReadBroken == Sound /\ BrokenInv /\ ReadStep => BrokenInv'
<1> SUFFICES ASSUME Sound, BrokenInv, ReadStep PROVE BrokenInv'
  OBVIOUS
<1> USE DEF inbound, gate, lexer, match, handler, parser, outcome
<1>0. pc = "loop"
  BY DEF ReadStep, ReachStop, ReachEof, ReachOver, Accept, Flush, Refuse, AcceptNull, Reading
<1>a. broken = "no" /\ Running
  BY <1>0 DEF BrokenInv, Running
<1>1. CASE ReachStop
  BY <1>a, <1>1, BrokenUnchanged DEF ReachStop, Raise, Running, Delivering
<1>2. CASE ReachEof
  BY <1>a, <1>2, BrokenUnchanged DEF ReachEof, Running, Delivering
<1>3. CASE ReachOver
  BY <1>a, <1>3, BrokenUnchanged DEF ReachOver, Raise, Running, Delivering
<1>4. CASE Accept
  BY <1>a, <1>4, BrokenUnchanged DEF Accept, Loop, Leave, Running, Delivering
<1>5. CASE Flush
  BY <1>a, <1>5, BrokenUnchanged DEF Flush, Running, Delivering
<1>6. CASE Refuse
  BY <1>a, <1>6, BrokenFailed DEF Refuse, Fail
<1>7. CASE AcceptNull
  <2>1. fail # "none"
    BY <1>0, <1>7 DEF AcceptNull, Sound, FollowInv, Looking
  <2> QED BY <1>7, <2>1, BrokenFailed DEF AcceptNull, Crash
<1> QED BY <1>1, <1>2, <1>3, <1>4, <1>5, <1>6, <1>7 DEF ReadStep

\* The only enumeration of no elements.
LEMMA EmptyEnumeration ==
    ASSUME NEW f \in SetToSeqs({})
    PROVE  f = << >>
<1>1. Cardinality({}) = 0
  BY FS_EmptySet
<1>2. f \in [1 .. 0 -> {}]
  BY <1>1, Zenon DEF SetToSeqs
<1> QED BY <1>2

\* The end of a match: without a parser there are no terminals in it.
LEMMA CompleteBroken ==
    ASSUME Always \subseteq Discard, Sound, BrokenInv, CompleteStep
    PROVE  BrokenInv'
<1> USE DEF inbound, gate, lexer, match, handler, parser, outcome
<1>0. pc \in {"complete", "report"}
  BY DEF CompleteStep, CompleteNothing, Mismatch, Match, Discarded, ReportBefore,
         ReportAfter, ReportNothing
<1>a. broken = "no" /\ Running
  BY <1>0 DEF BrokenInv, Running
<1>1. CASE CompleteNothing
  BY <1>a, <1>1, BrokenUnchanged DEF CompleteNothing, Running, Delivering
<1>2. CASE Mismatch
  BY <1>a, <1>2, BrokenFailed DEF Mismatch, Fail
<1>3. ASSUME NEW k \in 0 .. Len(lexeme), Match(k) PROVE BrokenInv'
  <2> DEFINE word == SubSeq(lexeme, 1, k)
             hits == { s \in accept : word \in Words[s] }
  <2>1. /\ pc = "complete" /\ pc' = "report" /\ UNCHANGED << fail, broken, prec, gset >>
        /\ found' \in SetToSeqs(Terminals(hits))
    BY <1>3 DEF Match
  <2>2. CASE fail # "none"
    BY <1>a, <2>1, <2>2, BrokenFailed
  <2>3. CASE fail = "none" /\ prec
    BY <1>a, <2>1, <2>3 DEF BrokenInv, Running
  <2>4. CASE fail = "none" /\ ~ prec
    <3>1. Expected(gset) = {}
      BY <1>a, <2>4 DEF BrokenInv
    <3>2. accept = Always
      BY <2>1, <2>4, <3>1 DEF Sound, FollowInv, Acceptable
    <3>3. Terminals(hits) = {}
      BY <3>2 DEF Terminals
    <3>4. found' = << >>
      BY <2>1, <3>3, EmptyEnumeration
    <3> QED BY <1>a, <2>1, <2>4, <3>1, <3>4 DEF BrokenInv, Running, Delivering
  <2> QED BY <2>2, <2>3, <2>4
<1>4. CASE Discarded
  <2>1. pc = "report" /\ UNCHANGED << fail, prec, gset >> /\ ~ lrec
    BY <1>4 DEF Discarded, Sound, PosInv, Phases, Matched
  <2>2. CASE Raise("discard") /\ UNCHANGED << lexer, acc, broken >>
    BY <1>a, <2>1, <2>2, BrokenUnchanged DEF Raise, Running, Delivering
  <2>3. CASE Restart(accept) /\ pc' = "return"
    BY <1>a, <2>1, <2>3, RestartSound, BrokenUnchanged DEF Running, Delivering
  <2> QED BY <1>4, <2>2, <2>3 DEF Discarded
<1>5. CASE ReportBefore
  BY <1>a, <1>5, BrokenUnchanged DEF ReportBefore, Raise, Running, Delivering
<1>6. CASE ReportAfter
  BY <1>a, <1>6, BrokenUnchanged DEF ReportAfter, Raise, Running, Delivering
<1>7. CASE ReportNothing
  BY <1>a, <1>7, BrokenUnchanged DEF ReportNothing, Running, Delivering
<1> QED BY <1>1, <1>2, <1>3, <1>4, <1>5, <1>6, <1>7 DEF CompleteStep

LEMMA HandlerBroken ==
    ASSUME Sound, BrokenInv, HandlerStep
    PROVE  BrokenInv'
<1> USE DEF inbound, gate, lexer, match, handler, parser, outcome
<1> DEFINE Same == /\ pc = "event" /\ pc' = "event" /\ mevent' = mevent
                   /\ UNCHANGED << fail, broken, prec, gset >>
<1>1. ASSUME NEW p \in 0 .. Len(text), CallFrom(p) PROVE Same
  BY <1>1 DEF CallFrom, Calling
<1>2. ASSUME Skip PROVE Same
  BY <1>2 DEF Skip
<1>3. ASSUME NEW c \in -2 .. Len(text) - 1, CallTo(c) PROVE Same
  BY <1>3 DEF CallTo, Calling
<1>4. ASSUME NEW x \in Extensions, CallExtend(x) PROVE Same
  BY <1>4 DEF CallExtend, Calling
<1>5. ASSUME CallClear PROVE Same
  BY <1>5 DEF CallClear, Calling
<1>6. ASSUME NEW t \in Lexeme, CallAlternate(t) PROVE Same
  BY <1>6 DEF CallAlternate, Calling
<1>7. ASSUME Same PROVE BrokenInv'
  <2>1. broken' = "no" /\ Running /\ (Delivering' => Delivering)
    BY <1>7 DEF BrokenInv, Running, Delivering
  <2> QED BY <1>7, <2>1, BrokenUnchanged
<1>8. CASE HandlerOk
  <2>1. /\ pc = "event" /\ broken = "no" /\ Running /\ UNCHANGED << prec, gset >>
        /\ fail' = "none" => fail = "none"
    BY <1>8 DEF HandlerOk, Fail, BrokenInv, Running
  <2>2. CASE mevent = "discard" /\ Restart(accept) /\ pc' = "return"
    <3>1. ~ lrec
      BY <2>1, <2>2 DEF Sound, PosInv, Phases, Matched
    <3> QED BY <2>1, <2>2, <3>1, RestartSound, BrokenUnchanged DEF Running, Delivering
  <2>3. CASE /\ mevent \in {"stop", "over"} /\ UNCHANGED broken
             /\ pc' \in {"loop", "idle"}
    BY <2>1, <2>3, BrokenUnchanged DEF Running, Delivering
  <2>4. CASE mevent \in {"before", "after"} /\ UNCHANGED broken /\ pc' = "feed"
    BY <2>1, <2>4, BrokenUnchanged DEF Running, Delivering
  <2> QED BY <1>8, <2>2, <2>3, <2>4, HandlerOkCases
<1>9. CASE HandlerError
  <2>1. pc = "event" /\ broken' = broken /\ fail' # "none"
    BY <1>9 DEF HandlerError, Fail
  <2> QED BY <2>1, BrokenFailed DEF BrokenInv
<1> QED BY <1>1, <1>2, <1>3, <1>4, <1>5, <1>6, <1>7, <1>8, <1>9 DEF HandlerStep

LEMMA FeedBrokenNot == Sound /\ BrokenInv /\ FeedStep => BrokenInv'
<1> SUFFICES ASSUME Sound, BrokenInv, FeedStep PROVE BrokenInv'
  OBVIOUS
<1> USE DEF inbound, gate, lexer, match, handler, parser, outcome
<1>0. pc \in {"feed", "parse", "return"}
  BY DEF FeedStep, FeedNothing, Feed, FeedBroken, ParseNothing, ParseFails, Parse,
         FinishEnter, FinishFlush, FinishEof
<1>a. broken = "no"
  BY <1>0 DEF BrokenInv
<1>b. pc \in {"feed", "parse"} => ~ lrec
  BY DEF Sound, PosInv, Phases, Matched, FollowInv
<1>1. CASE FeedNothing
  <2>1. pc = "feed" /\ pc' = "return" /\ UNCHANGED << fail, prec, gset >> /\ Restart(accept)
    BY <1>1 DEF FeedNothing
  <2> QED BY <1>a, <1>b, <2>1, RestartSound, BrokenUnchanged DEF Running, Delivering
<1>2. CASE Feed
  <2>1. /\ pc = "feed" /\ prec /\ UNCHANGED << prec, fail, caller >>
        /\ \/ pc' = "parse" /\ Expected(gset') = {} /\ UNCHANGED broken
           \/ pc' = "return" /\ Restart(Acceptable(gset'))
    BY <1>2 DEF Feed
  <2>2. broken' = "no"
    BY <1>a, <1>b, <2>1, RestartSound
  <2> QED BY <2>1, <2>2 DEF BrokenInv, Running, Delivering
<1>3. CASE FeedBroken
  <2>1. pc = "feed" /\ found # << >> /\ pc' = "crashed" /\ fail' = fail
    BY <1>3 DEF FeedBroken, Crash
  <2>2. ~ prec
    BY <1>3 DEF FeedBroken, Sound
  <2>3. fail # "none"
    BY <2>1, <2>2 DEF BrokenInv, Delivering
  <2> QED BY <2>1, <2>3, BrokenFailed
<1>4. CASE ParseNothing
  <2>1. pc = "parse" /\ ~ prec /\ AfterParse /\ UNCHANGED << fail, broken, loc, psize >>
    BY <1>4 DEF ParseNothing
  <2>2. caller = "end" /\ loc = psize - 1
    BY <2>1 DEF Sound, FollowInv, EndInv
  <2>3. pc' = "idle"
    BY <2>1, <2>2, SMT DEF AfterParse, LoopUnlessAtEnd, Leave
  <2> QED BY <1>a, <2>1, <2>3 DEF BrokenInv, Running, Delivering
<1>5. CASE ParseFails
  <2>1. fail' # "none" /\ broken' = broken
    BY <1>5 DEF ParseFails, Fail
  <2> QED BY <1>a, <2>1, BrokenFailed
<1>6. CASE Parse
  <2>1. /\ pc = "parse" /\ Restart(Acceptable(gset)) /\ AfterParse
        /\ UNCHANGED << fail, gset, loc, psize, caller >>
    BY <1>6 DEF Parse
  <2>2. broken' = "no"
    BY <1>a, <1>b, <2>1, RestartSound
  <2>3. CASE caller = "end"
    <3>1. loc = psize - 1
      BY <2>1, <2>3 DEF Sound, EndInv
    <3>2. pc' = "idle"
      BY <2>1, <2>3, <3>1, SMT DEF AfterParse, LoopUnlessAtEnd, Leave
    <3> QED BY <2>2, <3>2 DEF BrokenInv, Running, Delivering
  <2>4. CASE caller # "end"
    <3>1. pc' = "return"
      BY <2>1, <2>4 DEF AfterParse
    <3> QED BY <2>1, <2>2, <2>4, <3>1 DEF BrokenInv, Running, Delivering
  <2> QED BY <2>3, <2>4
<1>7. CASE FinishEnter \/ FinishFlush
  <2>1. /\ pc = "return" /\ UNCHANGED << fail, broken, prec, gset >>
        /\ pc' \in {"loop", "idle"}
    BY <1>7 DEF FinishEnter, FinishFlush, Loop, Leave
  <2> QED BY <1>a, <2>1, BrokenUnchanged DEF Running, Delivering
<1>8. CASE FinishEof
  <2>1. /\ pc = "return" /\ UNCHANGED << fail, broken, prec, gset >>
        /\ \/ pc' \in {"loop", "idle"}
           \/ pc' = "parse" /\ caller' = "end"
    BY <1>8 DEF FinishEof, LoopUnlessAtEnd, Leave
  <2> QED BY <1>a, <2>1, BrokenUnchanged DEF Running, Delivering
<1> QED BY <1>1, <1>2, <1>3, <1>4, <1>5, <1>6, <1>7, <1>8 DEF FeedStep

LEMMA BrokenStep ==
    ASSUME Always \subseteq Discard, Sound, BrokenInv, [Next]_vars
    PROVE  BrokenInv'
<1>1. CASE UNCHANGED vars
  <2>1. UNCHANGED << broken, fail, prec, gset, pc, caller, mevent, found >>
    BY <1>1 DEF vars, handler, parser, outcome, match
  <2> QED BY <2>1 DEF BrokenInv, Running, Delivering
<1>2. CASE Step
  BY <1>2, ReadBroken, CompleteBroken, HandlerBroken, FeedBrokenNot DEF Step
<1>3. ASSUME NEW t \in Inputs, NEW r \in Ranges, Process(t, r) PROVE BrokenInv'
  <2>1. pc = "idle" /\ pc' = "loop" /\ broken' = broken
    BY <1>3, Zenon DEF Process
  <2>2. CASE Reset
    BY <2>1, <2>2 DEF Reset, BrokenInv, Running, Delivering
  <2>3. CASE ~ done /\ UNCHANGED << fail, flushed, parser, lexer, acc >>
    <3>1. fail' = fail /\ (fail = "none" => prec')
      BY <2>1, <2>3 DEF parser, Sound, VerdictInv
    <3> QED BY <2>1, <3>1 DEF BrokenInv, Running, Delivering
  <2> QED BY <1>3, <2>2, <2>3, Zenon DEF Process
<1> QED BY <1>1, <1>2, <1>3 DEF Next

\* All of these invariants hold together.
THEOREM SoundCorrect ==
    ASSUME Calls \cap {"inmatch", "ateof", "twice"} = {}, Always \subseteq Discard
    PROVE  Spec => [](Sound /\ OneInv /\ BrokenInv)
<1> DEFINE Inv == OneInv /\ VerdictInv /\ FollowInv /\ msv = found /\ BrokenInv
<1>1. Init => Inv
  BY DEF Init, OneInv, VerdictInv, FollowInv, BrokenInv, Looking, Matched, Running, Delivering
<1>2. TypeOK /\ PosInv /\ EndInv /\ Inv /\ [Next]_vars => Inv'
  <2> SUFFICES ASSUME TypeOK, PosInv, EndInv, Inv, [Next]_vars PROVE Inv'
    OBVIOUS
  <2>1. OneInv' /\ VerdictInv' /\ FollowInv'
    BY OneStep, VerdictStep, FollowStep
  <2>2. msv' = found'
    BY PairsStep
  <2>3. BrokenInv'
    BY BrokenStep DEF Sound
  <2> QED BY <2>1, <2>2, <2>3
<1>3. TypeOK /\ PosInv /\ EndInv /\ Inv => Sound /\ OneInv /\ BrokenInv
  BY DEF Sound
<1> HIDE DEF Inv
<1>4. Calls \cap {"inmatch", "ateof"} = {}
  OBVIOUS
<1>5. Spec => [](TypeOK /\ PosInv /\ EndInv)
  BY <1>4, EndCorrect
<1> QED BY <1>1, <1>2, <1>3, <1>5, PTL DEF Spec

\* Until something fails no ASSERT fails and no recognizer is used that is gone,
\* if the lexer looks for lexemes only where the parser expects them, and no
\* handler gives the same alternative twice.
THEOREM Unbroken ==
    ASSUME Calls \cap {"inmatch", "ateof", "twice"} = {}, Always \subseteq Discard
    PROVE  Spec => []NothingBroken
<1>1. BrokenInv => NothingBroken
  BY DEF BrokenInv, NothingBroken
<1> QED BY <1>1, SoundCorrect, PTL

-----------------------------------------------------------------------------
(***************************************************************************)
(* The engine finds the tokens that Scanner promises: what it matches is   *)
(* the longest word in the text, and without event handlers each of its    *)
(* steps is a step of Scanner or none.                                     *)
(***************************************************************************)

-----------------------------------------------------------------------------
(* The longest match                                                       *)

\* No word of an accepted symbol is longer than the characters read, as far as
\* the text is known.
NothingLonger ==
    \A k \in Len(lexeme) + 1 .. RegionEnd(start) - start : \A s \in accept :
        SubSeq(text, start + 1, start + k) \notin Words[s]

\* While characters are read the gate admits exactly those that the lexer can go
\* on with, and a match under way has at least one.  When the match is
\* completed there is no longer word: the next character cannot continue it, or
\* there is none.  The words that lex_complete passed over on its way back are
\* in the characters read.  The parser comes to its end without a recognizer of
\* the lexer.
LongestInv ==
    /\ psize <= Len(text)
    /\ lrec /\ Looking => acc = Viable(accept, lexeme) /\ (start >= 0 => src # << >>)
    /\ pc = "complete" /\ lrec => NothingLonger
    /\ pc = "parse" => ~ lrec
    /\ LongestMatch

\* A step that leaves the lexer and the input alone.
LEMMA LongestUnchanged ==
    ASSUME LongestInv,
           UNCHANGED << psize, text, accept, acc, lexeme, src, start >>,
           lrec' => lrec,
           lrec /\ Looking' => Looking,
           pc' \notin {"complete", "report"}, pc' = "parse" => ~ lrec'
    PROVE  LongestInv'
BY DEF LongestInv, LongestMatch

LEMMA LongestRenewed ==
    ASSUME LongestInv, UNCHANGED << psize, text >>, NEW A, Renew(A),
           pc' \notin {"complete", "report", "parse"}
    PROVE  LongestInv'
<1>1. start' = -1 /\ acc' = Viable(accept', lexeme')
  BY DEF Renew
<1> QED BY <1>1 DEF LongestInv, LongestMatch

\* A word that is longer than what was read begins with a character that the
\* lexer can go on with: w stands in the text t at `at`.
LEMMA NoneLonger ==
    ASSUME NEW t \in Seq(Char), NEW at \in Nat, NEW w \in Seq(Char), NEW A,
           \A i \in 1 .. Len(w) : w[i] = t[at + i],
           at + Len(w) < Len(t) => t[at + Len(w) + 1] \notin Viable(A, w),
           NEW s \in A, NEW k \in Len(w) + 1 .. Len(t) - at
    PROVE  SubSeq(t, at + 1, at + k) \notin Words[s]
<1> SUFFICES ASSUME SubSeq(t, at + 1, at + k) \in Words[s] PROVE FALSE
  OBVIOUS
<1> DEFINE v == SubSeq(t, at + 1, at + k)
           c == t[at + Len(w) + 1]
           p == Append(w, c)
<1>1. Len(t) \in Nat /\ Len(w) \in Nat /\ k \in Nat
  OBVIOUS
<1>2. at + Len(w) + 1 \in 1 .. Len(t)
  BY <1>1
<1>3. c \in Char
  BY <1>1, <1>2
<1>4. v \in Seq(Char) /\ Len(v) = k /\ \A i \in 1 .. k : v[i] = t[at + i]
  BY <1>1
<1>5. p \in Seq(Char) /\ Len(p) = Len(w) + 1 /\ p[Len(w) + 1] = c
      /\ \A i \in 1 .. Len(w) : p[i] = w[i]
  BY <1>3
<1>6. ASSUME NEW i \in 1 .. Len(p) PROVE p[i] = v[i]
  <2>1. i \in 1 .. k /\ (i \in 1 .. Len(w) \/ i = Len(w) + 1)
    BY <1>1, <1>5
  <2>2. CASE i \in 1 .. Len(w)
    BY <1>4, <1>5, <2>1, <2>2
  <2>3. CASE i = Len(w) + 1
    <3>1. at + i = at + Len(w) + 1
      BY <1>1, <2>3
    <3> QED BY <1>4, <1>5, <2>1, <2>3, <3>1
  <2> QED BY <2>1, <2>2, <2>3
<1> HIDE DEF v, c, p
<1>7. SubSeq(v, 1, Len(p)) = p /\ Len(p) <= Len(v)
  <2>1. Len(p) \in 0 .. Len(v)
    BY <1>1, <1>4, <1>5
  <2>2. SubSeq(v, 1, Len(p)) \in Seq(Char) /\ Len(SubSeq(v, 1, Len(p))) = Len(p)
        /\ \A i \in 1 .. Len(p) : SubSeq(v, 1, Len(p))[i] = v[i]
    BY <1>4, <2>1
  <2> QED BY <1>5, <1>6, <2>1, <2>2
<1>8. IsPrefix(p, v)
  <2>1. SubSeq(p, 1, Len(p)) = p
    BY <1>5
  <2> QED BY <1>7, <2>1 DEF IsPrefix
<1>9. c \in Viable(A, w)
  BY <1>3, <1>8 DEF Viable, v, p
<1> QED BY <1>1, <1>2, <1>9 DEF c

\* The lexer cannot go on with the next character, if there is one.
Stuck ==
    /\ start >= 0 /\ psize <= Len(text)
    /\ start + Len(lexeme) < Len(text) =>
           text[start + Len(lexeme) + 1] \notin Viable(accept, lexeme)

LEMMA StuckLongest == TypeOK /\ PosInv /\ Stuck => NothingLonger
<1> SUFFICES ASSUME TypeOK, PosInv, Stuck,
                    NEW k \in Len(lexeme) + 1 .. RegionEnd(start) - start, NEW s \in accept
             PROVE  SubSeq(text, start + 1, start + k) \notin Words[s]
  BY DEF NothingLonger
<1>1. /\ start \in Nat /\ lexeme \in Seq(Char) /\ text \in Seq(Char) /\ psize \in Nat
      /\ Len(lexeme) = Len(src) /\ Len(lexeme) \in Nat /\ Len(text) \in Nat
  BY Numbers DEF TypeOK, InputType, Stuck
<1>2. \A i \in 1 .. Len(lexeme) : lexeme[i] = text[start + i]
  BY <1>1 DEF PosInv, FromText
<1>3. k \in Len(lexeme) + 1 .. Len(text) - start
  BY <1>1 DEF RegionEnd, Stuck
<1> QED BY <1>1, <1>2, <1>3, NoneLonger DEF Stuck

\* ... after the step.
LEMMA StuckLongestNext == TypeOK' /\ PosInv' /\ Stuck' => NothingLonger'
BY StuckLongest, PTL

\* The beginning of the lexeme is a piece of the text.
LEMMA PieceOfText ==
    ASSUME TypeOK, PosInv, start >= 0, NEW j \in 0 .. Len(lexeme)
    PROVE  SubSeq(lexeme, 1, j) = SubSeq(text, start + 1, start + j)
<1> DEFINE u == SubSeq(lexeme, 1, j)
           v == SubSeq(text, start + 1, start + j)
<1>1. /\ start \in Nat /\ lexeme \in Seq(Char) /\ text \in Seq(Char)
      /\ Len(lexeme) = Len(src) /\ Len(lexeme) \in Nat /\ Len(text) \in Nat
  BY Numbers DEF TypeOK, InputType
<1>2. \A i \in 1 .. Len(lexeme) : start + i <= Len(text) /\ lexeme[i] = text[start + i]
  BY <1>1 DEF PosInv, FromText
<1>3. start + j <= Len(text) \/ j = 0
  BY <1>1, <1>2
<1>4. u \in Seq(Char) /\ Len(u) = j /\ \A i \in 1 .. j : u[i] = lexeme[i]
  BY <1>1
<1>5. v \in Seq(Char) /\ Len(v) = j /\ \A i \in 1 .. j : v[i] = text[start + i]
  BY <1>1, <1>3
<1> HIDE DEF u, v
<1>6. u = v
  BY <1>1, <1>2, <1>4, <1>5
<1> QED BY <1>6 DEF u, v

LEMMA ReadLongest ==
    ASSUME TypeOK, PosInv, LongestInv, ReadStep, TypeOK', PosInv'
    PROVE  LongestInv'
<1> USE DEF inbound, gate, lexer
<1>0. /\ src \in Seq(Int) /\ start \in Int /\ psize \in Int /\ Len(src) \in Nat /\ loc \in Int
      /\ Len(lexeme) = Len(src) /\ text \in Seq(Char) /\ Len(text) \in Nat /\ lexeme \in Seq(Char)
      /\ psize <= Len(text)
  BY Numbers DEF TypeOK, InputType, LongestInv
<1>1. CASE ReachStop
  BY <1>1, LongestUnchanged DEF ReachStop, Raise, Looking
<1>2. CASE ReachEof
  <2>1. /\ pc = "loop" /\ loc = psize - 1
        /\ UNCHANGED << text, psize, loc, acc, accept, start, lexeme, src >>
    BY <1>2 DEF ReachEof
  <2>2. CASE start >= 0 /\ pc' = "complete" /\ UNCHANGED lrec
    <3>1. ASSUME lrec PROVE NothingLonger
      <4>1. src # << >> /\ loc + 1 = start + Len(src)
        BY <2>1, <2>2, <3>1 DEF LongestInv, Looking, PosInv, AtLexemeEnd
      <4>2. start + Len(src) = psize /\ Len(src) > 0
        BY <1>0, <2>1, <4>1
      <4>3. RegionEnd(start) = psize
        BY <1>0, <2>2, <4>2 DEF RegionEnd
      <4>4. Len(lexeme) + 1 .. RegionEnd(start) - start = {}
        BY <1>0, <4>2, <4>3
      <4> QED BY <4>4 DEF NothingLonger
    <3>2. lrec' => NothingLonger'
      BY <2>1, <2>2, <3>1 DEF NothingLonger, RegionEnd
    <3> QED BY <2>1, <2>2, <3>2 DEF LongestInv, LongestMatch, Looking
  <2>3. CASE pc' = "parse" /\ lrec' = FALSE
    BY <2>1, <2>3 DEF LongestInv, LongestMatch, Looking
  <2> QED BY <1>2, <2>2, <2>3 DEF ReachEof
<1>3. CASE ReachOver
  BY <1>3, LongestUnchanged DEF ReachOver, Raise, Looking
<1>4. CASE Accept
  <2>1. /\ pc = "loop" /\ lrec /\ lrec' /\ UNCHANGED << text, psize, accept >>
        /\ loc' = loc + 1 /\ src' = Append(src, loc + 1)
    BY <1>4 DEF Accept, Reading
  <2>2. src' # << >>
    <3>1. Len(src') = Len(src) + 1
      BY <1>0, <2>1
    <3> QED BY <1>0, <3>1
  <2>3. CASE Viable(accept, lexeme') = {} /\ pc' = "complete"
    <3>1. start' >= 0
      BY <2>3 DEF PosInv, Phases
    <3>2. Viable(accept', lexeme') = {} /\ psize' <= Len(text')
      BY <1>0, <2>1, <2>3
    <3>3. NothingLonger'
      BY <3>1, <3>2, StuckLongestNext DEF Stuck
    <3> QED BY <1>0, <2>1, <2>3, <3>3 DEF LongestInv, LongestMatch, Looking
  <2>4. CASE acc' = Viable(accept, lexeme') /\ Loop
    <3>1. pc' \in {"loop", "idle"}
      BY <2>4 DEF Loop, Leave
    <3> QED BY <1>0, <2>1, <2>2, <2>4, <3>1 DEF LongestInv, LongestMatch
  <2> QED BY <1>4, <2>3, <2>4 DEF Accept
<1>5. CASE Flush
  <2>1. /\ pc = "loop" /\ pc' = "complete" /\ text[loc + 2] \notin acc
        /\ UNCHANGED << text, psize, loc, accept, lexeme, src, lrec, acc >>
        /\ start' = IF start = -1 THEN loc + 1 ELSE start
    BY <1>5 DEF Flush, Reading, NextChar
  <2>2. ASSUME lrec PROVE NothingLonger'
    <3>1. start' >= 0 /\ start' \in Int
      BY <2>1, <1>0 DEF PosInv, Phases
    <3>2. loc + 1 = start' + Len(src)
      BY <2>1, <2>2, <3>1 DEF PosInv, AtLexemeEnd
    <3>3. acc = Viable(accept, lexeme)
      BY <2>1, <2>2 DEF LongestInv, Looking
    <3>4. start' + Len(lexeme) + 1 = loc + 2
      BY <1>0, <3>1, <3>2
    <3>5. text'[start' + Len(lexeme') + 1] \notin Viable(accept', lexeme') /\ psize' <= Len(text')
      BY <1>0, <2>1, <3>3, <3>4
    <3> QED BY <3>1, <3>5, StuckLongestNext DEF Stuck
  <2> QED BY <1>0, <2>1, <2>2 DEF LongestInv, LongestMatch, Looking
<1>6. CASE Refuse
  <2>1. pc' = "idle" /\ done' = TRUE
    BY <1>6 DEF Refuse, Fail, Loop, Leave
  <2>2. UNCHANGED << psize, text, accept, acc, lexeme, src, start, lrec >>
    BY <1>6 DEF Refuse
  <2> QED BY <2>1, <2>2, LongestUnchanged DEF Looking
<1>7. CASE AcceptNull
  BY <1>7, LongestUnchanged DEF AcceptNull, Crash, Looking
<1> QED BY <1>1, <1>2, <1>3, <1>4, <1>5, <1>6, <1>7 DEF ReadStep

\* The match is the longest prefix of what was read that is a word, and there is
\* no longer word beyond what was read.
LEMMA MatchLongest ==
    ASSUME TypeOK, PosInv, LongestInv, NEW k \in 0 .. Len(lexeme), Match(k)
    PROVE  LongestMatch'
<1>1. /\ pc = "complete" /\ lrec /\ IsLongest(k, accept, lexeme) /\ UNCHANGED << text, psize, start >>
      /\ tok' = [at |-> start, word |-> SubSeq(lexeme, 1, k), among |-> accept]
  BY DEF Match
<1>2. /\ start \in Nat /\ lexeme \in Seq(Char) /\ text \in Seq(Char) /\ psize \in Nat
      /\ Len(lexeme) \in Nat /\ Len(text) \in Nat /\ Len(src) = Len(lexeme)
  BY <1>1, Numbers DEF TypeOK, InputType, PosInv, Phases
<1>3. tok'.at = start /\ tok'.among = accept /\ Len(tok'.word) = k
  BY <1>1, <1>2
<1>4. RegionEnd(start)' = RegionEnd(start) /\ RegionEnd(start) \in Nat
  BY <1>1, <1>2 DEF RegionEnd
<1>5. ASSUME NEW j \in k + 1 .. RegionEnd(start) - start, NEW s \in accept
      PROVE  SubSeq(text, start + 1, start + j) \notin Words[s]
  <2>1. CASE j > Len(lexeme)
    <3>1. j \in Len(lexeme) + 1 .. RegionEnd(start) - start
      BY <1>2, <1>4, <2>1
    <3> QED BY <1>1, <3>1 DEF LongestInv, NothingLonger
  <2>2. CASE j <= Len(lexeme)
    <3>1. j \in 0 .. Len(lexeme) /\ ~ (j <= k)
      BY <1>2, <1>4, <2>2
    <3>2. SubSeq(lexeme, 1, j) \notin Words[s]
      BY <1>1, <3>1 DEF IsLongest, MatchLengths
    <3>3. SubSeq(lexeme, 1, j) = SubSeq(text, start + 1, start + j)
      BY <1>2, <3>1, PieceOfText
    <3> QED BY <3>2, <3>3
  <2> QED BY <1>2, <1>4, <2>1, <2>2
<1> QED BY <1>1, <1>3, <1>4, <1>5 DEF LongestMatch, RegionEnd

LEMMA CompleteLongest ==
    ASSUME TypeOK, PosInv, LongestInv, CompleteStep
    PROVE  LongestInv'
<1> USE DEF inbound, gate, lexer
<1>1. CASE CompleteNothing
  BY <1>1, LongestUnchanged DEF CompleteNothing, Looking
<1>2. CASE Mismatch
  BY <1>2 DEF Mismatch, LongestInv, LongestMatch
<1>3. ASSUME NEW k \in 0 .. Len(lexeme), Match(k) PROVE LongestInv'
  <2>1. lrec' = FALSE /\ UNCHANGED << text, psize >>
    BY <1>3 DEF Match
  <2>2. LongestMatch'
    BY <1>3, MatchLongest
  <2> QED BY <2>1, <2>2 DEF LongestInv
<1>4. CASE Discarded
  <2>1. CASE Raise("discard") /\ UNCHANGED << lexer, acc, broken >>
    <3>1. ~ lrec
      BY <1>4 DEF Discarded, PosInv, Phases, Matched
    <3> QED BY <1>4, <2>1, <3>1, LongestUnchanged DEF Discarded, Raise, Looking
  <2>2. CASE Restart(accept) /\ pc' = "return"
    BY <1>4, <2>2, LongestRenewed DEF Discarded, Restart
  <2> QED BY <1>4, <2>1, <2>2 DEF Discarded
<1>5. CASE ReportBefore
  BY <1>5, LongestUnchanged DEF ReportBefore, Raise, Looking, PosInv, Phases, Matched
<1>6. CASE ReportAfter
  BY <1>6, LongestUnchanged DEF ReportAfter, Raise, Looking
<1>7. CASE ReportNothing
  BY <1>7, LongestUnchanged DEF ReportNothing, Looking
<1> QED BY <1>1, <1>2, <1>3, <1>4, <1>5, <1>6, <1>7 DEF CompleteStep

LEMMA HandlerLongest ==
    ASSUME TypeOK, PosInv, LongestInv, HandlerStep
    PROVE  LongestInv'
<1> USE DEF inbound, gate, lexer
<1>1. ASSUME NEW p \in 0 .. Len(text), CallFrom(p) PROVE LongestInv'
  BY <1>1, LongestUnchanged DEF CallFrom, Calling, Looking
<1>2. CASE Skip
  BY <1>2, LongestUnchanged DEF Skip, handler, Looking
<1>3. ASSUME NEW c \in -2 .. Len(text) - 1, CallTo(c) PROVE LongestInv'
  BY <1>3, LongestUnchanged DEF CallTo, Calling, Looking
<1>4. ASSUME NEW x \in Extensions, CallExtend(x) PROVE LongestInv'
  <2>1. /\ pc = "event" /\ pc' = pc /\ mevent' = mevent
        /\ UNCHANGED << psize, accept, acc, lexeme, src, start, lrec, done >>
        /\ text' = text \o << Sep >> \o x
    BY <1>4 DEF CallExtend, Calling, outcome
  <2>2. text \in Seq(Char) /\ x \in Seq(Char) /\ Sep \in Char /\ psize \in Nat
    BY <1>4, InputAssumption DEF TypeOK, InputType
  <2>3. Len(text') = Len(text) + 1 + Len(x) /\ Len(text) \in Nat /\ Len(x) \in Nat
    BY <2>1, <2>2
  <2>4. psize <= Len(text) => psize <= Len(text')
    BY <2>2, <2>3
  <2> QED BY <2>1, <2>4 DEF LongestInv, LongestMatch, Looking
<1>5. CASE CallClear
  BY <1>5, LongestUnchanged DEF CallClear, Calling, Looking
<1>6. ASSUME NEW t \in Lexeme, CallAlternate(t) PROVE LongestInv'
  BY <1>6, LongestUnchanged DEF CallAlternate, Calling, Looking
<1>7. CASE HandlerOk
  <2>1. pc = "event" /\ UNCHANGED << text, psize >>
    BY <1>7 DEF HandlerOk
  <2>2. CASE mevent = "discard" /\ Restart(accept) /\ pc' = "return"
    BY <2>1, <2>2, LongestRenewed DEF Restart
  <2>3. CASE mevent \in {"stop", "over"} /\ UNCHANGED << lexer, acc, broken >>
             /\ (pc' = "loop" \/ (pc' = "idle" /\ done'))
    BY <2>1, <2>3, LongestUnchanged DEF Looking
  <2>4. CASE mevent \in {"before", "after"} /\ UNCHANGED << lexer, acc, broken >>
             /\ pc' = "feed"
    BY <2>1, <2>4, LongestUnchanged DEF Looking
  <2> QED BY <1>7, <2>2, <2>3, <2>4, HandlerOkCases
<1>8. CASE HandlerError
  <2>1. /\ pc = "event" /\ UNCHANGED << psize, text, accept, acc, lexeme, src, start, lrec >>
        /\ \/ mevent \in {"stop", "over"} /\ pc' = "idle" /\ done'
           \/ pc' = "return" /\ mevent \notin {"stop", "over"}
    BY <1>8 DEF HandlerError, Leave
  <2>2. mevent \notin {"stop", "over"} => ~ lrec
    BY <2>1 DEF PosInv, Phases, Matched
  <2> QED BY <2>1, <2>2, LongestUnchanged DEF Looking
<1> QED BY <1>1, <1>2, <1>3, <1>4, <1>5, <1>6, <1>7, <1>8 DEF HandlerStep

LEMMA FeedLongest ==
    ASSUME TypeOK, PosInv, LongestInv, FeedStep
    PROVE  LongestInv'
<1> USE DEF inbound, gate, lexer
<1>1. CASE FeedNothing
  BY <1>1, LongestRenewed DEF FeedNothing, Restart
<1>2. CASE Feed
  <2>1. CASE Restart(Acceptable(gset')) /\ pc' = "return"
    BY <1>2, <2>1, LongestRenewed DEF Feed, Restart
  <2>2. CASE pc' = "parse" /\ UNCHANGED << lexer, acc, broken >>
    <3>1. ~ lrec
      BY <1>2 DEF Feed, PosInv, Phases, Matched
    <3> QED BY <1>2, <2>2, <3>1, LongestUnchanged DEF Feed, Looking
  <2> QED BY <1>2, <2>1, <2>2 DEF Feed
<1>3. CASE FeedBroken
  BY <1>3, LongestUnchanged DEF FeedBroken, Crash, Looking
<1> DEFINE Ends == pc' = "return" \/ (pc' = "idle" /\ done') \/ pc' = "loop"
<1>4. CASE ParseNothing \/ ParseFails
  <2>1. Ends /\ UNCHANGED << psize, text, accept, acc, lexeme, src, start, lrec >> /\ pc = "parse"
    BY <1>4 DEF ParseNothing, ParseFails, AfterParse, LoopUnlessAtEnd, Leave
  <2>2. ~ lrec
    BY <2>1 DEF LongestInv
  <2> QED BY <2>1, <2>2, LongestUnchanged
<1>5. CASE Parse
  BY <1>5, LongestRenewed DEF Parse, Restart, AfterParse, LoopUnlessAtEnd, Leave
<1>6. CASE FinishEnter \/ FinishFlush \/ FinishEof
  <2>1. /\ pc = "return" /\ (Ends \/ (pc' = "parse" /\ ~ lrec')) /\ (lrec' => lrec)
        /\ UNCHANGED << psize, text, accept, acc, lexeme, src, start >>
    BY <1>6 DEF FinishEnter, FinishFlush, FinishEof, Loop, LoopUnlessAtEnd, Leave
  <2> QED BY <2>1, LongestUnchanged DEF Looking
<1> QED BY <1>1, <1>2, <1>3, <1>4, <1>5, <1>6 DEF FeedStep

LEMMA ProcessLongest ==
    ASSUME TypeOK, LongestInv, NEW t \in Inputs, NEW r \in Ranges, Process(t, r)
    PROVE  LongestInv'
<1>1. psize' = Len(text') /\ pc' = "loop" /\ psize' \in Nat
  BY InputAssumption DEF Process
<1>2. CASE done /\ Reset
  <2>1. start' = -1 /\ acc' = Viable(accept', lexeme')
    BY <1>2 DEF Reset, Renew
  <2> QED BY <1>1, <2>1 DEF LongestInv, LongestMatch
<1>3. CASE ~ done /\ UNCHANGED << fail, flushed, parser, lexer, acc >>
  <2>1. UNCHANGED << lrec, accept, start, lexeme, src, acc >> /\ pc = "idle"
    BY <1>3 DEF Process, lexer
  <2> QED BY <1>1, <1>3, <2>1 DEF LongestInv, LongestMatch, Looking
<1> QED BY <1>2, <1>3 DEF Process

LEMMA LongestStep ==
    ASSUME TypeOK, PosInv, LongestInv, [Next]_vars, TypeOK', PosInv'
    PROVE  LongestInv'
<1>1. CASE ReadStep
  BY <1>1, ReadLongest
<1>2. CASE CompleteStep
  BY <1>2, CompleteLongest
<1>3. CASE HandlerStep
  BY <1>3, HandlerLongest
<1>4. CASE FeedStep
  BY <1>4, FeedLongest
<1>5. ASSUME NEW t \in Inputs, NEW r \in Ranges, Process(t, r) PROVE LongestInv'
  BY <1>5, ProcessLongest
<1>6. CASE UNCHANGED vars
  <2>1. UNCHANGED << psize, text, accept, acc, lexeme, src, start, lrec, pc, done, mevent, tok >>
    BY <1>6 DEF vars, inbound, gate, lexer, handler, outcome
  <2> QED BY <2>1 DEF LongestInv, LongestMatch, NothingLonger, RegionEnd, Looking
<1> QED BY <1>1, <1>2, <1>3, <1>4, <1>5, <1>6 DEF Next, Step

LEMMA LongestInit == Init => LongestInv
<1> SUFFICES ASSUME Init PROVE LongestInv
  OBVIOUS
<1>1. psize = 0 /\ text = << >> /\ start = -1 /\ acc = Viable(accept, lexeme) /\ pc = "idle"
  BY DEF Init
<1> QED BY <1>1 DEF LongestInv, LongestMatch

THEOREM LongestCorrect ==
    ASSUME "inmatch" \notin Calls PROVE Spec => []LongestInv
<1>1. Init => LongestInv
  BY LongestInit
<1>2. TypeOK /\ PosInv /\ LongestInv /\ [Next]_vars /\ TypeOK' /\ PosInv' => LongestInv'
  BY LongestStep
<1> QED BY <1>1, <1>2, PosCorrect, PTL DEF Spec

\* Of the symbols the grammar accepts at this place the longest word in the text
\* is taken, in every engine, for every language: whatever the lexer read ahead
\* and gave back, wherever handlers moved and whatever they appended.
THEOREM LongestTaken ==
    ASSUME "inmatch" \notin Calls PROVE Spec => []LongestMatch
<1>1. LongestInv => LongestMatch
  BY DEF LongestInv
<1> QED BY <1>1, LongestCorrect, PTL

-----------------------------------------------------------------------------
(* Without event handlers: what holds between the parts                    *)

\* No event is active, no handler calls the engine, and `process` is given the
\* whole of a text.
NoHandlers ==
    /\ Calls = {} /\ Before = {} /\ After = {} /\ OnDiscard = {}
    /\ Ranges = {<< -1, -2 >>}

\* No handler runs, and the text ends with the primary input.
Quiet == pc # "event" /\ psize = Len(text) /\ cstop = -2

\* Before the first text the engine is as it was built.
Untouched ==
    pc = "idle" /\ ~ done =>
        fail = "none" /\ gset = GInit /\ parsable = Accepting(GInit)

\* After a failure the lexer finds nothing more, and the parser is told of the
\* end of the input only.
Over ==
    fail # "none" => /\ pc \notin {"report", "feed"}
                     /\ lrec => pc = "idle"
                     /\ pc = "parse" => caller = "end"

\* The lexer has read nothing when lex_complete returns, and when it is given a
\* character a second time.
Afresh == lrec /\ (pc = "return" \/ (pc = "loop" /\ flushed)) => start = -1

\* A match is completed in front of the end of the text.
Ahead == pc = "complete" /\ lrec => start < Len(text)

\* The symbols of the match.
Recognized == { s \in accept : lexeme \in Words[s] }

\* On the way to the parser the lexeme is the longest word at its place, the
\* cursor is behind it, and the terminals are those it is a word of.
Delivered ==
    pc \in {"report", "feed"} =>
        /\ loc + 1 = start + Len(lexeme)
        /\ Recognized # {}
        /\ ToSet(found) = Recognized \ Discard
        /\ pc = "feed" => found # << >>
        /\ NothingLonger

\* A parser that has given up its recognizer has seen a sentence, or failed.
Evaluated == ~ prec => fail # "none" \/ parsable

ScanInv ==
    Quiet /\ Untouched /\ Over /\ Afresh /\ Ahead /\ Delivered /\ Evaluated

\* An enumeration of a finite set has all of its elements.
LEMMA EnumerationOnto ==
    ASSUME NEW S \in SUBSET Lexeme, NEW f \in SetToSeqs(S)
    PROVE  ToSet(f) = S
<1>1. IsFiniteSet(S) /\ Cardinality(S) \in Nat
  BY SymbolAssumption, FS_Subset, FS_CardinalityType
<1> DEFINE D == 1 .. Cardinality(S)
<1>2. f \in [D -> S] /\ \A i, j \in D : i # j => f[i] # f[j]
  BY DEF SetToSeqs
<1>3. f \in Injection(D, S)
  BY <1>2 DEF Injection, IsInjective
<1>4. Cardinality(D) = Cardinality(S)
  BY <1>1, FS_Interval
<1>5. f \in Surjection(D, S)
  BY <1>1, <1>3, <1>4, FS_Injection
<1>6. \A s \in S : \E i \in D : f[i] = s
  BY <1>5 DEF Surjection
<1>7. Len(f) = Cardinality(S) /\ DOMAIN f = D
  BY <1>1, <1>2
<1> QED BY <1>2, <1>6, <1>7 DEF ToSet

LEMMA ReadScan ==
    ASSUME NoHandlers, Sound, LongestInv, ScanInv, ReadStep
    PROVE  ScanInv'
<1> USE DEF inbound, gate, lexer, match, handler, parser, outcome
<1>0. /\ Quiet /\ Untouched /\ Over /\ Afresh /\ Evaluated
      /\ loc \in -1 .. Len(text) - 1 /\ start \in Int /\ src \in Seq(Int) /\ Len(src) \in Nat
      /\ Len(text) \in Nat /\ psize \in Nat
  BY Numbers DEF ScanInv, Sound, PosInv, Bounded, TypeOK, InputType
<1>1. ~ ReachStop /\ ~ ReachOver
  BY <1>0 DEF ReachStop, ReachOver, Quiet
<1>2. CASE ReachEof
  <2>1. /\ pc = "loop" /\ loc = psize - 1
        /\ UNCHANGED << text, psize, cstop, fail, prec, parsable, start >>
    BY <1>2 DEF ReachEof
  <2>2. CASE start >= 0 /\ pc' = "complete" /\ UNCHANGED lrec
    <3>1. lrec => start + Len(src) = Len(text) /\ Len(src) > 0
      <4>1. ASSUME lrec PROVE src # << >> /\ loc + 1 = start + Len(src)
        BY <2>1, <2>2, <4>1 DEF Sound, LongestInv, Looking, PosInv, AtLexemeEnd
      <4> QED BY <1>0, <2>1, <4>1 DEF Quiet
    <3>2. Ahead'
      BY <1>0, <2>1, <2>2, <3>1 DEF Ahead
    <3> QED BY <1>0, <2>1, <2>2, <3>2
            DEF ScanInv, Quiet, Untouched, Over, Afresh, Delivered, Evaluated
  <2>3. CASE pc' = "parse" /\ caller' = "end" /\ lrec' = FALSE
    BY <1>0, <2>1, <2>3 DEF ScanInv, Quiet, Untouched, Over, Afresh, Ahead, Delivered, Evaluated
  <2> QED BY <1>2, <2>2, <2>3 DEF ReachEof
<1>3. CASE Accept
  <2>1. /\ pc = "loop" /\ lrec /\ UNCHANGED << text, psize, cstop, fail, prec, parsable, lrec >>
        /\ loc # psize - 1 /\ src' = Append(src, loc + 1)
        /\ start' = IF start = -1 THEN loc + 1 ELSE start
        /\ loc' = loc + 1
    BY <1>3 DEF Accept, Reading
  <2>2. fail = "none"
    BY <1>0, <2>1 DEF Over
  <2>3. CASE pc' = "complete"
    <3>1. start' < Len(text)
      <4>1. CASE start = -1
        BY <1>0, <2>1, <4>1 DEF Quiet
      <4>2. CASE start # -1
        <5>1. start >= 0 /\ loc + 1 = start + Len(src)
          BY <2>1, <4>2 DEF Sound, PosInv, Bounded, AtLexemeEnd
        <5> QED BY <1>0, <2>1, <4>2, <5>1 DEF Quiet
      <4> QED BY <4>1, <4>2
    <3> QED BY <1>0, <2>1, <2>2, <2>3, <3>1
            DEF ScanInv, Quiet, Untouched, Over, Afresh, Ahead, Delivered, Evaluated
  <2>4. CASE pc' = "loop" /\ flushed' = FALSE
    BY <1>0, <2>1, <2>2, <2>4
       DEF ScanInv, Quiet, Untouched, Over, Afresh, Ahead, Delivered, Evaluated
  <2> QED BY <1>3, <2>1, <2>2, <2>3, <2>4 DEF Accept, Loop
<1>4. CASE Flush
  <2>1. /\ pc = "loop" /\ UNCHANGED << text, psize, cstop, fail, prec, parsable, lrec, loc, src >>
        /\ loc # psize - 1 /\ pc' = "complete"
        /\ start' = IF start = -1 THEN loc + 1 ELSE start
    BY <1>4 DEF Flush, Reading
  <2>2. ASSUME lrec PROVE start' < Len(text)
    <3>1. CASE start = -1
      BY <1>0, <2>1, <3>1 DEF Quiet
    <3>2. CASE start # -1
      <4>1. start >= 0 /\ loc + 1 = start + Len(src)
        BY <2>1, <2>2, <3>2 DEF Sound, PosInv, Bounded, AtLexemeEnd
      <4> QED BY <1>0, <2>1, <3>2, <4>1 DEF Quiet
    <3> QED BY <3>1, <3>2
  <2> QED BY <1>0, <2>1, <2>2
          DEF ScanInv, Quiet, Untouched, Over, Afresh, Ahead, Delivered, Evaluated
<1>5. CASE Refuse
  <2>1. /\ fail' # "none" /\ pc' = "idle" /\ done'
        /\ UNCHANGED << text, psize, cstop, prec, parsable >>
    BY <1>5 DEF Refuse, Fail, Loop, Leave
  <2> QED BY <1>0, <2>1 DEF ScanInv, Quiet, Untouched, Over, Afresh, Ahead, Delivered, Evaluated
<1>6. CASE AcceptNull
  <2>1. /\ pc' = "crashed" /\ ~ lrec' /\ UNCHANGED << text, psize, cstop, fail, prec, parsable >>
    BY <1>6 DEF AcceptNull, Crash
  <2> QED BY <1>0, <2>1 DEF ScanInv, Quiet, Untouched, Over, Afresh, Ahead, Delivered, Evaluated
<1> QED BY <1>1, <1>2, <1>3, <1>4, <1>5, <1>6 DEF ReadStep

LEMMA CompleteScan ==
    ASSUME NoHandlers, Sound, LongestInv, ScanInv, CompleteStep
    PROVE  ScanInv'
<1> USE DEF inbound, gate, lexer, match, handler, parser, outcome
<1>0. /\ Quiet /\ Untouched /\ Over /\ Afresh /\ Evaluated /\ Delivered
      /\ start \in Int /\ src \in Seq(Int) /\ Len(src) \in Nat
      /\ Len(text) \in Nat /\ psize \in Nat /\ loc \in Int
  BY Numbers DEF ScanInv, Sound, TypeOK, InputType
<1>1. CASE CompleteNothing
  <2>1. /\ pc' = "return" /\ ~ lrec' /\ UNCHANGED << text, psize, cstop, fail, prec, parsable >>
    BY <1>1 DEF CompleteNothing
  <2> QED BY <1>0, <2>1 DEF ScanInv, Quiet, Untouched, Over, Afresh, Ahead, Delivered, Evaluated
<1>2. CASE Mismatch
  <2>1. /\ pc' = "return" /\ ~ lrec' /\ fail' # "none"
        /\ UNCHANGED << text, psize, cstop, prec, parsable >>
    BY <1>2 DEF Mismatch, Fail
  <2> QED BY <1>0, <2>1 DEF ScanInv, Quiet, Untouched, Over, Afresh, Ahead, Delivered, Evaluated
<1>3. ASSUME NEW k \in 0 .. Len(lexeme), Match(k) PROVE ScanInv'
  <2>1. /\ pc = "complete" /\ lrec /\ IsLongest(k, accept, lexeme)
        /\ pc' = "report" /\ ~ lrec' /\ lexeme' = SubSeq(lexeme, 1, k)
        /\ found' \in SetToSeqs(Terminals({ s \in accept : SubSeq(lexeme, 1, k) \in Words[s] }))
        /\ loc' = loc - (Len(lexeme) - k)
        /\ tok' = [at |-> start, word |-> SubSeq(lexeme, 1, k), among |-> accept]
        /\ UNCHANGED << text, psize, cstop, fail, prec, parsable, accept, start >>
    BY <1>3 DEF Match, GateRedo
  <2>2. fail = "none"
    BY <1>0, <2>1 DEF Over
  <2>3. /\ lexeme \in Seq(Char) /\ Len(lexeme) = Len(src) /\ accept \subseteq L0
        /\ Len(lexeme') = k /\ k \in Nat
    BY <1>0, <2>1 DEF Sound, TypeOK, InputType
  <2>4. loc' + 1 = start' + Len(lexeme')
    <3>1. loc + 1 = start + Len(src)
      BY <2>1 DEF Sound, PosInv, AtLexemeEnd, Phases
    <3>2. loc' = loc - (Len(src) - k) /\ start' = start /\ Len(lexeme') = k
      BY <2>1, <2>3
    <3> QED BY <1>0, <2>3, <3>1, <3>2
  <2>5. Recognized' = { s \in accept : SubSeq(lexeme, 1, k) \in Words[s] }
    BY <2>1 DEF Recognized
  <2>6. Recognized' # {}
    BY <2>1, <2>5 DEF IsLongest, MatchLengths
  <2>7. ToSet(found') = Recognized' \ Discard
    <3>1. Terminals(Recognized') \in SUBSET Lexeme
      BY <2>3, <2>5 DEF Terminals, L0
    <3>2. found' \in SetToSeqs(Terminals(Recognized'))
      BY <2>1, <2>5
    <3> HIDE DEF Recognized
    <3>3. ToSet(found') = Terminals(Recognized')
      BY <3>1, <3>2, EnumerationOnto
    <3> QED BY <3>3 DEF Terminals
  <2>8. NothingLonger'
    <3>1. LongestMatch'
      BY <1>3, MatchLongest DEF Sound
    <3>2. tok'.at = start' /\ tok'.word = lexeme' /\ tok'.among = accept'
      BY <2>1
    <3> QED BY <2>1, <3>1, <3>2 DEF LongestMatch, NothingLonger, RegionEnd
  <2>9. Delivered'
    BY <2>1, <2>4, <2>6, <2>7, <2>8 DEF Delivered
  <2> QED BY <1>0, <2>1, <2>2, <2>9 DEF ScanInv, Quiet, Untouched, Over, Afresh, Ahead, Evaluated
<1>4. CASE Discarded
  <2>1. /\ pc = "report" /\ pc' = "return" /\ Restart(accept)
        /\ UNCHANGED << text, psize, cstop, fail, prec, parsable >>
    BY <1>4 DEF Discarded, NoHandlers
  <2>2. start' = -1 /\ fail = "none"
    BY <1>0, <2>1 DEF Restart, Renew, Over
  <2> QED BY <1>0, <2>1, <2>2 DEF ScanInv, Quiet, Untouched, Over, Afresh, Ahead, Delivered, Evaluated
<1>5. ~ ReportBefore /\ ~ ReportAfter
  BY DEF ReportBefore, ReportAfter, Hits, NoHandlers
<1>6. CASE ReportNothing
  <2>1. /\ pc = "report" /\ pc' = "feed" /\ found # << >>
        /\ UNCHANGED << text, psize, cstop, fail, prec, parsable, loc, start, lexeme, accept,
                        found, lrec >>
    BY <1>6 DEF ReportNothing
  <2>2. Delivered'
    BY <1>0, <2>1 DEF Delivered, Recognized, NothingLonger, RegionEnd
  <2> QED BY <1>0, <2>1, <2>2 DEF ScanInv, Quiet, Untouched, Over, Afresh, Ahead, Evaluated
<1> QED BY <1>1, <1>2, <1>3, <1>4, <1>5, <1>6 DEF CompleteStep

LEMMA FeedScan ==
    ASSUME NoHandlers, Sound, BrokenInv, LongestInv, ScanInv, FeedStep
    PROVE  ScanInv'
<1> USE DEF inbound, gate, lexer, match, handler, parser, outcome
<1>0. Quiet /\ Untouched /\ Over /\ Afresh /\ Evaluated /\ Delivered
  BY DEF ScanInv
<1>1. ~ FeedNothing
  BY <1>0 DEF FeedNothing, Delivered
<1>2. CASE Feed
  <2>1. /\ pc = "feed" /\ prec' /\ fail' = "none"
        /\ UNCHANGED << text, psize, cstop >>
    BY <1>0, <1>2 DEF Feed, Over
  <2>2. ~ lrec
    BY <2>1 DEF Sound, PosInv, Phases, Matched
  <2>3. CASE pc' = "parse" /\ UNCHANGED << lexer, acc, broken >>
    BY <1>0, <2>1, <2>2, <2>3 DEF ScanInv, Quiet, Untouched, Over, Afresh, Ahead, Delivered, Evaluated
  <2>4. CASE pc' = "return" /\ Restart(Acceptable(gset'))
    <3>1. start' = -1
      BY <2>4 DEF Restart, Renew
    <3> QED BY <1>0, <2>1, <2>4, <3>1
            DEF ScanInv, Quiet, Untouched, Over, Afresh, Ahead, Delivered, Evaluated
  <2> QED BY <1>2, <2>3, <2>4 DEF Feed
<1>3. CASE FeedBroken
  <2>1. pc' = "crashed" /\ UNCHANGED << text, psize, cstop, lrec, fail, prec, parsable >> /\ pc = "feed"
    BY <1>3 DEF FeedBroken, Crash
  <2>2. ~ lrec
    BY <2>1 DEF Sound, PosInv, Phases, Matched
  <2> QED BY <1>0, <2>1, <2>2 DEF ScanInv, Quiet, Untouched, Over, Afresh, Ahead, Delivered, Evaluated
<1> DEFINE Ends == pc' = "return" \/ (pc' = "idle" /\ done') \/ pc' = "loop"
<1>4. CASE ParseNothing \/ ParseFails
  <2>1. /\ Ends /\ pc = "parse" /\ UNCHANGED << text, psize, cstop, parsable, lrec >>
        /\ \/ UNCHANGED << fail, prec >>
           \/ fail' # "none"
    BY <1>4 DEF ParseNothing, ParseFails, Fail, AfterParse, LoopUnlessAtEnd, Leave
  <2>2. ~ lrec
    BY <2>1 DEF LongestInv
  <2> QED BY <1>0, <2>1, <2>2 DEF ScanInv, Quiet, Untouched, Over, Afresh, Ahead, Delivered, Evaluated
<1>5. CASE Parse
  <2>1. /\ pc = "parse" /\ parsable /\ UNCHANGED << text, psize, cstop, parsable, fail >>
        /\ Restart(Acceptable(gset)) /\ AfterParse
    BY <1>5 DEF Parse
  <2>2. start' = -1 /\ Ends /\ (pc' = "idle" => done')
    BY <2>1 DEF Restart, Renew, AfterParse, LoopUnlessAtEnd, Leave
  <2>3. fail' # "none" => pc' = "idle"
    <3>1. fail # "none" => caller = "end"
      BY <1>0, <2>1 DEF Over
    <3>2. caller = "end" => loc = psize - 1
      BY <2>1 DEF Sound, EndInv
    <3> QED BY <2>1, <3>1, <3>2 DEF AfterParse, LoopUnlessAtEnd, Leave
  <2> QED BY <1>0, <2>1, <2>2, <2>3
          DEF ScanInv, Quiet, Untouched, Over, Afresh, Ahead, Delivered, Evaluated
<1>6. CASE FinishEnter \/ FinishFlush \/ FinishEof
  <2>1. /\ pc = "return" /\ (Ends \/ (pc' = "parse" /\ caller' = "end" /\ ~ lrec'))
        /\ (lrec' => lrec) /\ start' = start
        /\ UNCHANGED << text, psize, cstop, parsable, fail, prec >>
    BY <1>6 DEF FinishEnter, FinishFlush, FinishEof, Loop, LoopUnlessAtEnd, Leave
  <2> QED BY <1>0, <2>1 DEF ScanInv, Quiet, Untouched, Over, Afresh, Ahead, Delivered, Evaluated
<1> QED BY <1>1, <1>2, <1>3, <1>4, <1>5, <1>6 DEF FeedStep

LEMMA ProcessScan ==
    ASSUME NoHandlers, Sound, ScanInv, NEW t \in Inputs, NEW r \in Ranges, Process(t, r)
    PROVE  ScanInv'
<1>0. /\ Untouched /\ Evaluated
      /\ pc = "idle" /\ pc' = "loop" /\ text' = t /\ psize' = Len(t) /\ cstop' = -2
  BY DEF ScanInv, Process, NoHandlers
<1>1. CASE done /\ Reset
  <2>1. fail' = "none" /\ prec' /\ start' = -1
    BY <1>1 DEF Reset, Renew
  <2> QED BY <1>0, <2>1 DEF ScanInv, Quiet, Untouched, Over, Afresh, Ahead, Delivered, Evaluated
<1>2. CASE ~ done /\ UNCHANGED << fail, flushed, parser, lexer, acc >>
  <2>1. UNCHANGED << prec, parsable, fail, start >> /\ fail = "none" /\ start = -1
    BY <1>0, <1>2 DEF parser, lexer, Untouched, Sound, PosInv, Phases
  <2> QED BY <1>0, <2>1 DEF ScanInv, Quiet, Untouched, Over, Afresh, Ahead, Delivered, Evaluated
<1> QED BY <1>1, <1>2 DEF Process

LEMMA NoHandlerStep == NoHandlers /\ Quiet => ~ HandlerStep
BY DEF Quiet, HandlerStep, CallFrom, CallTo, CallExtend, CallClear, CallAlternate,
       Calling, Skip, HandlerOk, HandlerError

LEMMA ScanInvStep ==
    ASSUME NoHandlers, Sound, BrokenInv, LongestInv, ScanInv, [Next]_vars
    PROVE  ScanInv'
<1>1. CASE ReadStep
  BY <1>1, ReadScan
<1>2. CASE CompleteStep
  BY <1>2, CompleteScan
<1>3. ~ HandlerStep
  BY NoHandlerStep DEF ScanInv
<1>4. CASE FeedStep
  BY <1>4, FeedScan
<1>5. ASSUME NEW t \in Inputs, NEW r \in Ranges, Process(t, r) PROVE ScanInv'
  BY <1>5, ProcessScan
<1>6. CASE UNCHANGED vars
  <2>1. UNCHANGED << pc, psize, text, cstop, done, fail, gset, parsable, lrec, caller, flushed,
                     start, loc, lexeme, accept, found, prec >>
    BY <1>6 DEF vars, inbound, gate, lexer, match, parser, outcome
  <2> QED BY <2>1 DEF ScanInv, Quiet, Untouched, Over, Afresh, Ahead, Delivered, Evaluated,
                      Recognized, NothingLonger, RegionEnd
<1> QED BY <1>1, <1>2, <1>3, <1>4, <1>5, <1>6 DEF Next, Step

LEMMA ScanInit == Init => ScanInv
<1> SUFFICES ASSUME Init PROVE ScanInv
  OBVIOUS
<1>1. /\ psize = 0 /\ text = << >> /\ cstop = -2 /\ pc = "idle" /\ fail = "none" /\ prec
      /\ gset = GInit /\ parsable = Accepting(GInit)
  BY DEF Init
<1> QED BY <1>1 DEF ScanInv, Quiet, Untouched, Over, Afresh, Ahead, Delivered, Evaluated

-----------------------------------------------------------------------------
(* Without event handlers: every step is one of Scanner, or none           *)

\* Pieces of the rest of a text are pieces of the text.
LEMMA PieceOfRest ==
    ASSUME NEW t \in Seq(Char), NEW at \in 0 .. Len(t), NEW j \in 0 .. Len(t) - at
    PROVE  SubSeq(SubSeq(t, at + 1, Len(t)), 1, j) = SubSeq(t, at + 1, at + j)
<1> DEFINE rest == SubSeq(t, at + 1, Len(t))
           u == SubSeq(rest, 1, j)
           v == SubSeq(t, at + 1, at + j)
<1>1. Len(t) \in Nat /\ at \in Nat /\ j \in Nat /\ at + j <= Len(t)
  OBVIOUS
<1>2. rest \in Seq(Char) /\ Len(rest) = Len(t) - at /\ \A i \in 1 .. Len(t) - at : rest[i] = t[at + i]
  BY <1>1
<1>3. v \in Seq(Char) /\ Len(v) = j /\ \A i \in 1 .. j : v[i] = t[at + i]
  BY <1>1
<1> HIDE DEF rest
<1>4. u \in Seq(Char) /\ Len(u) = j /\ \A i \in 1 .. j : u[i] = rest[i]
  BY <1>1, <1>2
<1> HIDE DEF u, v
<1>5. u = v
  BY <1>1, <1>2, <1>3, <1>4
<1> QED BY <1>5 DEF u, v, rest

\* The invariants of the engine, all together.
EngineInv == Sound /\ OneInv /\ BrokenInv /\ LongestInv /\ ScanInv

\* The words that Scanner sees in front of it.
LEMMA SameLengths ==
    ASSUME TypeOK, Position \in 0 .. Len(text), NEW A, NEW j
    PROVE  /\ j \in Scan!MatchLengths(A, Scan!Rest)
                <=> /\ j \in 0 .. Len(text) - Position
                    /\ \E s \in A : SubSeq(text, Position + 1, Position + j) \in Words[s]
           /\ Scan!Rest # << >> <=> Position < Len(text)
<1>1. text \in Seq(Char) /\ Len(text) \in Nat /\ Position \in Nat
  BY DEF TypeOK, InputType
<1>2. Scan!Rest = SubSeq(text, Position + 1, Len(text))
  BY DEF Scan!Rest
<1> DEFINE at == Position
<1> HIDE DEF at
<1>3. Scan!Rest = SubSeq(text, at + 1, Len(text)) /\ at \in 0 .. Len(text)
  BY <1>2 DEF at
<1>4. Len(Scan!Rest) = Len(text) - at
  BY <1>1, <1>3
<1>5. ASSUME NEW i \in 0 .. Len(text) - at
      PROVE  SubSeq(Scan!Rest, 1, i) = SubSeq(text, at + 1, at + i)
  BY <1>1, <1>3, PieceOfRest
<1>6. Scan!Rest # << >> <=> at < Len(text)
  <2>1. Scan!Rest \in Seq(Char)
    BY <1>1, <1>3
  <2>2. Scan!Rest = << >> <=> Len(Scan!Rest) = 0
    BY <2>1
  <2> QED BY <1>1, <1>3, <1>4, <2>2
<1>7. Scan!MatchLengths(A, Scan!Rest) =
          { i \in 0 .. Len(text) - at : \E s \in A : SubSeq(Scan!Rest, 1, i) \in Words[s] }
  BY <1>4 DEF Scan!MatchLengths
<1>8. Scan!MatchLengths(A, Scan!Rest) =
          { i \in 0 .. Len(text) - at : \E s \in A : SubSeq(text, at + 1, at + i) \in Words[s] }
  BY <1>5, <1>7
<1> QED BY <1>6, <1>8 DEF at

\* Nothing that Scanner sees is changed by a step inside of the engine.
Unseen == UNCHANGED << text, Position, gset, parsable, Outcome >>

LEMMA UnseenStutters == Unseen => UNCHANGED Scan!vars
BY DEF Unseen, Scan!vars

\* After a failure only the end of `process` is left, which is told already.
LEMMA FailedUnseen ==
    ASSUME fail # "none", fail' # "none", UNCHANGED << text, gset, parsable >>
    PROVE  UNCHANGED Scan!vars
BY DEF Scan!vars, Position, Outcome

\* While the engine runs, the place of the next token is inside of the text.
LEMMA Underway ==
    ASSUME EngineInv, pc # "idle", fail = "none"
    PROVE  /\ Outcome = "none" /\ Position \in 0 .. Len(text)
           /\ Position = IF pc \in {"report", "feed"} \/ (lrec /\ start >= 0) THEN start ELSE loc + 1
           /\ next = loc + 1 /\ psize = Len(text) /\ pc # "crashed" /\ pc # "event"
           /\ Looking \/ pc = "complete" \/ Matched => accept = Expected(gset) \cup Always
           /\ Looking \/ pc = "complete" => lrec
<1>1. TypeOK /\ PosInv /\ FollowInv /\ Quiet
  BY DEF EngineInv, Sound, ScanInv
<1>2. next = loc + 1 /\ loc \in -1 .. Len(text) - 1 /\ start \in -1 .. Len(text)
  BY <1>1 DEF PosInv, Bounded
<1>3. Len(text) \in Nat
  BY <1>1 DEF TypeOK, InputType
<1>4. Outcome = "none"
  BY DEF Outcome
<1>5. Position = IF pc \in {"report", "feed"} \/ (lrec /\ start >= 0) THEN start ELSE loc + 1
  BY <1>2, <1>4 DEF Position
<1>6. pc \in {"report", "feed"} => start >= 0
  BY <1>1 DEF PosInv, Phases, Matched
<1>7. Position \in 0 .. Len(text)
  BY <1>2, <1>3, <1>5, <1>6
<1>8. pc # "crashed" /\ pc # "event" /\ psize = Len(text)
  BY <1>1 DEF EngineInv, BrokenInv, Quiet
<1>9. /\ Looking \/ pc = "complete" \/ Matched => accept = Expected(gset) \cup Always
      /\ Looking \/ pc = "complete" => lrec
  BY <1>1 DEF FollowInv, Acceptable
<1> QED BY <1>2, <1>4, <1>5, <1>7, <1>8, <1>9

\* The match on its way to the parser is the token Scanner takes, if the next
\* one starts behind it and the parser is told of its terminals, if there are any.
LEMMA TokenTaken ==
    ASSUME EngineInv, pc \in {"report", "feed"},
           text' = text, Outcome' = "none", Position' = loc + 1,
           IF found = << >>
           THEN UNCHANGED << gset, parsable >>
           ELSE /\ gset' = Advance(gset, ToSet(found))
                /\ parsable' = (parsable \/ Accepting(gset'))
    PROVE  Scan!Next
<1> DEFINE k == Len(lexeme)
           Taken == { s \in Scan!Accepted : SubSeq(Scan!Rest, 1, k) \in Words[s] }
<1>1. TypeOK /\ PosInv /\ Delivered /\ fail = "none"
  BY DEF EngineInv, Sound, ScanInv, Over
<1>2. /\ Outcome = "none" /\ Position = start /\ start \in 0 .. Len(text) /\ psize = Len(text)
      /\ Scan!Accepted = accept
  <2>1. Matched
    BY DEF Matched
  <2>2. Scan!Accepted = Expected(gset) \cup Always
    BY DEF Scan!Accepted, Scan!Expected, Expected
  <2> QED BY <1>1, <2>1, <2>2, Underway
<1>3. /\ lexeme \in Seq(Char) /\ k \in Nat /\ Len(text) \in Nat /\ loc \in Int /\ text \in Seq(Char)
      /\ start \in Nat
  BY <1>1, <1>2 DEF TypeOK, InputType
<1>4. loc + 1 = start + k /\ loc + 1 <= Len(text)
  BY <1>1 DEF Delivered, PosInv, Bounded
<1>5. k \in 0 .. Len(text) - start
  BY <1>3, <1>4
<1>6. lexeme = SubSeq(text, start + 1, start + k)
  <2>1. SubSeq(lexeme, 1, k) = SubSeq(text, start + 1, start + k)
    BY <1>1, <1>3, PieceOfText
  <2> QED BY <1>3, <2>1
<1>7. SubSeq(Scan!Rest, 1, k) = lexeme
  BY <1>2, <1>3, <1>5, <1>6, PieceOfRest DEF Scan!Rest
<1>8. k \in Scan!MatchLengths(Scan!Accepted, Scan!Rest)
  <2>1. \E s \in accept : lexeme \in Words[s]
    BY <1>1 DEF Delivered, Recognized
  <2>2. \E s \in accept : SubSeq(text, start + 1, start + k) \in Words[s]
    BY <1>6, <2>1
  <2> HIDE DEF k
  <2> QED BY <1>1, <1>2, <1>5, <2>2, SameLengths
<1>9. \A j \in Scan!MatchLengths(Scan!Accepted, Scan!Rest) : j <= k
  <2> SUFFICES ASSUME NEW j \in Scan!MatchLengths(Scan!Accepted, Scan!Rest), ~ (j <= k)
               PROVE  FALSE
    OBVIOUS
  <2>1. /\ j \in 0 .. Len(text) - start
        /\ \E s \in accept : SubSeq(text, start + 1, start + j) \in Words[s]
    BY <1>1, <1>2, SameLengths
  <2>2. RegionEnd(start) = Len(text)
    BY <1>2 DEF RegionEnd
  <2>3. j \in k + 1 .. RegionEnd(start) - start
    BY <1>3, <2>1, <2>2
  <2> QED BY <1>1, <2>1, <2>3 DEF Delivered, NothingLonger
<1>10. Taken = Recognized
  BY <1>2, <1>7 DEF Recognized
<1>11. found = << >> <=> Taken \subseteq Discard
  <2>1. found \in Seq(Lexeme)
    BY <1>1 DEF TypeOK, TokenType
  <2>2. found = << >> <=> ToSet(found) = {}
    <3>1. CASE found = << >>
      BY <3>1 DEF ToSet
    <3>2. CASE found # << >>
      <4>1. 1 \in DOMAIN found
        BY <2>1, <3>2
      <4> QED BY <3>2, <4>1 DEF ToSet
    <3> QED BY <3>1, <3>2
  <2> QED BY <1>1, <1>10, <2>2 DEF Delivered
<1>12. IF Taken \subseteq Discard
       THEN UNCHANGED << gset, parsable >>
       ELSE /\ gset' = Scan!Advance(gset, Taken \ Discard)
            /\ parsable' = (parsable \/ Scan!Accepting(gset'))
  <2>1. ToSet(found) = Taken \ Discard
    BY <1>1, <1>10 DEF Delivered
  <2>2. CASE found = << >>
    BY <1>11, <2>2
  <2>3. CASE found # << >>
    BY <1>11, <2>1, <2>3 DEF Scan!Advance, Advance, Scan!Accepting, Accepting
  <2> QED BY <2>2, <2>3
<1>13. Position' = Position + k
  BY <1>2, <1>4
<1>14. Scan!Token(k)
  BY <1>2, <1>8, <1>9, <1>12, <1>13 DEF Scan!Token
<1>15. k \in 0 .. Len(text)
  BY <1>3, <1>5
<1> QED BY <1>14, <1>15 DEF Scan!Next, Scan!Progress

\* Reading a character, or giving one back, is nothing to Scanner.  A character
\* that came back in vain is an error.
LEMMA ReadMaps ==
    ASSUME EngineInv, ReadStep
    PROVE  [Scan!Next]_(Scan!vars)
<1> USE DEF inbound, gate, lexer, match, handler, parser, outcome
<1>0. TypeOK /\ PosInv /\ LongestInv /\ Quiet /\ Afresh
  BY DEF EngineInv, Sound, ScanInv
<1>1. ~ ReachStop /\ ~ ReachOver
  BY <1>0 DEF ReachStop, ReachOver, Quiet, PosInv, Bounded
<1>2. pc = "loop" /\ UNCHANGED << text, gset, parsable >>
  BY <1>1 DEF ReadStep, ReachEof, Accept, Flush, Refuse, AcceptNull, Reading
<1>3. CASE fail # "none"
  <2>1. fail' # "none"
    BY <1>1, <1>3 DEF ReadStep, ReachEof, Accept, Flush, Refuse, AcceptNull, Fail
  <2> QED BY <1>2, <1>3, <2>1, FailedUnseen
<1>4. CASE fail = "none"
  <2>1. /\ lrec /\ Outcome = "none" /\ next = loc + 1
        /\ accept = Expected(gset) \cup Always /\ psize = Len(text)
        /\ Position \in 0 .. Len(text)
        /\ Position = IF start >= 0 THEN start ELSE loc + 1
    BY <1>2, <1>4, Underway DEF Looking
  <2>2. loc \in -1 .. Len(text) - 1 /\ start \in -1 .. Len(text) /\ Len(text) \in Nat /\ text \in Seq(Char)
    BY <1>0 DEF PosInv, Bounded, TypeOK, InputType
  <2>3. CASE ReachEof
    <3>1. /\ fail' = "none" /\ UNCHANGED << next, start >>
          /\ \/ pc' = "complete" /\ lrec' = lrec
             \/ pc' = "parse" /\ lrec' = FALSE /\ ~ (start >= 0)
      BY <1>4, <2>3 DEF ReachEof
    <3>2. Unseen
      BY <1>2, <2>1, <2>2, <3>1 DEF Unseen, Position, Outcome
    <3> QED BY <3>2, UnseenStutters
  <2>4. CASE Accept
    <3>1. /\ fail' = "none" /\ next' = loc + 2 /\ start' = IF start = -1 THEN loc + 1 ELSE start
          /\ lrec' = lrec /\ pc' \in {"complete", "loop"}
      BY <1>4, <2>4 DEF Accept, Loop
    <3>2. Unseen
      BY <1>2, <2>1, <2>2, <3>1 DEF Unseen, Position, Outcome
    <3> QED BY <3>2, UnseenStutters
  <2>5. CASE Flush
    <3>1. /\ fail' = "none" /\ next' = next /\ start' = IF start = -1 THEN loc + 1 ELSE start
          /\ lrec' = lrec /\ pc' = "complete"
      BY <1>4, <2>5 DEF Flush
    <3>2. Unseen
      BY <1>2, <2>1, <2>2, <3>1 DEF Unseen, Position, Outcome
    <3> QED BY <3>2, UnseenStutters
  <2>6. CASE Refuse
    <3>1. /\ flushed /\ NextChar \notin acc /\ loc # psize - 1 /\ fail' # "none"
      BY <2>6 DEF Refuse, Reading, Fail
    <3>2. start = -1 /\ Len(lexeme) = 0 /\ lexeme \in Seq(Char) /\ acc = Viable(accept, lexeme)
      BY <1>0, <1>2, <2>1, <3>1 DEF Afresh, LongestInv, Looking, PosInv, FromText, TypeOK, InputType
    <3>3. Position = loc + 1 /\ Position < Len(text)
      BY <2>1, <2>2, <3>1, <3>2
    <3>4. Scan!MatchLengths(Scan!Accepted, Scan!Rest) \subseteq {0} /\ Scan!Rest # << >>
      <4> SUFFICES ASSUME NEW j \in Scan!MatchLengths(Scan!Accepted, Scan!Rest), j # 0
                   PROVE  FALSE
        BY <1>0, <2>1, <3>3, SameLengths
      <4>1. Scan!Accepted = accept
        BY <2>1 DEF Scan!Accepted, Scan!Expected, Expected
      <4>2. PICK s \in accept : /\ j \in 0 .. Len(text) - Position
                                /\ SubSeq(text, Position + 1, Position + j) \in Words[s]
        BY <1>0, <2>1, <4>1, SameLengths
      <4> DEFINE at == Position
      <4>3. at \in Nat /\ at + 1 = loc + 2 /\ at = loc + 1
        BY <2>1, <2>2, <3>3
      <4>4. /\ j \in 0 .. Len(text) - at
            /\ SubSeq(text, at + 1, at + j) \in Words[s]
        BY <4>2
      <4> HIDE DEF at
      <4>5. j \in Len(lexeme) + 1 .. Len(text) - at
        BY <2>2, <3>2, <4>3, <4>4
      <4>6. text[at + Len(lexeme) + 1] \notin Viable(accept, lexeme)
        BY <3>1, <3>2, <4>3 DEF NextChar
      <4>7. \A i \in 1 .. Len(lexeme) : lexeme[i] = text[at + i]
        BY <3>2
      <4> QED BY <2>2, <3>2, <4>3, <4>4, <4>5, <4>6, <4>7, NoneLonger
    <3>5. Outcome' = "error" /\ Position' = 0
      BY <3>1 DEF Outcome, Position
    <3>6. Scan!Error
      BY <1>2, <2>1, <3>4, <3>5 DEF Scan!Error
    <3> QED BY <3>6 DEF Scan!Next, Scan!Progress
  <2>7. ~ AcceptNull
    BY <2>1 DEF AcceptNull
  <2> QED BY <1>1, <2>3, <2>4, <2>5, <2>6, <2>7 DEF ReadStep
<1> QED BY <1>3, <1>4

\* A match without a word is an error.  A match that is discarded is a token.
LEMMA CompleteMaps ==
    ASSUME NoHandlers, EngineInv, EngineInv', CompleteStep
    PROVE  [Scan!Next]_(Scan!vars)
<1> USE DEF inbound, gate, lexer, match, handler, parser, outcome
<1>0. TypeOK /\ PosInv /\ LongestInv /\ ScanInv /\ Sound
  BY DEF EngineInv, Sound
<1>1. ~ ReportBefore /\ ~ ReportAfter
  BY DEF ReportBefore, ReportAfter, Hits, NoHandlers
<1>2. /\ pc \in {"complete", "report"} /\ UNCHANGED << text, gset, parsable >>
      /\ (fail # "none" => fail' # "none")
  BY <1>1 DEF CompleteStep, CompleteNothing, Mismatch, Match, Discarded, ReportNothing, Fail
<1>3. CASE fail # "none"
  BY <1>2, <1>3, FailedUnseen
<1>4. CASE fail = "none"
  <2>1. /\ Outcome = "none" /\ Position \in 0 .. Len(text) /\ next = loc + 1 /\ psize = Len(text)
        /\ Position = IF pc = "report" \/ (lrec /\ start >= 0) THEN start ELSE loc + 1
        /\ accept = Expected(gset) \cup Always
        /\ pc = "complete" => lrec /\ start >= 0
    BY <1>0, <1>2, <1>4, Underway DEF Matched, PosInv, Phases
  <2>2. ~ CompleteNothing
    BY <2>1 DEF CompleteNothing
  <2>3. CASE Mismatch
    <3>1. pc = "complete" /\ lrec /\ MatchLengths(accept, lexeme) = {} /\ fail' # "none"
      BY <2>3 DEF Mismatch, Fail
    <3>2. Position = start /\ start >= 0 /\ start < Len(text) /\ start \in Int
      BY <1>0, <2>1, <3>1 DEF ScanInv, Ahead, PosInv, Phases, TypeOK, InputType
    <3>3. Scan!MatchLengths(Scan!Accepted, Scan!Rest) \subseteq {0} /\ Scan!Rest # << >>
      <4> SUFFICES ASSUME NEW j \in Scan!MatchLengths(Scan!Accepted, Scan!Rest) PROVE FALSE
        BY <1>0, <2>1, <3>2, SameLengths
      <4>1. Scan!Accepted = accept
        BY <2>1 DEF Scan!Accepted, Scan!Expected, Expected
      <4>2. PICK s \in accept : /\ j \in 0 .. Len(text) - start
                                /\ SubSeq(text, start + 1, start + j) \in Words[s]
        BY <1>0, <2>1, <3>2, <4>1, SameLengths
      <4>3. Len(lexeme) \in Nat /\ Len(text) \in Nat
        BY <1>0 DEF TypeOK, InputType
      <4>4. CASE j \in 0 .. Len(lexeme)
        <5>1. SubSeq(lexeme, 1, j) \in Words[s]
          BY <1>0, <3>2, <4>2, <4>4, PieceOfText
        <5> QED BY <3>1, <4>4, <5>1 DEF MatchLengths
      <4>5. CASE j > Len(lexeme)
        <5>1. RegionEnd(start) = Len(text)
          BY <2>1, <3>2 DEF RegionEnd
        <5>2. j \in Len(lexeme) + 1 .. RegionEnd(start) - start
          BY <4>2, <4>3, <4>5, <5>1
        <5> QED BY <1>0, <3>1, <4>2, <5>2 DEF LongestInv, NothingLonger
      <4> QED BY <4>2, <4>3, <4>4, <4>5
    <3>4. Outcome' = "error" /\ Position' = 0
      BY <3>1 DEF Outcome, Position
    <3>5. Scan!Error
      BY <1>2, <2>1, <3>3, <3>4 DEF Scan!Error
    <3> QED BY <3>5 DEF Scan!Next, Scan!Progress
  <2>4. ASSUME NEW k \in 0 .. Len(lexeme), Match(k) PROVE [Scan!Next]_(Scan!vars)
    <3>1. pc = "complete" /\ pc' = "report" /\ fail' = "none" /\ start' = start
      BY <1>4, <2>4 DEF Match
    <3>2. Unseen
      BY <1>2, <2>1, <3>1 DEF Unseen, Position, Outcome
    <3> QED BY <3>2, UnseenStutters
  <2>5. CASE Discarded
    <3>1. /\ pc = "report" /\ found = << >> /\ pc' = "return" /\ Restart(accept)
          /\ fail' = "none" /\ next' = next
      BY <1>4, <2>5 DEF Discarded, NoHandlers
    <3>2. start' = -1
      BY <3>1 DEF Restart, Renew
    <3>3. Outcome' = "none" /\ Position' = loc + 1
      BY <2>1, <3>1, <3>2 DEF Outcome, Position
    <3> QED BY <1>2, <3>1, <3>3, TokenTaken
  <2>6. CASE ReportNothing
    <3>1. pc = "report" /\ pc' = "feed" /\ fail' = "none" /\ start' = start
      BY <1>4, <2>6 DEF ReportNothing
    <3>2. Unseen
      BY <1>2, <2>1, <3>1 DEF Unseen, Position, Outcome
    <3> QED BY <3>2, UnseenStutters
  <2> QED BY <1>1, <2>2, <2>3, <2>4, <2>5, <2>6 DEF CompleteStep
<1> QED BY <1>3, <1>4

\* The tokens that are terminals go to the parser.  Its end is the end of the
\* text with a value, or an error.
LEMMA FeedMaps ==
    ASSUME NoHandlers, EngineInv, EngineInv', FeedStep
    PROVE  [Scan!Next]_(Scan!vars)
<1> USE DEF inbound, gate, lexer, match, handler, parser, outcome
<1>0. TypeOK /\ PosInv /\ LongestInv /\ ScanInv /\ Sound /\ EndInv /\ FollowInv /\ BrokenInv
  BY DEF EngineInv, Sound
<1>1. ~ FeedNothing
  BY <1>0 DEF FeedNothing, ScanInv, Delivered
<1>2. text' = text /\ pc \in {"feed", "parse", "return"} /\ (fail # "none" => fail' # "none")
  BY <1>1 DEF FeedStep, Feed, FeedBroken, ParseNothing, ParseFails, Parse, Fail,
              FinishEnter, FinishFlush, FinishEof
<1>3. CASE fail # "none"
  <2>1. pc # "feed"
    BY <1>0, <1>3 DEF ScanInv, Over
  <2>2. UNCHANGED << gset, parsable >>
    BY <1>1, <2>1 DEF FeedStep, Feed, FeedBroken, ParseNothing, ParseFails, Parse,
                      FinishEnter, FinishFlush, FinishEof
  <2> QED BY <1>2, <1>3, <2>2, FailedUnseen
<1>4. CASE fail = "none"
  <2>1. /\ Outcome = "none" /\ Position \in 0 .. Len(text) /\ next = loc + 1 /\ psize = Len(text)
        /\ Position = IF pc = "feed" \/ (lrec /\ start >= 0) THEN start ELSE loc + 1
    BY <1>2, <1>4, Underway
  <2>2. loc \in Int /\ start \in Int /\ Len(text) \in Nat /\ text \in Seq(Char)
    BY <1>0 DEF TypeOK, InputType
  <2>3. CASE Feed
    <3>1. /\ pc = "feed" /\ found # << >> /\ fail' = "none" /\ next' = next
          /\ gset' = Advance(gset, ToSet(found)) /\ parsable' = (parsable \/ Accepting(gset'))
          /\ \/ pc' = "parse" /\ lrec' = lrec
             \/ pc' = "return" /\ Restart(Acceptable(gset'))
      BY <1>4, <2>3 DEF Feed
    <3>2. ~ lrec
      BY <1>0, <3>1 DEF PosInv, Phases, Matched
    <3>3. Outcome' = "none" /\ Position' = loc + 1
      BY <2>1, <3>1, <3>2 DEF Outcome, Position, Restart, Renew
    <3> QED BY <1>2, <3>1, <3>3, TokenTaken
  <2>4. ~ FeedBroken
    <3>1. FeedBroken => pc' = "crashed" /\ fail' = "none"
      BY <1>4 DEF FeedBroken, Crash
    <3> QED BY <3>1 DEF EngineInv, BrokenInv
  <2>5. ASSUME pc = "parse" PROVE ~ lrec /\ Position = loc + 1
    BY <1>0, <2>1, <2>5 DEF FollowInv
  <2>6. ASSUME pc = "parse", caller = "end"
        PROVE  loc = psize - 1 /\ Position = Len(text) /\ Scan!Rest = << >>
    <3>1. loc = psize - 1 /\ Position = Len(text)
      BY <1>0, <2>1, <2>2, <2>5, <2>6 DEF EndInv
    <3>2. ~ (Scan!Rest # << >>)
      BY <1>0, <2>1, <2>2, <3>1, SameLengths
    <3> QED BY <3>1, <3>2
  <2>7. ASSUME pc = "parse", parsable, caller = "end", UNCHANGED << gset, parsable >>,
               fail' = "none", AfterParse
        PROVE  Scan!Next
    <3>1. pc' = "idle"
      BY <2>6, <2>7 DEF AfterParse, LoopUnlessAtEnd, Leave
    <3>2. Outcome' = "value" /\ Position' = 0
      BY <2>7, <3>1 DEF Outcome, Position
    <3>3. Scan!Succeed
      BY <1>2, <2>1, <2>6, <2>7, <3>2 DEF Scan!Succeed
    <3> QED BY <3>3 DEF Scan!Next, Scan!Progress
  <2>8. CASE ParseNothing
    <3>1. pc = "parse" /\ ~ prec /\ AfterParse /\ fail' = "none" /\ UNCHANGED << gset, parsable >>
      BY <1>4, <2>8 DEF ParseNothing
    <3>2. caller = "end" /\ parsable
      BY <1>0, <1>4, <3>1 DEF FollowInv, ScanInv, Evaluated
    <3> QED BY <2>7, <3>1, <3>2
  <2>9. CASE ParseFails
    <3>1. pc = "parse" /\ ~ parsable /\ fail' # "none" /\ UNCHANGED << gset, parsable >>
      BY <2>9 DEF ParseFails, Fail
    <3>2. Outcome' = "error" /\ Position' = 0
      BY <3>1 DEF Outcome, Position
    <3>3. caller = "end" \/ Scan!Expected(gset) = {}
      <4>1. caller # "end" => Expected(gset) = {}
        BY <1>0, <1>4, <3>1 DEF BrokenInv
      <4> QED BY <4>1 DEF Scan!Expected, Expected
    <3>4. Scan!Error
      BY <1>2, <2>1, <2>6, <3>1, <3>2, <3>3 DEF Scan!Error
    <3> QED BY <3>4 DEF Scan!Next, Scan!Progress
  <2>10. CASE Parse
    <3>1. /\ pc = "parse" /\ parsable /\ Restart(Acceptable(gset)) /\ AfterParse
          /\ fail' = "none" /\ UNCHANGED << gset, parsable, next >>
      BY <1>4, <2>10 DEF Parse
    <3>2. CASE caller = "end"
      BY <2>7, <3>1, <3>2
    <3>3. CASE caller # "end"
      <4>1. pc' = "return" /\ start' = -1
        BY <3>1, <3>3 DEF AfterParse, Restart, Renew
      <4>2. Unseen
        BY <1>2, <2>1, <2>5, <3>1, <4>1 DEF Unseen, Position, Outcome
      <4> QED BY <4>2, UnseenStutters
    <3> QED BY <3>2, <3>3
  <2>11. CASE FinishEnter \/ FinishFlush \/ FinishEof
    <3>1. /\ pc = "return" /\ fail' = "none" /\ UNCHANGED << gset, parsable, next, start >>
          /\ (lrec' => lrec)
          /\ pc' \in {"loop", "parse", "idle"}
      BY <1>4, <2>11 DEF FinishEnter, FinishFlush, FinishEof, Loop, LoopUnlessAtEnd, Leave
    <3>2. pc' # "idle"
      <4>1. CASE FinishEnter \/ FinishFlush
        BY <3>1, <4>1 DEF FinishEnter, FinishFlush, Loop
      <4>2. CASE FinishEof
        <5>1. caller = "eof" /\ (redo # 0 => loc # psize - 1)
          BY <1>0, <3>1, <4>2 DEF FinishEof, EndInv, EofTold
        <5> QED BY <4>2, <5>1 DEF FinishEof, LoopUnlessAtEnd
      <4> QED BY <2>11, <4>1, <4>2
    <3>3. lrec => start = -1
      BY <1>0, <3>1 DEF ScanInv, Afresh
    <3>4. Unseen
      BY <1>2, <2>1, <3>1, <3>2, <3>3 DEF Unseen, Position, Outcome
    <3> QED BY <3>4, UnseenStutters
  <2> QED BY <1>1, <2>3, <2>4, <2>8, <2>9, <2>10, <2>11 DEF FeedStep
<1> QED BY <1>3, <1>4

LEMMA ProcessMaps ==
    ASSUME NoHandlers, EngineInv, NEW t \in Inputs, NEW r \in Ranges, Process(t, r)
    PROVE  Scan!Next
<1>1. /\ pc = "idle" /\ pc' = "loop" /\ text' = t /\ next' = 0
  BY DEF Process, NoHandlers
<1>2. Outcome # "none"
  BY <1>1 DEF Outcome
<1>3. fail' = "none" /\ start' = -1 /\ gset' = GInit /\ parsable' = Accepting(GInit)
  <2>1. CASE done /\ Reset
    BY <2>1 DEF Reset, Renew
  <2>2. CASE ~ done /\ UNCHANGED << fail, flushed, parser, lexer, acc >>
    BY <1>1, <2>2 DEF parser, lexer, EngineInv, ScanInv, Untouched, Sound, PosInv, Phases
  <2> QED BY <2>1, <2>2 DEF Process
<1>4. Outcome' = "none" /\ Position' = 0
  BY <1>1, <1>3 DEF Outcome, Position
<1>5. Scan!Begin(t)
  BY <1>1, <1>2, <1>3, <1>4 DEF Scan!Begin, Scan!Accepting, Accepting
<1> QED BY <1>5 DEF Scan!Next

LEMMA StepMaps ==
    ASSUME NoHandlers, EngineInv, EngineInv', [Next]_vars
    PROVE  [Scan!Next]_(Scan!vars)
<1>1. CASE ReadStep
  BY <1>1, ReadMaps
<1>2. CASE CompleteStep
  BY <1>2, CompleteMaps
<1>3. ~ HandlerStep
  BY NoHandlerStep DEF EngineInv, ScanInv
<1>4. CASE FeedStep
  BY <1>4, FeedMaps
<1>5. ASSUME NEW t \in Inputs, NEW r \in Ranges, Process(t, r) PROVE Scan!Next
  BY <1>5, ProcessMaps
<1>6. CASE UNCHANGED vars
  <2>1. UNCHANGED << pc, text, fail, gset, parsable, lrec, start, next >>
    BY <1>6 DEF vars, inbound, lexer, parser, outcome
  <2> QED BY <2>1 DEF Scan!vars, Position, Outcome
<1> QED BY <1>1, <1>2, <1>3, <1>4, <1>5, <1>6 DEF Next, Step

\* Without event handlers every behaviour of the engine is, seen from outside,
\* one of Scanner: the text is cut into the longest words that the grammar can
\* go on with, and a value is returned only for a text that is covered.  That it
\* ends, which Scan!Spec says in addition, is a matter of fairness.
THEOREM ScannerImplemented ==
    ASSUME NoHandlers, Always \subseteq Discard
    PROVE  Spec => Scan!Init /\ [][Scan!Next]_(Scan!vars)
<1>1. Calls \cap {"inmatch", "ateof", "twice"} = {} /\ "inmatch" \notin Calls
  BY DEF NoHandlers
<1>2. Spec => [](Sound /\ OneInv /\ BrokenInv /\ LongestInv)
  BY <1>1, SoundCorrect, LongestCorrect, PTL
<1>3. Init => ScanInv
  BY ScanInit
<1>4. Sound /\ BrokenInv /\ LongestInv /\ ScanInv /\ [Next]_vars => ScanInv'
  BY ScanInvStep
<1>5. Spec => []EngineInv
  BY <1>2, <1>3, <1>4, PTL DEF Spec, EngineInv
<1>6. Init => Scan!Init
  BY DEF Init, Scan!Init, Position, Outcome, Scan!Accepting, Accepting
<1>7. EngineInv /\ EngineInv' /\ [Next]_vars => [Scan!Next]_(Scan!vars)
  BY StepMaps
<1> QED BY <1>5, <1>6, <1>7, PTL DEF Spec

=============================================================================
