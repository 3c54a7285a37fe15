------------------------------ MODULE Inbound ------------------------------
(***************************************************************************)
(* The two cursors of the input in the C runtime (runtime-c/inbound.c) and *)
(* the index between them (runtime-c/clindex.c).                           *)
(*                                                                         *)
(* The input is read in bytes, its users count in characters.  A byte is   *)
(* represented by its role in UTF-8: 0 for a trailer, 1 for a byte that    *)
(* stands for itself, 2, 3 and 4 for the lead of so many bytes.            *)
(*                                                                         *)
(* The cursor steps to the next character at the *first* byte of it.  The  *)
(* index remembers the largest character visited, and the places where the *)
(* length of characters changes ("runs").  A position behind the visited   *)
(* part is found by running the decoder over the input.                    *)
(*                                                                         *)
(* The users are the gate and the lexer, which give bytes back, and event  *)
(* handlers, which move by characters.  They are nondeterministic here.    *)
(* `Uses` says which kinds of use are made of the cursors; with none of    *)
(* them the index is exact (see the run `inbound`), each of them breaks it.*)
(*                                                                         *)
(* A definition whose comment starts with "Mutant" is a wrong version of   *)
(* the one it precedes, for the mutation runs.                             *)
(***************************************************************************)
EXTENDS Integers, Sequences, FiniteSets

CONSTANTS
    Texts,       \* Texts given to `process` ...
    Extensions,  \* ... and to `extend`.
    Uses,        \* The kinds of use, see UseKinds.
    MaxCalls     \* Bound: facade calls in one `process`.

Role == 0 .. 4

\* "first"   the first byte is refused, or a handler moves before it
\* "inside"  a byte in the middle of a character is refused, or a byte there
\*           is the next to read after bytes were given back
\* "wide"    a handler moves to, or stops after, a character of several bytes,
\*           or looks for a position behind one that is the largest visited
UseKinds == {"first", "inside", "wide"}

ASSUME TextAssumption == Texts \subseteq Seq(Role) /\ Extensions \subseteq Seq(Role)
ASSUME UseAssumption == Uses \subseteq UseKinds /\ MaxCalls \in Nat

None == -1   \* No position asked for.

VARIABLES
    text,    \* IN.bytes; IN.size is its length.
    psize,   \* IN.psize
    csize,   \* IN.csize: minus the size in bytes, or the size in characters.
    cstop,   \* IN.cstop, the character to stop after, -2 for none.
    cur,     \* The cursors and the index, see Start.
    begin,   \* The byte before the match under way: nothing before it is given back.
    pc,      \* "idle", "loop", "handler", or "crashed".
    calls,   \* Facade calls in this `process`.
    asked    \* History: the location a handler just asked for, or None.

vars == << text, psize, csize, cstop, cur, begin, pc, calls, asked >>

-----------------------------------------------------------------------------
(* Decoding: inbound_step                                                  *)

\* What stands behind the last byte is a \0.
Byte(t, i) == IF i < Len(t) THEN t[i+1] ELSE 1

\* ok_char: the lead at byte i is followed by all of its trailers.
Whole(t, i) ==
    Byte(t, i) > 1 /\ i + Byte(t, i) <= Len(t)
                   /\ \A j \in i+1 .. i + Byte(t, i) - 1 : t[j+1] = 0

\* Cursors and index before anything was read.
Start == [location |-> -1, clocation |-> -1, trailer |-> 0,
          maxchar |-> -1, maxbyte |-> -1, maxblen |-> 0, runs |-> << >>,
          broken |-> "no"]

\* Mutant: a change of length is noted one character late.
UpdateLate(s, k) ==
    IF s.clocation <= s.maxchar THEN s
    ELSE [s EXCEPT
            !.maxchar = s.clocation, !.maxbyte = s.location, !.maxblen = k,
            !.runs = IF k = s.maxblen THEN @
                     ELSE Append(@, [char |-> s.clocation + 1, byte |-> s.location + k, blen |-> k]),
            !.broken = IF s.clocation = s.maxchar + 1 THEN @ ELSE "gap"]

\* marpatcl_rtc_clindex_update, with its ASSERT.
Update(s, k) ==
    IF s.clocation <= s.maxchar THEN s
    ELSE [s EXCEPT
            !.maxchar = s.clocation, !.maxbyte = s.location, !.maxblen = k,
            !.runs = IF k = s.maxblen THEN @
                     ELSE Append(@, [char |-> s.clocation, byte |-> s.location, blen |-> k]),
            !.broken = IF s.clocation = s.maxchar + 1 THEN @ ELSE "gap"]

\* The macro MOVE: the next character, of k bytes.
Move(s, k) == Update([s EXCEPT !.trailer = k - 1, !.clocation = @ + 1], k)

\* marpatcl_rtc_inbound_step.  A trailer that is not expected, and a lead that
\* lacks a trailer, is a character of its own.
Step(t, s) ==
    LET i == s.location + 1
    IN IF Byte(t, i) = 0 /\ s.trailer > 0
       THEN [s EXCEPT !.location = i, !.trailer = @ - 1]
       ELSE Move([s EXCEPT !.location = i], IF Whole(t, i) THEN Byte(t, i) ELSE 1)

-----------------------------------------------------------------------------
(* The index: clindex_find and clindex_find_c                              *)

\* The binary search in a window of the runs.
Search(keys, x) ==
    LET bin[w \in (1 .. Len(keys) + 1) \X (0 .. Len(keys))] ==
            LET mid == (w[1] + w[2]) \div 2
            IN IF w[1] > w[2] THEN w[2]
               ELSE IF keys[mid] = x THEN mid
               ELSE IF keys[mid] > x THEN bin[<< w[1], mid - 1 >>]
               ELSE bin[<< mid + 1, w[2] >>]
    IN bin

\* The run that x belongs to: the last one whose start is at most x.  The newest
\* run is tried first.  0 is in front of the first run.
LastAtMost(keys, x) ==
    IF x >= keys[Len(keys)] THEN Len(keys) ELSE Search(keys, x)[<< 1, Len(keys) >>]

\* The scans of find and find_c: step from the largest visited character on for
\* as long as the cursor, in bytes or in characters, is in front of x.
Scanned(t, s, key, x) ==
    LET at[k \in 0 .. Len(t) + 2] ==
            IF k = 0 THEN [s EXCEPT !.location = s.maxbyte, !.clocation = s.maxchar]
            ELSE LET r == at[k - 1] IN IF r[key] < x THEN Step(t, r) ELSE r
    IN at

\* After the scan the cursors are put back.  The count of trailers is left as
\* the scan left it.
Scan(t, s, key, x) ==
    [Scanned(t, s, key, x)[Len(t) + 2]
        EXCEPT !.location = s.location, !.clocation = s.clocation]

\* A result of a search: the new state, and what was found.  A search that ends
\* in front of the first run reads before the arrays, which is undefined.
Found(s, at) == [cur |-> s, at |-> at]

ByRun(s, key, x, Position(_)) ==
    IF s.runs = << >> THEN Found(s, x)
    ELSE LET i == LastAtMost([j \in DOMAIN s.runs |-> s.runs[j][key]], x)
         IN IF i = 0 THEN Found([s EXCEPT !.broken = "before first run"], x)
                     ELSE Found(s, Position(s.runs[i]))

\* The macros B and C.
ByteInRun(r, c) == r.byte + r.blen * (c - r.char)
CharInRun(r, b) == r.char + (b - r.byte) \div r.blen

CharOfVisited(s, b) ==
    IF b = s.maxbyte THEN Found(s, s.maxchar)
    ELSE ByRun(s, "byte", b, LAMBDA r : CharInRun(r, b))

\* marpatcl_rtc_clindex_find_c: the character of a byte position, with the
\* ASSERT after the scan.
FindChar(t, s, b) ==
    IF b <= s.maxbyte THEN CharOfVisited(s, b)
    ELSE LET e == Scan(t, s, "location", b)
         IN IF b <= e.maxbyte THEN CharOfVisited(e, b)
            ELSE Found([e EXCEPT !.broken = "scan"], b)

\* marpatcl_rtc_clindex_find: the byte of a character position.  Of a character
\* of several bytes it is the first one.
FindByte(t, s, c) ==
    IF c = s.maxchar THEN Found(s, s.maxbyte)
    ELSE IF c > s.maxchar
    THEN LET e == Scan(t, s, "clocation", c) IN Found(e, e.maxbyte)
    ELSE ByRun(s, "char", c, LAMBDA r : ByteInRun(r, c))

-----------------------------------------------------------------------------
(* The cursors moved                                                       *)

\* Mutant: the character cursor stays.
MoveByteOnly(t, s, d) == [s EXCEPT !.location = @ + d]

\* marpatcl_rtc_inbound_move_byte
MoveByte(t, s, d) ==
    LET f == FindChar(t, [s EXCEPT !.location = @ + d], s.location + d)
    IN [f.cur EXCEPT !.clocation = f.at]

\* marpatcl_rtc_inbound_moveto and _moveby
MoveTo(t, s, c) ==
    LET f == FindByte(t, [s EXCEPT !.clocation = c], c)
    IN [f.cur EXCEPT !.location = f.at]

\* marpatcl_rtc_gate_redo
Redo(t, s, n) == IF n = 0 THEN s ELSE MoveByte(t, s, -n)

-----------------------------------------------------------------------------
(* What the text says: the reference for the index                         *)

\* Bytes that start a character.  Byte Len(t) is the \0 behind the text.
Starts(t) ==
    { i \in 0 .. Len(t) : \A j \in 0 .. i-1 : Whole(t, j) => j + Byte(t, j) <= i }

CharOf(t, b)  == Cardinality({ i \in Starts(t) : i <= b }) - 1
StartOf(t, c) == CHOOSE i \in Starts(t) : CharOf(t, i) = c
CharCount(t)  == Cardinality(Starts(t)) - 1

\* Character c takes one byte.
Single(t, c) == ~ Whole(t, StartOf(t, c))

-----------------------------------------------------------------------------
(* The discipline of the users                                             *)

\* The byte to read after byte b is not one of the middle of a character.
Between(t, b) == "inside" \notin Uses => Byte(t, b + 1) # 0

\* A position to search for is not in front of the first one.
Behind(x) == "first" \notin Uses => x >= 0

\* A position in characters, c, is that of a single byte, and no trailer follows.
Narrow(c) ==
    "wide" \notin Uses /\ c >= 0 =>
        Single(text, c) /\ Byte(text, StartOf(text, c) + 1) # 0

\* The scan to a place behind the visited part does not start with a trailer.
Scannable == "wide" \notin Uses => Byte(text, cur.maxbyte + 1) # 0

-----------------------------------------------------------------------------
(* Actions                                                                 *)

\* marpatcl_rtc_inbound_enter up to its loop, for a given text.  Its moveto is
\* to the place where the cursors are.
Entered(t) ==
    /\ text = t /\ psize = Len(t) /\ csize = - Len(t)
    /\ cur = Start /\ cstop = -2
    /\ begin = -1 /\ pc = "loop" /\ calls = 0 /\ asked = None

Init == \E t \in Texts : Entered(t)

\* marpatcl_rtc_enter, for another text, with marpatcl_rtc_inbound_reset and
\* marpatcl_rtc_clindex_reset.
Process(t) ==
    /\ pc = "idle"
    /\ text' = t /\ psize' = Len(t) /\ csize' = - Len(t)
    /\ cur' = Start /\ cstop' = -2
    /\ begin' = -1 /\ pc' = "loop" /\ calls' = 0 /\ asked' = None

\* After a step of the cursors: undefined behaviour and ASSERTs end the run.
Continue(next) == pc' = IF cur'.broken = "no" THEN next ELSE "crashed"

\* The loop of marpatcl_rtc_inbound_enter: stop marker, end of the primary
\* input, end of an extension, or a byte to read.
ReachStop ==
    /\ pc = "loop" /\ cur.clocation = cstop
    /\ cstop' = -2
    /\ pc' = "handler"
    /\ asked' = None
    /\ UNCHANGED << text, psize, csize, cur, begin, calls >>

\* gate_eof: the last match is completed, which may give n bytes back.
ReachEof(n, next) ==
    /\ pc = "loop" /\ cur.clocation # cstop /\ cur.location = psize - 1
    /\ cur.location - n >= begin
    /\ n > 0 => Between(text, cur.location - n) /\ Behind(cur.location - n)
    /\ cur' = Redo(text, cur, n)
    /\ begin' = cur'.location
    /\ Continue(IF next = "loop" /\ cur'.location = psize - 1 THEN "idle" ELSE next)
    /\ asked' = None
    /\ UNCHANGED << text, psize, csize, cstop, calls >>

\* The over event, after which `process` fails.
ReachOver ==
    /\ pc = "loop" /\ cur.clocation # cstop /\ cur.location # psize - 1
    /\ cur.location = Len(text) - 1
    /\ pc' = "idle"
    /\ UNCHANGED << text, psize, csize, cstop, cur, begin, calls, asked >>

Reading ==
    /\ pc = "loop" /\ cur.clocation # cstop
    /\ cur.location # psize - 1 /\ cur.location # Len(text) - 1

\* A byte that the gate accepts and the match goes on.
Accept ==
    /\ Reading
    /\ cur' = Step(text, cur)
    /\ Continue("loop")
    /\ asked' = None
    /\ UNCHANGED << text, psize, csize, cstop, begin, calls >>

\* A byte that the gate accepts and that ends the match, n bytes ahead of it.
\* An event of the match runs its handler.
AcceptLast(n, next) ==
    /\ Reading
    /\ LET s == Step(text, cur)
       IN /\ s.location - n > begin
          /\ Between(text, s.location - n) /\ Behind(s.location - n)
          /\ cur' = Redo(text, s, n)
    /\ begin' = cur'.location
    /\ Continue(next)
    /\ asked' = None
    /\ UNCHANGED << text, psize, csize, cstop, calls >>

\* A byte that the gate refuses.  It goes back, and the match that is completed
\* gives n more bytes back.
Refuse(n, next) ==
    /\ Reading
    /\ cur.location - n >= begin
    /\ Between(text, cur.location) /\ Between(text, cur.location - n)
    /\ Behind(cur.location) /\ Behind(cur.location - n)
    /\ cur' = LET s == MoveByte(text, Step(text, cur), -1)
              IN IF s.broken = "no" THEN Redo(text, s, n) ELSE s
    /\ begin' = cur'.location
    /\ Continue(next)
    /\ asked' = None
    /\ UNCHANGED << text, psize, csize, cstop, calls >>

-----------------------------------------------------------------------------
(* The handler of an event, and the match facade                           *)

Calling == pc = "handler" /\ calls < MaxCalls /\ calls' = calls + 1

\* Mutant: the location is not converted.
CallFromBehind(p) ==
    /\ Calling
    /\ cur.location = begin
    /\ Narrow(p - 1) /\ (Behind(p - 1) \/ p - 1 = cur.maxchar)
    /\ p - 1 > cur.maxchar => Scannable
    /\ cur' = MoveTo(text, cur, p)
    /\ begin' = cur'.location
    /\ asked' = p
    /\ Continue("handler")
    /\ UNCHANGED << text, psize, csize, cstop >>

\* from and from+, and the way back to the start of a lexeme (lexer.c:644).  It
\* restarts the match: only handlers between two matches move.  The place asked
\* for is one of 0 .. size, and size is of the text.
CallFrom(p) ==
    /\ Calling
    /\ cur.location = begin
    /\ Narrow(p - 1) /\ (Behind(p - 1) \/ p - 1 = cur.maxchar)
    /\ p - 1 > cur.maxchar => Scannable
    /\ cur' = MoveTo(text, cur, p - 1)
    /\ begin' = cur'.location
    /\ asked' = p
    /\ Continue("handler")
    /\ UNCHANGED << text, psize, csize, cstop >>

\* to, limit and dont-stop
CallTo(c) ==
    /\ Calling
    /\ Narrow(c)
    /\ cstop' = c
    /\ UNCHANGED << text, psize, csize, cur, begin, pc, asked >>

\* Mutant: the character of the last byte instead of what is behind it.
CallLastByte ==
    /\ Calling
    /\ Scannable
    /\ IF csize < 0
       THEN LET f == FindChar(text, cur, - csize - 1)
            IN cur' = f.cur /\ csize' = f.at
       ELSE UNCHANGED << cur, csize >>
    /\ Continue("handler")
    /\ UNCHANGED << text, psize, cstop, begin, asked >>

\* last (marpatcl_rtc_inbound_last): the size in characters is computed when it
\* is asked for, by looking for the end of the primary input.
CallLast ==
    /\ Calling
    /\ Scannable
    /\ IF csize < 0
       THEN LET f == FindChar(text, cur, - csize)
            IN cur' = f.cur /\ csize' = f.at
       ELSE UNCHANGED << cur, csize >>
    /\ Continue("handler")
    /\ UNCHANGED << text, psize, cstop, begin, asked >>

\* marpatcl_rtc_inbound_enter_more
Extended(t, x) == t \o << 1 >> \o x

CallExtend(x) ==
    /\ Calling
    /\ text' = Extended(text, x)
    /\ UNCHANGED << psize, csize, cstop, cur, begin, pc, asked >>

\* The handler returns.
HandlerDone ==
    /\ pc = "handler"
    /\ pc' = "loop"
    /\ UNCHANGED << text, psize, csize, cstop, cur, begin, calls, asked >>

Next ==
    \/ \E t \in Texts : Process(t)
    \/ ReachStop \/ ReachOver \/ Accept
    \/ \E n \in 0 .. Len(text), next \in {"loop", "handler"} :
           ReachEof(n, next) \/ AcceptLast(n, next) \/ Refuse(n, next)
    \/ \E p \in 0 .. CharCount(text) : CallFrom(p)
    \/ \E c \in -2 .. CharCount(text) - 1 : CallTo(c)
    \/ CallLast
    \/ \E x \in Extensions : CallExtend(x)
    \/ HandlerDone

Spec == Init /\ [][Next]_vars

-----------------------------------------------------------------------------
(* Properties                                                              *)

\* The two cursors are at the same place: the character cursor names the
\* character that the byte cursor is in, after any order of reading, giving back
\* and moving.  Locations in events, errors and values are characters.
CursorsAgree ==
    pc # "crashed" => cur.clocation = CharOf(text, cur.location)

\* The index answers for everything visited as the text does, in both
\* directions, also across malformed bytes and after an extension.
IndexExact ==
    pc # "crashed" =>
        /\ \A c \in 0 .. cur.maxchar : FindByte(text, cur, c).at = StartOf(text, c)
        /\ \A b \in 0 .. cur.maxbyte : FindChar(text, cur, b).at = CharOf(text, b)

\* The size is "the same, in characters" (inbound.h) once it is known.
LengthExact ==
    csize > 0 => csize = CharCount(SubSeq(text, 1, psize))

\* "match from F: Move location to F. Resume processing with F": the next byte
\* is the first one of the character asked for.
ResumesAtTarget ==
    asked # None /\ pc # "crashed" => cur.location + 1 = StartOf(text, asked)

\* "`high` points to the highest entry less than the target" (clindex.c), so
\* there is one.
EntryExists == cur.broken # "before first run"

=============================================================================
