----------------------------- MODULE MultiStop -----------------------------
(***************************************************************************)
(* The management of stop markers (multi-stop/multi-stop.tcl) on top of an *)
(* engine with the Tcl runtime.                                            *)
(*                                                                         *)
(* The engine has one stop marker.  The manager keeps any number of them,  *)
(* by name, and sets the marker of the engine to the next one whenever the *)
(* set of markers or the location changes through it.  When the engine     *)
(* stops there, the manager runs the actions of all markers of the place.  *)
(*                                                                         *)
(* Of the engine, its input loop (runtime-tcl/inbound.tcl), the conversion *)
(* of locations (gate.tcl) and the rules of access for handlers (match.tcl)*)
(* are modelled; what the lexer makes of the characters is open.  The input*)
(* is a number of characters.  Locations inside of the engine are those of *)
(* the character read last, locations outside of the one to read next.     *)
(*                                                                         *)
(* A match may give characters back without the manager being told.  `Uses`*)
(* are the uses of the adapter for which the marker of the engine is then, *)
(* or for another reason, not the next one.                                *)
(*                                                                         *)
(* A definition whose comment starts with "Mutant" is a wrong version of   *)
(* the one it precedes, for the mutation runs.                             *)
(***************************************************************************)
EXTENDS Integers

CONSTANTS
    Names,      \* Names of markers.
    Commands,   \* Actions of markers, see Command.
    Sizes,      \* Sizes of the input, in characters.
    Lengths,    \* Sizes of what handlers extend it by.
    Uses,       \* The kinds of use, see UseKinds.
    MaxSize,    \* Bound: characters in all.
    MaxCalls    \* Bound: calls of handlers in one `process`.

\* What a marker does: nothing, the special forms @from, @from+ and @eof, or a
\* handler.
Command == [op : {"none", "from", "from+", "eof", "handler"}, arg : Int]

\* "again"   process, with markers of the process before
\* "behind"  a marker in the part of the input that a match may still give back
UseKinds == {"again", "behind"}

ASSUME CommandAssumption == Commands \subseteq Command
ASSUME SizeAssumption == Sizes \subseteq 1 .. MaxSize /\ Lengths \subseteq Nat
ASSUME UseAssumption == Uses \subseteq UseKinds /\ MaxSize \in Nat /\ MaxCalls \in Nat

NoStop == -2

VARIABLES
    \* The engine
    max,       \* mymax: the last character of the primary input.
    sentinel,  \* mysentinel: the last character of all.
    location,  \* mylocation: the character read last.
    begin,     \* The character nothing before which is given back.
    stop,      \* mystoplocation
    event,     \* The event in force, which decides on access.
    \* The manager and its caller
    tables,    \* mypos, myname, myindex and myaction, see Tables.
    todo,      \* EVENT: the actions that still have to run.
    pc,        \* What runs: "loop", "acting" (EVENT), "handler", "nested" (a
               \* handler called from the barrier of another), "idle", "failed".
    cause,     \* The event that the outer handler was called for.
    calls      \* Calls of handlers in this process.

engine == << max, sentinel, location, begin, stop >>
vars == << engine, event, tables, todo, pc, cause, calls >>

-----------------------------------------------------------------------------
(* The tables of the manager                                               *)

Without(f, xs) == [x \in DOMAIN f \ xs |-> f[x]]
With(f, x, v)  == [y \in DOMAIN f \cup {x} |-> IF y = x THEN v ELSE f[y]]

\* pos     mypos, name -> location
\* name    myname, location -> names there.  Of the list only its elements are
\*         kept: the actions of a place run in any order here.
\* index   myindex, the marked locations, sorted
\* action  myaction, name -> command
NoMarkers == [pos |-> [n \in {} |-> 0], name |-> [p \in {} |-> {}], index |-> {},
              action |-> [n \in {} |-> 0]]

\* Mutant: a location stays in the index when its last marker leaves.
CancelKeepsIndex(t, n) ==
    LET p    == t.pos[n]
        last == t.name[p] = {n}
    IN [pos    |-> Without(t.pos, {n}),
        name   |-> IF last THEN Without(t.name, {p}) ELSE With(t.name, p, t.name[p] \ {n}),
        index  |-> t.index,
        action |-> Without(t.action, {n})]

\* Cancel, without the call of RecomputeActive
Cancel(t, n) ==
    LET p    == t.pos[n]
        last == t.name[p] = {n}
    IN [pos    |-> Without(t.pos, {n}),
        name   |-> IF last THEN Without(t.name, {p}) ELSE With(t.name, p, t.name[p] \ {n}),
        index  |-> IF last THEN t.index \ {p} ELSE t.index,
        action |-> Without(t.action, {n})]

Known(t, n) == n \in DOMAIN t.pos

\* mark-add: "Clear existing marker, new definition replaces it."
Add(t, n, p, c) ==
    LET u == IF Known(t, n) THEN Cancel(t, n) ELSE t
    IN [pos    |-> With(u.pos, n, p),
        name   |-> With(u.name, p, {n} \cup IF p \in DOMAIN u.name THEN u.name[p] ELSE {}),
        index  |-> IF p \in DOMAIN u.name THEN u.index ELSE u.index \cup {p},
        action |-> With(u.action, n, c)]

\* EVENT: the markers of a location are taken out ...
TakeOut(t, p) ==
    [pos    |-> Without(t.pos, t.name[p]),
     name   |-> Without(t.name, {p}),
     index  |-> t.index \ {p},
     action |-> Without(t.action, t.name[p])]

\* ... to run their actions.
Taken(t, p) == {<< n, t.action[n] >> : n \in t.name[p]}

\* Mutant: the active marker is the next one behind the location.
ActiveBehind(t, at, s) ==
    IF \E p \in t.index : p > at
    THEN \E p \in t.index : p > at /\ s = p - 1 /\ \A q \in t.index : q > at => p <= q
    ELSE s = NoStop

\* RecomputeActive: "the smallest marked location above (or equal to) the current
\* location" becomes the marker of the engine.  `to` takes it for the character
\* to stop before, the engine for the one to stop after.
Active(t, at, s) ==
    IF \E p \in t.index : p >= at
    THEN \E p \in t.index : p >= at /\ s = p - 1 /\ \A q \in t.index : q >= at => p <= q
    ELSE s = NoStop

Stops(t) == {NoStop} \cup {p - 1 : p \in t.index}

-----------------------------------------------------------------------------
(* The facade: locations and access                                        *)

\* match location, from and last
Location == location + 1
Inside(p) == p - 1
Last == max

\* from, from+, `to` and `dont-stop` ask for one of these events ("match" stands
\* for discard, before and after), which leaves out the end of an extension.
MayMove == event \in {"stop", "match"}

\* An error is thrown through the handler and the loop.  event! takes the event
\* back on the way.
Throw == pc' = "failed" /\ event' = "none"

\* RecomputeActive, after a change of the tables or the location.
SetActive ==
    \E s \in Stops(tables') : Active(tables', location' + 1, s) /\ stop' = s

\* The same at the end of a call that the engine may refuse: what was done to
\* the tables stays done.
Recompute ==
    IF MayMove THEN SetActive /\ UNCHANGED << pc, event >>
               ELSE Throw /\ UNCHANGED stop

-----------------------------------------------------------------------------
(* The input loop of the engine                                            *)

\* enter: the options of `process` are locations outside of the engine.
Entered(n, from, to) ==
    /\ max' = n - 1 /\ sentinel' = n - 1
    /\ location' = Inside(from) /\ begin' = Inside(from)
    /\ stop' = to
    /\ event' = "none" /\ todo' = {} /\ pc' = "loop" /\ cause' = "none" /\ calls' = 0

Init ==
    /\ max \in {n - 1 : n \in Sizes} /\ sentinel = max
    /\ location \in -1 .. max /\ begin = location
    /\ stop \in {NoStop} \cup (-1 .. max)
    /\ tables = NoMarkers
    /\ event = "none" /\ todo = {} /\ pc = "loop" /\ cause = "none" /\ calls = 0

Process(n, from, to) ==
    /\ pc = "idle"
    /\ "again" \in Uses \/ tables.pos = NoMarkers.pos
    /\ Entered(n, from, to)
    /\ UNCHANGED tables

\* A match of the lexer is completed: the characters behind `last` are given
\* back, and an event calls its handler.  For a before event the input is moved
\* to the start of the lexeme.  What was read before a jump is not given back.
Complete(last, ev) ==
    /\ location' = IF ev = "before" THEN begin ELSE last
    /\ begin' = location'

Events == {"none", "before", "after"}   \* A discard event is as an after event.

Looping == pc = "loop" /\ location # stop

Read ==
    /\ Looping /\ location \notin {max, sentinel}
    /\ location' = location + 1
    /\ UNCHANGED << max, sentinel, begin, stop, event, tables, todo, pc, cause, calls >>

\* The next character is the last one of a match, or ends it.
ReadLast(last, ev) ==
    /\ Looping /\ location \notin {max, sentinel}
    /\ last \in begin + 1 .. location + 1
    /\ Complete(last, ev)
    /\ IF ev = "none" THEN UNCHANGED << pc, cause, event >>
                       ELSE pc' = "handler" /\ cause' = "match" /\ event' = "match"
    /\ UNCHANGED << max, sentinel, stop, tables, todo, calls >>

\* The end of the primary input: the match under way is completed.
ReachEof(last, ev) ==
    /\ Looping /\ location = max
    /\ \/ last \in begin + 1 .. location
       \/ begin = location /\ last = location /\ ev = "none"
    /\ Complete(last, ev)
    /\ IF ev = "none"
       THEN /\ pc' = IF location' = max THEN "idle" ELSE "loop"
            /\ UNCHANGED << cause, event >>
       ELSE pc' = "handler" /\ cause' = "eof" /\ event' = "match"
    /\ UNCHANGED << max, sentinel, stop, tables, todo, calls >>

\* The end of an extension.  Only some of the facade works for this event.
Overrun ==
    /\ Looping /\ location # max /\ location = sentinel
    /\ pc' = "handler" /\ cause' = "over" /\ event' = "over"
    /\ UNCHANGED << engine, tables, todo, calls >>

\* No lexeme, or one the parser does not take.
LoopFails ==
    /\ Looping
    /\ Throw
    /\ UNCHANGED << engine, tables, todo, cause, calls >>

-----------------------------------------------------------------------------
(* EVENT for a stop event                                                  *)

\* "Clear the triggered markers from our datastructures"
StopEvent ==
    /\ pc = "loop" /\ location = stop
    /\ Location \in DOMAIN tables.name
    /\ stop' = NoStop
    /\ event' = "stop" /\ cause' = "stop" /\ pc' = "acting"
    /\ todo' = Taken(tables, Location)
    /\ tables' = TakeOut(tables, Location)
    /\ UNCHANGED << max, sentinel, location, begin, calls >>

\* The stop marker of `process` itself, where none of the manager is:
\* `dict get $myname $pos` fails.
StopEventFails ==
    /\ pc = "loop" /\ location = stop
    /\ Location \notin DOMAIN tables.name
    /\ stop' = NoStop
    /\ cause' = "stop" /\ Throw
    /\ UNCHANGED << max, sentinel, location, begin, tables, todo, calls >>

\* The places that @from, @from+ and @eof move to.  They are of the input.
Target(c) ==
    CASE c.op = "from"  -> c.arg
      [] c.op = "from+" -> Location + c.arg
      [] c.op = "eof"   -> Last

Jumps(d) == d[2].op \in {"from", "from+", "eof"}

\* An action is empty, ...
Skip(d) ==
    /\ pc = "acting" /\ d \in todo /\ d[2].op = "none"
    /\ todo' = todo \ {d}
    /\ UNCHANGED << engine, event, tables, pc, cause, calls >>

\* ... one of the special forms, ...
JumpTo(d) ==
    /\ pc = "acting" /\ d \in todo /\ Jumps(d)
    /\ MayMove
    /\ Target(d[2]) \in 0 .. sentinel + 1
    /\ todo' = todo \ {d}
    /\ location' = Inside(Target(d[2])) /\ begin' = location'
    /\ UNCHANGED << max, sentinel, stop, event, tables, pc, cause, calls >>

\* ... or a handler.
Call(d) ==
    /\ pc = "acting" /\ d \in todo /\ d[2].op = "handler"
    /\ todo' = todo \ {d}
    /\ pc' = "handler"
    /\ UNCHANGED << engine, event, tables, cause, calls >>

\* All actions have run, see RecomputeActive.
EventDone ==
    /\ pc = "acting" /\ todo = {}
    /\ MayMove
    /\ pc' = "loop" /\ event' = "none"
    /\ UNCHANGED << max, sentinel, location, begin, tables, todo, cause, calls >>
    /\ SetActive

\* The event is no longer in force, see NestedReturn.
EventFails ==
    /\ pc = "acting"
    /\ ~ MayMove
    /\ todo = {} \/ \E d \in todo : Jumps(d)
    /\ Throw
    /\ UNCHANGED << engine, tables, todo, cause, calls >>

-----------------------------------------------------------------------------
(* Handlers                                                                *)

InHandler == pc \in {"handler", "nested"}
Calling == InHandler /\ calls < MaxCalls /\ calls' = calls + 1

\* Inside of the match under way, behind the location.
Behind(p) == Inside(p) \in begin .. location - 1

MarkAdd(n, p, c) ==
    /\ Calling
    /\ "behind" \in Uses \/ ~ Behind(p)
    /\ tables' = Add(tables, n, p, c)
    /\ UNCHANGED << max, sentinel, location, begin, todo, cause >>
    /\ Recompute

\* A name that is not known is an error, see HandlerFails.  When the marker was
\* not the only one of its place there is nothing to recompute.
MarkCancel(n) ==
    /\ Calling
    /\ Known(tables, n)
    /\ tables' = Cancel(tables, n)
    /\ UNCHANGED << max, sentinel, location, begin, todo, cause >>
    /\ IF tables.name[tables.pos[n]] = {n} THEN Recompute
       ELSE UNCHANGED << stop, pc, event >>

\* Mutant: the marker of the engine stays after a move.
FromOnly(p) ==
    /\ Calling
    /\ MayMove
    /\ location' = Inside(p) /\ begin' = location'
    /\ UNCHANGED << max, sentinel, stop, tables, todo, cause, pc, event >>

\* from and from+, through RA.
From(p) ==
    /\ Calling
    /\ MayMove
    /\ location' = Inside(p) /\ begin' = location'
    /\ UNCHANGED << max, sentinel, event, tables, todo, pc, cause >>
    /\ SetActive

\* enter-more
Extend(k) ==
    /\ Calling
    /\ sentinel + 1 + k < MaxSize
    /\ sentinel' = sentinel + 1 + k
    /\ UNCHANGED << max, location, begin, stop, event, tables, todo, pc, cause >>

\* barrier: the match is completed as at the end of the input, before the stop
\* handler goes on.  An event of the match calls its handler from in here.
Barrier(last, ev) ==
    /\ Calling
    /\ pc = "handler" /\ event = "stop"
    /\ last \in begin + 1 .. location
    /\ Complete(last, ev)
    /\ IF ev = "none" THEN UNCHANGED << pc, event >>
                       ELSE pc' = "nested" /\ event' = "match"
    /\ UNCHANGED << max, sentinel, stop, tables, todo, cause >>

\* event! does not restore the event that was in force, but sets none.
NestedReturn ==
    /\ pc = "nested"
    /\ pc' = "handler" /\ event' = "none"
    /\ UNCHANGED << engine, tables, todo, cause, calls >>

\* An action is done, the next one follows.
ActionReturn ==
    /\ pc = "handler" /\ cause = "stop"
    /\ pc' = "acting"
    /\ UNCHANGED << engine, event, tables, todo, cause, calls >>

\* The handler of another event returns to the loop.
HandlerReturn ==
    /\ pc = "handler" /\ cause # "stop"
    /\ event' = "none"
    /\ pc' = CASE cause = "match" -> "loop"
               [] cause = "eof"   -> IF location = max THEN "idle" ELSE "loop"
               [] cause = "over"  -> "failed"
    /\ UNCHANGED << engine, tables, todo, cause, calls >>

\* An error of the handler, or of a call that is refused and changes nothing.
HandlerFails ==
    /\ InHandler
    /\ Throw
    /\ UNCHANGED << engine, tables, todo, cause, calls >>

Loop ==
    \/ Read \/ Overrun \/ LoopFails \/ StopEvent \/ StopEventFails
    \/ \E last \in begin .. location + 1, ev \in Events :
           ReadLast(last, ev) \/ ReachEof(last, ev)

Acting ==
    \/ \E d \in todo : Skip(d) \/ JumpTo(d) \/ Call(d)
    \/ EventDone \/ EventFails

Handling ==
    \/ \E n \in Names, p \in 0 .. sentinel + 1, c \in Commands : MarkAdd(n, p, c)
    \/ \E n \in Names : MarkCancel(n)
    \/ \E p \in 0 .. sentinel + 1 : From(p)
    \/ \E k \in Lengths : Extend(k)
    \/ \E last \in begin .. location, ev \in Events : Barrier(last, ev)
    \/ NestedReturn \/ ActionReturn \/ HandlerReturn \/ HandlerFails

Next ==
    \/ \E n \in Sizes : \E from \in 0 .. n, to \in NoStop .. n - 1 : Process(n, from, to)
    \/ Loop \/ Acting \/ Handling

Spec == Init /\ [][Next]_vars

-----------------------------------------------------------------------------
(* Properties                                                              *)

\* The four tables tell the same, whatever was put, replaced, canceled or
\* triggered, and also after a call that was refused half way.
Agree(t) ==
    /\ DOMAIN t.action = DOMAIN t.pos
    /\ DOMAIN t.name = t.index
    /\ \A n \in DOMAIN t.pos : t.pos[n] \in t.index
    /\ \A p \in t.index : t.name[p] # {} /\ t.name[p] = {n \in DOMAIN t.pos : t.pos[n] = p}

TablesAgree == Agree(tables)

\* When the engine reads, its one marker is the next of all markers: after any
\* sequence of moves, of characters given back, and of handlers that put and
\* cancel markers while others run.  As long as there are no markers it may be
\* the one of `process`.
StopIsNext ==
    pc = "loop" =>
        /\ stop # NoStop /\ tables.index # {} =>
               stop >= location /\ stop + 1 \in DOMAIN tables.name
        /\ \A n \in DOMAIN tables.pos :
               tables.pos[n] >= Location => stop # NoStop /\ stop + 1 <= tables.pos[n]

\* What an onlooker sees of the tables, and of what runs.
MarksOf(t) == [n \in DOMAIN t.pos |-> [pos |-> t.pos[n], cmd |-> t.action[n]]]

Phase == IF pc = "loop" THEN "reading"
         ELSE IF pc = "acting" THEN "acting"
         ELSE IF InHandler THEN "calling" ELSE "done"

Marks == INSTANCE Markers WITH
    Places <- 0 .. MaxSize, at <- Location, marks <- MarksOf(tables),
    due <- todo, phase <- Phase

\* The adapter keeps what it promises: no marked place is read past, and all
\* markers of a place go off together (see Markers).
ImplementsMarkers == Marks!Spec

\* "The expected reaction to a bounce is the restoration of the stop marker"
\* (inbound.tcl), which a handler is permitted to do: while the action of a
\* marker runs, its event is in force.
CanRestore == pc = "handler" /\ cause = "stop" => event = "stop"

\* "Clear existing marker, new definition replaces it" (multi-stop.tcl): the
\* action of the definition that was replaced does not run any more.
Replaced == \A d \in todo : ~ Known(tables, d[1])

\* "@eof - jump to EOF trigger location" (multi-stop.tcl)
EofJumpEnds ==
    [][\A d \in todo \ todo' : d[2].op = "eof" /\ pc' = "acting" => location' = max]_vars

=============================================================================
