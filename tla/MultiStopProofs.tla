--------------------------- MODULE MultiStopProofs ---------------------------
(***************************************************************************)
(* Proofs about MultiStop, for any names, actions, sizes and bounds: the   *)
(* tables agree, and, with the uses of the adapter that `Uses` = {} leaves,*)
(* the marker of the engine is the next one and the adapter implements     *)
(* Markers.                                                                *)
(*                                                                         *)
(* The marker of the engine is set when the manager has the control, and   *)
(* may become wrong when the engine has it.  It does not, because no marker*)
(* is in the part of the input that can be given back (NoneBehind).        *)
(***************************************************************************)
EXTENDS MultiStop, TLAPS

Good(t) == t.index \subseteq Int /\ Agree(t)

\* The markers with one put.
Placed(m, n, p, c) ==
    [x \in DOMAIN m \cup {n} |-> IF x = n THEN [pos |-> p, cmd |-> c] ELSE m[x]]

-----------------------------------------------------------------------------
(* The tables                                                              *)

LEMMA NoMarkersGood == Good(NoMarkers)
BY DEF Good, Agree, NoMarkers

LEMMA CancelGood ==
    ASSUME NEW t, Good(t), NEW n, Known(t, n)
    PROVE  /\ Good(Cancel(t, n))
           /\ Cancel(t, n).index \subseteq t.index
           /\ t.name[t.pos[n]] # {n} => Cancel(t, n).index = t.index
           /\ Cancel(t, n).pos = [x \in DOMAIN t.pos \ {n} |-> t.pos[x]]
           /\ Cancel(t, n).action = [x \in DOMAIN t.pos \ {n} |-> t.action[x]]
<1> DEFINE p == t.pos[n]
           last == t.name[p] = {n}
           c == Cancel(t, n)
<1>1. /\ p \in t.index /\ n \in t.name[p]
      /\ DOMAIN t.action = DOMAIN t.pos /\ DOMAIN t.name = t.index
  BY DEF Good, Agree, Known
<1>2. /\ c.pos = [x \in DOMAIN t.pos \ {n} |-> t.pos[x]]
      /\ c.action = [x \in DOMAIN t.pos \ {n} |-> t.action[x]]
      /\ c.index = IF last THEN t.index \ {p} ELSE t.index
  BY <1>1 DEF Cancel, Without
<1>3. CASE last
  <2>1. c.name = [x \in t.index \ {p} |-> t.name[x]]
    BY <1>1, <1>3 DEF Cancel, Without
  <2>2. Agree(c)
    BY <1>1, <1>2, <1>3, <2>1 DEF Good, Agree
  <2> QED BY <1>2, <1>3, <2>2 DEF Good
<1>4. CASE ~ last
  <2>1. c.name = [x \in t.index |-> IF x = p THEN t.name[p] \ {n} ELSE t.name[x]]
    BY <1>1, <1>4 DEF Cancel, With
  <2>2. t.name[p] \ {n} # {}
    BY <1>1, <1>4
  <2>3. Agree(c)
    BY <1>1, <1>2, <1>4, <2>1, <2>2 DEF Good, Agree
  <2> QED BY <1>2, <1>4, <2>3 DEF Good
<1> QED BY <1>3, <1>4

LEMMA AddGood ==
    ASSUME NEW t, Good(t), NEW n, NEW p \in Int, NEW c
    PROVE  /\ Good(Add(t, n, p, c))
           /\ Add(t, n, p, c).index \subseteq t.index \cup {p}
           /\ MarksOf(Add(t, n, p, c)) = Placed(MarksOf(t), n, p, c)
<1> DEFINE u == IF Known(t, n) THEN Cancel(t, n) ELSE t
           a == Add(t, n, p, c)
<1>1. /\ Good(u) /\ u.index \subseteq t.index
      /\ DOMAIN u.pos = DOMAIN t.pos \ {n}
      /\ \A x \in DOMAIN t.pos \ {n} : u.pos[x] = t.pos[x] /\ u.action[x] = t.action[x]
  <2>1. CASE Known(t, n)
    <3>1. u = Cancel(t, n)
      BY <2>1
    <3>2. /\ Good(Cancel(t, n)) /\ Cancel(t, n).index \subseteq t.index
          /\ Cancel(t, n).pos = [x \in DOMAIN t.pos \ {n} |-> t.pos[x]]
          /\ Cancel(t, n).action = [x \in DOMAIN t.pos \ {n} |-> t.action[x]]
      BY <2>1, CancelGood
    <3> QED BY <3>1, <3>2
  <2>2. CASE ~ Known(t, n)
    <3>1. u = t
      BY <2>2
    <3> QED BY <2>2, <3>1 DEF Known
  <2> QED BY <2>1, <2>2
<1>2. /\ DOMAIN u.action = DOMAIN u.pos /\ DOMAIN u.name = u.index
      /\ u.index \subseteq Int
  BY <1>1 DEF Good, Agree
<1> HIDE DEF u
<1>3. a = [pos    |-> With(u.pos, n, p),
           name   |-> With(u.name, p, {n} \cup IF p \in DOMAIN u.name THEN u.name[p] ELSE {}),
           index  |-> IF p \in DOMAIN u.name THEN u.index ELSE u.index \cup {p},
           action |-> With(u.action, n, c)]
  BY DEF Add, u
<1>4. /\ a.pos = [x \in DOMAIN u.pos \cup {n} |-> IF x = n THEN p ELSE u.pos[x]]
      /\ a.action = [x \in DOMAIN u.pos \cup {n} |-> IF x = n THEN c ELSE u.action[x]]
      /\ a.name = [x \in u.index \cup {p} |->
                     IF x = p THEN {n} \cup IF p \in u.index THEN u.name[p] ELSE {}
                              ELSE u.name[x]]
      /\ a.index = u.index \cup {p}
  BY <1>2, <1>3 DEF With
<1> HIDE DEF a
<1>5. \A x \in a.index : a.name[x] # {} /\ a.name[x] = {y \in DOMAIN a.pos : a.pos[y] = x}
  <2> SUFFICES ASSUME NEW x \in a.index
               PROVE  a.name[x] # {} /\ a.name[x] = {y \in DOMAIN a.pos : a.pos[y] = x}
    OBVIOUS
  <2>1. n \notin DOMAIN u.pos
    BY <1>1
  <2>2. \A q \in u.index : u.name[q] # {} /\ u.name[q] = {y \in DOMAIN u.pos : u.pos[y] = q}
    BY <1>1 DEF Good, Agree
  <2>3. CASE x # p
    BY <1>4, <2>1, <2>2, <2>3
  <2>4. CASE x = p /\ p \in u.index
    BY <1>4, <2>1, <2>2, <2>4
  <2>5. CASE x = p /\ p \notin u.index
    <3>1. \A y \in DOMAIN u.pos : u.pos[y] # p
      BY <1>1, <2>5 DEF Good, Agree
    <3> QED BY <1>4, <2>1, <2>5, <3>1
  <2> QED BY <2>3, <2>4, <2>5
<1>6. Agree(a)
  <2>1. \A y \in DOMAIN a.pos : a.pos[y] \in a.index
    BY <1>1, <1>4 DEF Good, Agree
  <2> QED BY <1>4, <1>5, <2>1 DEF Agree
<1>7. MarksOf(a) = Placed(MarksOf(t), n, p, c)
  <2>1. DOMAIN a.pos = DOMAIN t.pos \cup {n}
    BY <1>1, <1>4
  <2>2. \A x \in DOMAIN a.pos : x # n => a.pos[x] = t.pos[x] /\ a.action[x] = t.action[x]
    BY <1>1, <1>4
  <2>3. a.pos[n] = p /\ a.action[n] = c
    BY <1>4
  <2> QED BY <2>1, <2>2, <2>3 DEF MarksOf, Placed
<1> QED BY <1>1, <1>2, <1>4, <1>6, <1>7 DEF Good, a

LEMMA TakeOutGood ==
    ASSUME NEW t, Good(t), NEW p \in DOMAIN t.name
    PROVE  /\ Good(TakeOut(t, p))
           /\ TakeOut(t, p).index \subseteq t.index
           /\ t.name[p] = {n \in DOMAIN MarksOf(t) : MarksOf(t)[n].pos = p}
           /\ t.name[p] # {}
           /\ MarksOf(TakeOut(t, p)) =
                [n \in DOMAIN MarksOf(t) \ t.name[p] |-> MarksOf(t)[n]]
           /\ Taken(t, p) = {<< n, MarksOf(t)[n].cmd >> : n \in t.name[p]}
<1> DEFINE o == TakeOut(t, p)
<1>1. /\ DOMAIN t.action = DOMAIN t.pos /\ DOMAIN t.name = t.index
      /\ t.name[p] # {} /\ t.name[p] = {n \in DOMAIN t.pos : t.pos[n] = p}
  BY DEF Good, Agree
<1>2. /\ o.pos = [n \in DOMAIN t.pos \ t.name[p] |-> t.pos[n]]
      /\ o.action = [n \in DOMAIN t.pos \ t.name[p] |-> t.action[n]]
      /\ o.name = [q \in t.index \ {p} |-> t.name[q]]
      /\ o.index = t.index \ {p}
  BY <1>1 DEF TakeOut, Without
<1>3. Agree(o)
  BY <1>1, <1>2 DEF Good, Agree
<1>4. t.name[p] = {n \in DOMAIN MarksOf(t) : MarksOf(t)[n].pos = p}
  BY <1>1 DEF MarksOf
<1>5. MarksOf(o) = [n \in DOMAIN MarksOf(t) \ t.name[p] |-> MarksOf(t)[n]]
  BY <1>1, <1>2 DEF MarksOf
<1>6. Taken(t, p) = {<< n, MarksOf(t)[n].cmd >> : n \in t.name[p]}
  BY <1>1 DEF Taken, MarksOf
<1> QED BY <1>1, <1>2, <1>3, <1>4, <1>5, <1>6 DEF Good

-----------------------------------------------------------------------------
(* The next marker                                                         *)

LEMMA ActiveMeans ==
    ASSUME NEW t, Good(t), NEW at \in Int, NEW s, Active(t, at, s)
    PROVE  /\ s \in Int
           /\ s # NoStop => s >= at - 1 /\ s + 1 \in t.index
           /\ \A p \in t.index : p >= at => s + 1 \in t.index /\ s + 1 <= p /\ s >= at - 1
<1>1. \A p \in t.index : p \in Int
  BY DEF Good
<1> QED BY <1>1 DEF Active, NoStop

LEMMA NextSame ==
    ASSUME NEW t, Good(t), NEW at \in Int, NEW bt \in Int, NEW s,
           Active(t, at, s),
           \A p \in t.index : p >= at <=> p >= bt
    PROVE  Active(t, bt, s)
<1>1. \A p \in t.index : p \in Int
  BY DEF Good
<1> QED BY <1>1 DEF Active

LEMMA SetActiveMeans ==
    ASSUME SetActive
    PROVE  Active(tables', location' + 1, stop')
BY DEF SetActive

-----------------------------------------------------------------------------
(* Types, order, and the tables                                            *)

Typed ==
    /\ max \in Int /\ sentinel \in Int /\ sentinel < MaxSize
    /\ location \in Int /\ begin \in Int /\ stop \in Int
    /\ location >= -1 /\ begin >= -1

\* Which event a handler runs for, and when actions are left to run.
Order ==
    /\ pc \in {"loop", "acting", "handler", "nested", "idle", "failed"}
    /\ pc = "handler" => cause \in {"stop", "match", "eof", "over"}
    /\ pc = "handler" /\ cause # "stop" => event \in {"match", "over"} /\ todo = {}
    /\ pc \in {"acting", "nested"} => cause = "stop"
    /\ pc = "loop" => todo = {}

Basis == Typed /\ Order /\ Good(tables)

LEMMA BasisInit == Init => Basis
<1> SUFFICES ASSUME Init PROVE Basis
  OBVIOUS
<1>1. max \in Int /\ max < MaxSize
  BY SizeAssumption, UseAssumption DEF Init, SizeAssumption, UseAssumption
<1>2. Typed
  BY <1>1 DEF Init, Typed, NoStop
<1>3. Order
  BY DEF Init, Order
<1> QED BY <1>2, <1>3, NoMarkersGood DEF Init, Basis

LEMMA StopTyped ==
    ASSUME NEW t, Good(t), NEW s \in Stops(t)
    PROVE  s \in Int
BY DEF Good, Stops, NoStop

LEMMA BasisStep == Basis /\ [Next]_vars => Basis'
<1> SUFFICES ASSUME Basis, [Next]_vars PROVE Basis'
  OBVIOUS
<1> USE DEF Basis
<1>1. ASSUME NEW n \in Sizes, NEW from \in 0 .. n, NEW to \in NoStop .. n - 1,
             Process(n, from, to)
      PROVE  Basis'
  <2>1. n \in 1 .. MaxSize /\ MaxSize \in Nat
    BY SizeAssumption, UseAssumption DEF SizeAssumption, UseAssumption
  <2>2. Typed'
    BY <1>1, <2>1 DEF Process, Entered, Typed, Inside, NoStop
  <2> QED BY <1>1, <2>2 DEF Process, Entered, Order, Good, Agree
<1>2. CASE Read
  BY <1>2 DEF Read, Looping, Typed, Order, Good, Agree
<1>3. CASE Overrun
  BY <1>3 DEF Overrun, Looping, Typed, Order, Good, Agree, engine
<1>4. CASE LoopFails
  BY <1>4 DEF LoopFails, Throw, Typed, Order, Good, Agree, engine
<1>5. CASE StopEvent
  <2>1. Good(tables')
    BY <1>5, TakeOutGood DEF StopEvent
  <2>2. Typed' /\ Order'
    BY <1>5 DEF StopEvent, Typed, Order, NoStop
  <2> QED BY <2>1, <2>2 DEF Good, Agree
<1>6. CASE StopEventFails
  BY <1>6 DEF StopEventFails, Throw, Typed, Order, NoStop, Good, Agree
<1>7. ASSUME NEW last \in begin .. location + 1, NEW ev \in Events,
             ReadLast(last, ev) \/ ReachEof(last, ev)
      PROVE  Basis'
  <2>1. last \in Int /\ location' \in Int /\ begin' = location' /\ location' >= -1
    BY <1>7 DEF ReadLast, ReachEof, Complete, Typed
  <2>2. Typed' /\ Good(tables)'
    BY <1>7, <2>1 DEF ReadLast, ReachEof, Typed, Good, Agree
  <2>3. CASE ReadLast(last, ev)
    BY <2>2, <2>3 DEF ReadLast, Looping, Order
  <2>4. CASE ReachEof(last, ev)
    BY <2>2, <2>4 DEF ReachEof, Looping, Order
  <2> QED BY <1>7, <2>3, <2>4
<1>8. ASSUME NEW d \in todo, Skip(d) \/ JumpTo(d) \/ Call(d)
      PROVE  Basis'
  <2>1. CASE Skip(d)
    BY <2>1 DEF Skip, engine, Typed, Order, Good, Agree
  <2>2. CASE JumpTo(d)
    <3>1. location' \in Int /\ location' >= -1
      BY <2>2 DEF JumpTo, Inside, Typed
    <3> QED BY <2>2, <3>1 DEF JumpTo, Typed, Order, Good, Agree
  <2>3. CASE Call(d)
    BY <2>3 DEF Call, engine, Typed, Order, Good, Agree
  <2> QED BY <1>8, <2>1, <2>2, <2>3
<1>9. CASE EventDone
  <2>1. stop' \in Int
    BY <1>9, StopTyped DEF EventDone, SetActive
  <2> QED BY <1>9, <2>1 DEF EventDone, Typed, Order, Good, Agree
<1>10. CASE EventFails
  BY <1>10 DEF EventFails, Throw, engine, Typed, Order, Good, Agree
<1>11. ASSUME NEW n \in Names, NEW p \in 0 .. sentinel + 1, NEW c \in Commands,
              MarkAdd(n, p, c)
       PROVE  Basis'
  <2>1. Good(tables')
    <3>1. p \in Int
      BY DEF Typed
    <3> QED BY <1>11, <3>1, AddGood DEF MarkAdd
  <2>2. stop' \in Int /\ (UNCHANGED << pc, event >> \/ Throw)
    BY <1>11, <2>1, StopTyped DEF MarkAdd, Recompute, SetActive, Typed
  <2>3. Typed'
    BY <1>11, <2>2 DEF MarkAdd, Typed
  <2>4. Order'
    BY <1>11, <2>2 DEF MarkAdd, Throw, Order
  <2> QED BY <2>1, <2>3, <2>4 DEF Good, Agree
<1>12. ASSUME NEW n \in Names, MarkCancel(n)
       PROVE  Basis'
  <2>1. Good(tables')
    BY <1>12, CancelGood DEF MarkCancel
  <2>2. stop' \in Int /\ (UNCHANGED << pc, event >> \/ Throw)
    BY <1>12, <2>1, StopTyped DEF MarkCancel, Recompute, SetActive, Typed
  <2>3. Typed'
    BY <1>12, <2>2 DEF MarkCancel, Typed
  <2>4. Order'
    BY <1>12, <2>2 DEF MarkCancel, Throw, Order
  <2> QED BY <2>1, <2>3, <2>4 DEF Good, Agree
<1>13. ASSUME NEW p \in 0 .. sentinel + 1, From(p)
       PROVE  Basis'
  <2>1. stop' \in Int
    BY <1>13, StopTyped DEF From, SetActive
  <2>2. location' \in Int /\ location' >= -1
    BY <1>13 DEF From, Inside, Typed
  <2> QED BY <1>13, <2>1, <2>2 DEF From, Typed, Order, Good, Agree
<1>14. ASSUME NEW k \in Lengths, Extend(k)
       PROVE  Basis'
  <2>1. k \in Nat
    BY SizeAssumption DEF SizeAssumption
  <2> QED BY <1>14, <2>1, UseAssumption DEF UseAssumption, Extend, Typed, Order, Good, Agree
<1>15. ASSUME NEW last \in begin .. location, NEW ev \in Events, Barrier(last, ev)
       PROVE  Basis'
  <2>1. location' \in Int /\ begin' = location' /\ location' >= -1
    BY <1>15 DEF Barrier, Complete, Typed
  <2>2. Typed' /\ Good(tables)'
    BY <1>15, <2>1 DEF Barrier, Typed, Good, Agree
  <2>3. Order'
    BY <1>15 DEF Barrier, Order
  <2> QED BY <2>2, <2>3
<1>16. CASE NestedReturn
  BY <1>16 DEF NestedReturn, engine, Typed, Order, Good, Agree
<1>17. CASE ActionReturn
  BY <1>17 DEF ActionReturn, engine, Typed, Order, Good, Agree
<1>18. CASE HandlerReturn
  <2>1. Order'
    BY <1>18 DEF HandlerReturn, Order
  <2> QED BY <1>18, <2>1 DEF HandlerReturn, engine, Typed, Good, Agree
<1>19. CASE HandlerFails
  BY <1>19 DEF HandlerFails, Throw, engine, Typed, Order, Good, Agree
<1>20. CASE UNCHANGED vars
  BY <1>20 DEF vars, engine, Typed, Order, Good, Agree
<1> QED
  BY <1>1, <1>2, <1>3, <1>4, <1>5, <1>6, <1>7, <1>8, <1>9, <1>10, <1>11, <1>12,
     <1>13, <1>14, <1>15, <1>16, <1>17, <1>18, <1>19, <1>20
  DEF Next, Loop, Acting, Handling

LEMMA BasisAlways == Spec => []Basis
BY BasisInit, BasisStep, PTL DEF Spec

\* The tables of the manager agree, for every use of the adapter.
THEOREM TablesCorrect == Spec => []TablesAgree
<1>1. Basis => TablesAgree
  BY DEF Basis, Good, TablesAgree
<1> QED BY <1>1, BasisAlways, PTL

-----------------------------------------------------------------------------
(* The marker of the engine                                                *)

\* No marker is in what the match under way may give back, ...
NoneBehind == pc \notin {"idle", "failed"} => \A p \in tables.index : ~ Behind(p)

\* ... and outside of stop events the engine has the next one, or, without any,
\* possibly the one of `process`.
Serves(t, at, s) == t.index # {} => Active(t, at, s)

Synced ==
    pc = "loop" \/ (pc = "handler" /\ cause \in {"match", "eof"}) =>
        Serves(tables, Location, stop)

IInv == Basis /\ NoneBehind /\ Synced

\* Where the loop does not stop there is no marker, ...
LEMMA NotMarked ==
    ASSUME IInv, Looping
    PROVE  Location \notin tables.index
<1>1. Serves(tables, Location, stop) /\ Good(tables) /\ location \in Int
  BY DEF IInv, Synced, Looping, Basis, Typed
<1>2. \A p \in tables.index : p >= Location => stop + 1 <= p /\ stop >= Location - 1
  BY <1>1, ActiveMeans DEF Serves, Location
<1>3. stop \in Int
  BY DEF IInv, Basis, Typed
<1> QED BY <1>1, <1>2, <1>3 DEF Looping, Location

\* ... and the engine may give back, or read one character, without the manager.
LEMMA MoveUnmarked ==
    ASSUME IInv, Looping, NEW to \in Int, begin <= to, to <= location + 1
    PROVE  Serves(tables, to + 1, stop)
<1>1. /\ Serves(tables, Location, stop) /\ Good(tables)
      /\ location \in Int /\ begin \in Int
  BY DEF IInv, Synced, Looping, Basis, Typed
<1>2. \A p \in tables.index : p \in Int /\ p # Location /\ ~ Behind(p)
  BY <1>1, NotMarked DEF IInv, NoneBehind, Looping, Good
<1>3. \A p \in tables.index : p >= Location <=> p >= to + 1
  BY <1>1, <1>2 DEF Behind, Inside, Location
<1>4. Location \in Int /\ to + 1 \in Int
  BY <1>1 DEF Location
<1> QED BY <1>1, <1>3, <1>4, NextSame DEF Serves

LEMMA IInvInit == ASSUME Uses = {} PROVE Init => IInv
<1> SUFFICES ASSUME Init PROVE IInv
  OBVIOUS
<1>1. Basis
  BY BasisInit
<1>2. tables.index = {}
  BY DEF Init, NoMarkers
<1> QED BY <1>1, <1>2 DEF IInv, NoneBehind, Synced, Serves

LEMMA IInvStep == ASSUME Uses = {} PROVE IInv /\ [Next]_vars => IInv'
<1> SUFFICES ASSUME IInv, [Next]_vars PROVE NoneBehind' /\ Synced'
  BY BasisStep DEF IInv
<1>0. /\ Basis /\ Typed /\ Order /\ Good(tables) /\ NoneBehind /\ Synced
      /\ Basis' /\ Typed' /\ Good(tables')
  BY BasisStep DEF IInv, Basis, Good, Agree
<1>a. ASSUME begin' = location' PROVE NoneBehind'
  BY <1>0, <1>a DEF NoneBehind, Behind, Inside, Typed, Good
<1>b. ASSUME SetActive PROVE Synced'
  BY <1>b, SetActiveMeans DEF Synced, Serves, Location
<1>c. ASSUME UNCHANGED << engine, tables, pc, cause >>
      PROVE  NoneBehind' /\ Synced'
  BY <1>0, <1>c DEF engine, NoneBehind, Behind, Inside, Synced, Serves, Location, Active
<1>d. ASSUME Throw PROVE NoneBehind' /\ Synced'
  BY <1>d DEF Throw, NoneBehind, Synced
<1>1. ASSUME NEW n \in Sizes, NEW from \in 0 .. n, NEW to \in NoStop .. n - 1,
             Process(n, from, to)
      PROVE  NoneBehind' /\ Synced'
  <2>1. tables'.index = {}
    BY <1>0, <1>1 DEF Process, Good, Agree, NoMarkers
  <2> QED BY <2>1 DEF NoneBehind, Synced, Serves
<1>2. CASE Read
  <2>1. Looping /\ location' = location + 1 /\ UNCHANGED << begin, stop, tables, pc, cause >>
    BY <1>2 DEF Read
  <2>2. \A p \in tables.index : p \in Int /\ p # Location /\ ~ Behind(p)
    BY <1>0, <2>1, NotMarked DEF NoneBehind, Looping, Good
  <2>3. NoneBehind'
    BY <1>0, <2>1, <2>2 DEF NoneBehind, Behind, Inside, Location, Typed
  <2>4. Serves(tables, location' + 1, stop)
    <3>1. \A p \in tables.index : p >= Location <=> p >= location' + 1
      BY <1>0, <2>1, <2>2 DEF Location, Typed
    <3>2. Serves(tables, Location, stop)
      BY <1>0, <2>1 DEF Synced, Looping
    <3>3. Location \in Int /\ location' + 1 \in Int
      BY <1>0, <2>1 DEF Location, Typed
    <3> QED BY <1>0, <3>1, <3>2, <3>3, NextSame DEF Serves
  <2> QED BY <2>1, <2>3, <2>4 DEF Synced, Location
<1>3. CASE Overrun
  BY <1>0, <1>3 DEF Overrun, engine, Looping, NoneBehind, Behind, Inside, Synced
<1>4. CASE LoopFails
  BY <1>4, <1>d DEF LoopFails
<1>5. CASE StopEvent
  <2>1. tables'.index \subseteq tables.index
    BY <1>0, <1>5, TakeOutGood DEF StopEvent
  <2> QED BY <1>0, <1>5, <2>1 DEF StopEvent, NoneBehind, Behind, Inside, Synced
<1>6. CASE StopEventFails
  BY <1>6, <1>d DEF StopEventFails
<1>7. ASSUME NEW last \in begin .. location + 1, NEW ev \in Events,
             ReadLast(last, ev) \/ ReachEof(last, ev)
      PROVE  NoneBehind' /\ Synced'
  <2>1. Looping /\ Complete(last, ev) /\ UNCHANGED << stop, tables >>
    BY <1>7 DEF ReadLast, ReachEof
  <2>2. begin <= location' /\ location' <= location + 1 /\ location' \in Int
    BY <1>0, <2>1 DEF Complete, Typed
  <2>3. Serves(tables, location' + 1, stop)
    BY <2>1, <2>2, MoveUnmarked
  <2> QED BY <1>a, <2>1, <2>3 DEF Complete, Synced, Location
<1>8. ASSUME NEW d \in todo, Skip(d) \/ JumpTo(d) \/ Call(d)
      PROVE  NoneBehind' /\ Synced'
  <2>1. CASE Skip(d)
    BY <2>1, <1>c DEF Skip
  <2>2. CASE JumpTo(d)
    BY <2>2, <1>a DEF JumpTo, Synced
  <2>3. CASE Call(d)
    BY <1>0, <2>3 DEF Call, engine, Order, NoneBehind, Behind, Inside, Synced
  <2> QED BY <1>8, <2>1, <2>2, <2>3
<1>9. CASE EventDone
  <2>1. NoneBehind'
    BY <1>0, <1>9 DEF EventDone, NoneBehind, Behind, Inside
  <2> QED BY <1>9, <1>b, <2>1 DEF EventDone
<1>10. CASE EventFails
  BY <1>10, <1>d DEF EventFails
<1>11. ASSUME NEW n \in Names, NEW p \in 0 .. sentinel + 1, NEW c \in Commands,
              MarkAdd(n, p, c)
       PROVE  NoneBehind' /\ Synced'
  <2>1. p \in Int /\ tables' = Add(tables, n, p, c) /\ ~ Behind(p)
    BY <1>0, <1>11 DEF MarkAdd, Typed
  <2>2. tables'.index \subseteq tables.index \cup {p}
    BY <1>0, <2>1, AddGood
  <2>3. CASE SetActive /\ UNCHANGED << pc, event >>
    <3>1. NoneBehind'
      BY <1>0, <1>11, <2>1, <2>2, <2>3 DEF MarkAdd, Calling, InHandler, NoneBehind, Behind, Inside
    <3> QED BY <1>b, <2>3, <3>1
  <2> QED BY <1>11, <1>d, <2>3 DEF MarkAdd, Recompute
<1>12. ASSUME NEW n \in Names, MarkCancel(n)
       PROVE  NoneBehind' /\ Synced'
  <2>1. /\ tables'.index \subseteq tables.index
        /\ tables.name[tables.pos[n]] # {n} => tables'.index = tables.index
    BY <1>0, <1>12, CancelGood DEF MarkCancel
  <2>2. ASSUME pc' = pc PROVE NoneBehind'
    BY <1>0, <1>12, <2>1, <2>2 DEF MarkCancel, NoneBehind, Behind, Inside
  <2>3. CASE SetActive /\ UNCHANGED << pc, event >>
    BY <1>b, <2>2, <2>3
  <2>4. CASE tables'.index = tables.index /\ UNCHANGED << stop, pc, event >>
    <3>1. Synced'
      BY <1>0, <1>12, <2>4 DEF MarkCancel, Synced, Serves, Active, Location
    <3> QED BY <2>2, <2>4, <3>1
  <2> QED BY <1>12, <1>d, <2>1, <2>3, <2>4 DEF MarkCancel, Recompute
<1>13. ASSUME NEW p \in 0 .. sentinel + 1, From(p)
       PROVE  NoneBehind' /\ Synced'
  BY <1>13, <1>a, <1>b DEF From
<1>14. ASSUME NEW k \in Lengths, Extend(k)
       PROVE  NoneBehind' /\ Synced'
  BY <1>0, <1>14 DEF Extend, NoneBehind, Behind, Inside, Synced, Serves, Active, Location
<1>15. ASSUME NEW last \in begin .. location, NEW ev \in Events, Barrier(last, ev)
       PROVE  NoneBehind' /\ Synced'
  <2>1. cause = "stop"
    BY <1>0, <1>15 DEF Barrier, Order
  <2> QED BY <1>15, <1>a, <2>1 DEF Barrier, Complete, Synced
<1>16. CASE NestedReturn
  BY <1>0, <1>16 DEF NestedReturn, engine, Order, NoneBehind, Behind, Inside, Synced
<1>17. CASE ActionReturn
  BY <1>0, <1>17 DEF ActionReturn, engine, NoneBehind, Behind, Inside, Synced
<1>18. CASE HandlerReturn
  <2>1. NoneBehind'
    BY <1>0, <1>18 DEF HandlerReturn, engine, NoneBehind, Behind, Inside
  <2>2. pc' = "loop" => cause \in {"match", "eof"}
    BY <1>0, <1>18 DEF HandlerReturn, Order
  <2>3. Synced'
    BY <1>0, <1>18, <2>2 DEF HandlerReturn, engine, Order, Synced, Serves, Active, Location
  <2> QED BY <2>1, <2>3
<1>19. CASE HandlerFails
  BY <1>19, <1>d DEF HandlerFails
<1>20. CASE UNCHANGED vars
  BY <1>20, <1>c DEF vars
<1> QED
  BY <1>1, <1>2, <1>3, <1>4, <1>5, <1>6, <1>7, <1>8, <1>9, <1>10, <1>11, <1>12,
     <1>13, <1>14, <1>15, <1>16, <1>17, <1>18, <1>19, <1>20
  DEF Next, Loop, Acting, Handling

LEMMA IInvAlways == ASSUME Uses = {} PROVE Spec => []IInv
<1>1. Init => IInv
  BY IInvInit
<1>2. IInv /\ [Next]_vars => IInv'
  BY IInvStep
<1> QED BY <1>1, <1>2, PTL DEF Spec

\* When the engine reads, its one marker is the next of all markers.
THEOREM NextCorrect == ASSUME Uses = {} PROVE Spec => []StopIsNext
<1>1. ASSUME IInv PROVE StopIsNext
  <2> SUFFICES ASSUME pc = "loop" PROVE StopIsNext
    BY DEF StopIsNext
  <2>1. /\ Serves(tables, Location, stop) /\ Good(tables)
        /\ location \in Int /\ Location \in Int /\ Location >= 0
    BY <1>1 DEF IInv, Basis, Typed, Synced, Location
  <2>2. stop # NoStop /\ tables.index # {} => stop >= Location - 1 /\ stop + 1 \in tables.index
    BY <2>1, ActiveMeans DEF Serves
  <2>3. \A p \in tables.index : p >= Location =>
            stop + 1 \in tables.index /\ stop + 1 <= p /\ stop >= Location - 1
    BY <2>1, ActiveMeans DEF Serves
  <2>4. DOMAIN tables.name = tables.index /\ \A n \in DOMAIN tables.pos : tables.pos[n] \in tables.index
    BY <2>1 DEF Good, Agree
  <2>5. \A n \in DOMAIN tables.pos :
            tables.pos[n] >= Location => stop # NoStop /\ stop + 1 <= tables.pos[n]
    BY <2>1, <2>3, <2>4 DEF NoStop, Location
  <2> QED BY <2>1, <2>2, <2>4, <2>5 DEF StopIsNext, Location
<1> QED BY <1>1, IInvAlways, PTL

-----------------------------------------------------------------------------
(* The adapter implements Markers                                          *)

LEMMA CancelMarks ==
    ASSUME NEW t, Good(t), NEW n, Known(t, n)
    PROVE  MarksOf(Cancel(t, n)) = [x \in DOMAIN MarksOf(t) \ {n} |-> MarksOf(t)[x]]
<1>1. /\ Cancel(t, n).pos = [x \in DOMAIN t.pos \ {n} |-> t.pos[x]]
      /\ Cancel(t, n).action = [x \in DOMAIN t.pos \ {n} |-> t.action[x]]
  BY CancelGood
<1> QED BY <1>1 DEF MarksOf

LEMMA StepMaps == ASSUME Uses = {} PROVE IInv /\ IInv' /\ [Next]_vars => [Marks!Next]_(Marks!vars)
<1> SUFFICES ASSUME IInv, IInv', [Next]_vars PROVE Marks!Next \/ UNCHANGED Marks!vars
  OBVIOUS
<1>0. /\ Basis /\ Typed /\ Order /\ Good(tables)
      /\ location' \in Int /\ Location \in Int /\ Location' \in Int
  BY DEF IInv, Basis, Typed, Location
<1>a. ASSUME UNCHANGED << location, tables, todo >>, Phase' = "done" PROVE Marks!Fail
  BY <1>a DEF Marks!Fail, Location
<1>b. ASSUME Throw, UNCHANGED << location, tables, todo >> PROVE Marks!Next
  <2>1. Phase' = "done"
    BY <1>b DEF Throw, Phase, InHandler
  <2> QED BY <1>a, <1>b, <2>1 DEF Marks!Next
<1>c. ASSUME UNCHANGED << location, tables, todo >>, Phase' = Phase
      PROVE  UNCHANGED Marks!vars
  BY <1>c DEF Marks!vars, Location
<1>d. ASSUME Looping PROVE Phase = "reading" /\ ~ Marks!Marked
  <2>1. Location \notin tables.index
    BY <1>d, NotMarked
  <2> QED BY <1>0, <1>d, <2>1 DEF Looping, Phase, Marks!Marked, MarksOf, Good, Agree
<1>e. MarksOf(tables)' = MarksOf(tables')
  BY DEF MarksOf
<1>1. ASSUME NEW n \in Sizes, NEW from \in 0 .. n, NEW to \in NoStop .. n - 1,
             Process(n, from, to)
      PROVE  Marks!Next
  <2>1. Phase = "done" /\ Phase' = "reading"
    BY <1>1 DEF Process, Entered, Phase, InHandler
  <2>2. todo' = {} /\ tables' = tables
    BY <1>1 DEF Process, Entered
  <2> QED BY <1>0, <2>1, <2>2 DEF Marks!Next, Marks!Again
<1>2. CASE Read
  <2>1. Looping /\ Location' = Location + 1 /\ UNCHANGED << tables, todo, pc >>
    BY <1>0, <1>2 DEF Read, Location, Typed
  <2>2. Phase' = "reading"
    BY <1>d, <2>1 DEF Phase, InHandler
  <2> QED BY <1>0, <1>d, <2>1, <2>2 DEF Marks!Next, Marks!Read
<1>3. CASE Overrun
  <2>1. Looping /\ UNCHANGED << location, tables, todo >> /\ Phase' = "calling"
    BY <1>3 DEF Overrun, engine, Phase, InHandler
  <2> QED BY <1>0, <1>d, <2>1 DEF Marks!Next, Marks!Read, Location
<1>4. CASE LoopFails
  BY <1>4, <1>b DEF LoopFails, engine
<1>5. CASE StopEvent
  <2>1. /\ Location \in DOMAIN tables.name
        /\ tables' = TakeOut(tables, Location) /\ todo' = Taken(tables, Location)
        /\ Location' = Location /\ Phase = "reading" /\ Phase' = "acting"
    BY <1>5 DEF StopEvent, Phase, Location
  <2> DEFINE here == {n \in DOMAIN MarksOf(tables) : MarksOf(tables)[n].pos = Location}
  <2>2. /\ here # {} /\ here = tables.name[Location]
        /\ MarksOf(tables)' = [n \in DOMAIN MarksOf(tables) \ here |-> MarksOf(tables)[n]]
        /\ todo' = {<< n, MarksOf(tables)[n].cmd >> : n \in here}
    <3>1. /\ tables.name[Location] = here /\ tables.name[Location] # {}
          /\ MarksOf(TakeOut(tables, Location)) =
               [n \in DOMAIN MarksOf(tables) \ tables.name[Location] |-> MarksOf(tables)[n]]
          /\ Taken(tables, Location) =
               {<< n, MarksOf(tables)[n].cmd >> : n \in tables.name[Location]}
      BY <1>0, <2>1, TakeOutGood
    <3>2. MarksOf(tables)' = MarksOf(TakeOut(tables, Location))
      BY <1>e, <2>1
    <3> QED BY <2>1, <3>1, <3>2
  <2>3. Marks!Marked
    BY <2>2 DEF Marks!Marked
  <2> QED BY <2>1, <2>2, <2>3 DEF Marks!Next, Marks!GoOff
<1>6. CASE StopEventFails
  BY <1>6, <1>b DEF StopEventFails
<1>7. ASSUME NEW last \in begin .. location + 1, NEW ev \in Events,
             ReadLast(last, ev) \/ ReachEof(last, ev)
      PROVE  Marks!Next
  <2>1. Looping /\ Complete(last, ev) /\ UNCHANGED << tables, todo >>
    BY <1>7 DEF ReadLast, ReachEof
  <2>2. Location' <= Location + 1
    BY <1>0, <2>1 DEF Complete, Typed, Location
  <2>3. pc' \in {"loop", "handler", "idle"}
    BY <1>7, <2>1 DEF ReadLast, ReachEof, Looping
  <2>4. Phase' \in {"reading", "calling", "done"}
    BY <2>3 DEF Phase, InHandler
  <2> QED BY <1>0, <1>d, <2>1, <2>2, <2>4 DEF Marks!Next, Marks!Read
<1>8. ASSUME NEW d \in todo, Skip(d) \/ JumpTo(d) \/ Call(d)
      PROVE  Marks!Next
  <2>1. todo' = todo \ {d} /\ tables' = tables
    BY <1>8 DEF Skip, JumpTo, Call
  <2>2. pc = "acting" /\ pc' \in {"acting", "handler"}
    BY <1>8 DEF Skip, JumpTo, Call
  <2>3. Phase = "acting" /\ Phase' \in {"acting", "calling"}
    BY <2>2 DEF Phase, InHandler
  <2> QED BY <1>0, <2>1, <2>3 DEF Marks!Next, Marks!Act
<1>9. CASE EventDone
  <2>1. UNCHANGED << location, tables, todo >> /\ todo = {} /\ Phase = "acting" /\ Phase' = "reading"
    BY <1>9 DEF EventDone, Phase
  <2> QED BY <2>1 DEF Marks!Next, Marks!Resume, Location
<1>10. CASE EventFails
  BY <1>10, <1>b DEF EventFails, engine
<1>11. ASSUME NEW n \in Names, NEW p \in 0 .. sentinel + 1, NEW c \in Commands,
              MarkAdd(n, p, c)
       PROVE  Marks!Next
  <2>1. p \in Int /\ p \in 0 .. MaxSize
    BY <1>0, UseAssumption DEF Typed, UseAssumption
  <2>2. /\ tables' = Add(tables, n, p, c) /\ UNCHANGED << location, todo >> /\ InHandler
        /\ UNCHANGED pc \/ pc' = "failed"
    BY <1>11 DEF MarkAdd, Calling, Recompute, Throw
  <2>3. MarksOf(tables)' = Placed(MarksOf(tables), n, p, c)
    BY <1>0, <1>e, <2>1, <2>2, AddGood
  <2>4. Phase = "calling" /\ Phase' \in {"calling", "done"}
    BY <2>2 DEF Phase, InHandler
  <2>5. Marks!Put
    BY <2>1, <2>2, <2>3, <2>4 DEF Marks!Put, Location, Placed
  <2> QED BY <2>5 DEF Marks!Next
<1>12. ASSUME NEW n \in Names, MarkCancel(n)
       PROVE  Marks!Next
  <2>1. /\ tables' = Cancel(tables, n) /\ UNCHANGED << location, todo >> /\ InHandler
        /\ UNCHANGED pc \/ pc' = "failed"
        /\ Known(tables, n)
    BY <1>12 DEF MarkCancel, Calling, Recompute, Throw
  <2>2. /\ MarksOf(tables)' = [x \in DOMAIN MarksOf(tables) \ {n} |-> MarksOf(tables)[x]]
        /\ n \in DOMAIN MarksOf(tables)
    <3>1. MarksOf(tables') = [x \in DOMAIN MarksOf(tables) \ {n} |-> MarksOf(tables)[x]]
      BY <1>0, <2>1, CancelMarks
    <3>2. n \in DOMAIN MarksOf(tables)
      BY <2>1 DEF MarksOf, Known
    <3> QED BY <1>e, <3>1, <3>2
  <2>3. Phase = "calling" /\ Phase' \in {"calling", "done"}
    BY <2>1 DEF Phase, InHandler
  <2>4. Marks!Take
    BY <2>1, <2>2, <2>3 DEF Marks!Take, Location
  <2> QED BY <2>4 DEF Marks!Next
<1>13. ASSUME NEW p \in 0 .. sentinel + 1, From(p)
       PROVE  Marks!Next
  <2>1. UNCHANGED << tables, todo, pc >> /\ InHandler
    BY <1>13 DEF From, Calling
  <2>2. Phase = "calling" /\ Phase' = "calling"
    BY <2>1 DEF Phase, InHandler
  <2> QED BY <1>0, <2>1, <2>2 DEF Marks!Next, Marks!Jump
<1>14. ASSUME NEW k \in Lengths, Extend(k)
       PROVE  UNCHANGED Marks!vars
  BY <1>14, <1>c DEF Extend, Phase, InHandler
<1>15. ASSUME NEW last \in begin .. location, NEW ev \in Events, Barrier(last, ev)
       PROVE  Marks!Next
  <2>1. UNCHANGED << tables, todo >> /\ pc = "handler" /\ pc' \in {"handler", "nested"}
    BY <1>15 DEF Barrier
  <2>2. Phase = "calling" /\ Phase' = "calling"
    BY <2>1 DEF Phase, InHandler
  <2> QED BY <1>0, <2>1, <2>2 DEF Marks!Next, Marks!Jump
<1>16. CASE NestedReturn
  BY <1>16, <1>c DEF NestedReturn, engine, Phase, InHandler
<1>17. CASE ActionReturn
  <2>1. UNCHANGED << location, tables, todo >> /\ Phase = "calling" /\ Phase' = "acting"
    BY <1>17 DEF ActionReturn, engine, Phase, InHandler
  <2> QED BY <2>1 DEF Marks!Next, Marks!Return, Location
<1>18. CASE HandlerReturn
  <2>1. UNCHANGED << location, tables, todo >> /\ pc = "handler" /\ todo = {}
    BY <1>0, <1>18 DEF HandlerReturn, engine, Order
  <2>2. pc' \in {"loop", "idle", "failed"}
    BY <1>0, <1>18 DEF HandlerReturn, Order
  <2>3. Phase = "calling" /\ Phase' \in {"reading", "done"}
    BY <2>1, <2>2 DEF Phase, InHandler
  <2> QED BY <2>1, <2>3 DEF Marks!Next, Marks!Return, Location
<1>19. CASE HandlerFails
  BY <1>19, <1>b DEF HandlerFails, engine
<1>20. CASE UNCHANGED vars
  BY <1>20, <1>c DEF vars, engine, Phase, InHandler
<1> QED
  BY <1>1, <1>2, <1>3, <1>4, <1>5, <1>6, <1>7, <1>8, <1>9, <1>10, <1>11, <1>12,
     <1>13, <1>14, <1>15, <1>16, <1>17, <1>18, <1>19, <1>20
  DEF Next, Loop, Acting, Handling

\* No marked place is read past, and the markers of a place go off together: the
\* adapter with its one marker of the engine implements Markers.
THEOREM Implementation == ASSUME Uses = {} PROVE Spec => ImplementsMarkers
<1>1. Init => Marks!Init
  <2> SUFFICES ASSUME Init PROVE Marks!Init
    OBVIOUS
  <2>1. Basis
    BY BasisInit
  <2>2. Phase = "reading" /\ todo = {} /\ Location \in Int
    BY <2>1 DEF Init, Phase, Basis, Typed, Location
  <2>3. MarksOf(tables) = [n \in {} |-> 0]
    BY DEF Init, NoMarkers, MarksOf
  <2> QED BY <2>2, <2>3 DEF Marks!Init
<1>2. IInv /\ IInv' /\ [Next]_vars => [Marks!Next]_(Marks!vars)
  BY StepMaps
<1> QED BY <1>1, <1>2, IInvAlways, PTL DEF Spec, ImplementsMarkers, Marks!Spec

=============================================================================
