--------------------------- MODULE EngineDayProofs --------------------------
(***************************************************************************)
(* The engine against any venue that keeps the contract of broker/base.py, *)
(* for every configuration that loads, every bar, every candle, every      *)
(* slippage and every interleaving.                                        *)
(*                                                                         *)
(* Core is what holds of the engine and its venue even between the calls   *)
(* that one handler makes of another.  Managed relates an engine to what a *)
(* part of a handler makes of it: it says what that part may not do to the *)
(* stop, to the loss limit and to the flags, and composes.  Each method    *)
(* has one lemma.                                                          *)
(***************************************************************************)
EXTENDS EngineDay, TLAPS

Venue == [orders : SUBSET VenueOrder, trades : Nat, exits : Nat]

Engine ==
  [orHigh : Int \cup {None}, orLow : Int \cup {None}, orFinal : BOOLEAN,
   entryQty : 0..SanityCap, placed : BOOLEAN, pos : Position \cup {None},
   done : BOOLEAN, halted : BOOLEAN, pnl : Int, equity : Int,
   lastPrice : Int \cup {None}, canceled : BOOLEAN, sink : Venue]

-----------------------------------------------------------------------------
(* What holds even inside a method.                                        *)

(* The range and the size the entries were placed for.                     *)
RangeFixed(x) ==
  /\ x.orFinal
  /\ x.orHigh \in Int /\ x.orLow \in Int /\ x.orHigh > x.orLow
  /\ x.entryQty > 0

(* The entry orders are at most one of each reference, at the edges of the *)
(* range.                                                                  *)
EntriesKnown(x) ==
  \A o \in x.sink.orders : o.ref # "stop_loss" =>
    /\ o.side = IF o.ref = "entry_long" THEN "long" ELSE "short"
    /\ o.price = IF o.ref = "entry_long" THEN x.orHigh + Buffer ELSE x.orLow - Buffer
    /\ \A q \in x.sink.orders : q.ref = o.ref => q = o

(* Every order that could open a position has had its cancel sent.         *)
Withdrawn(x) ==
  \A o \in x.sink.orders : o.ref # "stop_loss" => o.state = "cancelling"

(* Breakeven comes before TP1, and from then on the stop is at the entry   *)
(* or better.                                                              *)
RiskFree(p) ==
  /\ p.tp1 => p.beMoved
  /\ p.beMoved => ~Tighter(p.side, p.entry, p.stop)

PositionSound(p) ==
  /\ p.runnerQty > 0
  /\ ~p.tp1 => p.runnerQty = p.qty
  /\ RiskFree(p)

(* o is the protective stop that position p calls for.                     *)
Protects(o, p) ==
  /\ o.ref = "stop_loss" /\ o.state = "working"
  /\ o.side = Opposite(p.side) /\ o.price = p.stop /\ o.qty = p.runnerQty

Protected(x) == x.pos # None => \E o \in x.sink.orders : Protects(o, x.pos)

(* A TP1 that closes everything ends a trade without an exit notification, *)
(* so nothing is claimed for a configuration that asks for one.            *)
Reported(x) ==
  Tp1ClosePct < 100 => x.sink.trades = x.sink.exits + IF x.pos # None THEN 1 ELSE 0

Core(x) ==
  /\ x \in Engine
  /\ x.placed => RangeFixed(x)
  /\ ~x.placed => x.sink.orders = {} /\ x.pos = None /\ ~x.canceled
  /\ EntriesKnown(x)
  /\ x.canceled => Withdrawn(x)
  /\ x.pos # None => x.done /\ PositionSound(x.pos)
  /\ Protected(x)
  /\ Reported(x)

-----------------------------------------------------------------------------
(* What a part of a handler may make of an engine.                         *)

Frame(x, y) ==
  /\ y.orHigh = x.orHigh /\ y.orLow = x.orLow /\ y.orFinal = x.orFinal
  /\ y.entryQty = x.entryQty /\ y.placed = x.placed
  /\ y.equity = x.equity /\ y.lastPrice = x.lastPrice

SameFlags(x, y) ==
  y.done = x.done /\ y.halted = x.halted /\ y.canceled = x.canceled

(* Position p has become q: the stop has not loosened, unless phase A of   *)
(* the new runner moved it.                                                *)
Tightens(p, q) ==
  /\ q.side = p.side
  /\ p.tp1 => q.tp1
  /\ q.phase = p.phase \/ (p.phase = "A" /\ q.phase = "B")
  /\ (p.phase = "A" /\ q.tp1) \/ ~Tighter(p.side, p.stop, q.stop)

(* The loss limit has been acted on.                                       *)
LimitHeld(x) == Eng!LossLimitReached(x) => x.halted

(* What a halt leaves behind.                                              *)
Out(x) == x.halted /\ x.done /\ x.pos = None /\ (x.placed => x.canceled)

Tidy(x) == x.done => Withdrawn(x)

Managed(x, y) ==
  /\ Core(y)
  /\ Frame(x, y)
  /\ x.done => y.done
  /\ x.halted => y.halted
  /\ y.pos # None => x.pos # None /\ Tightens(x.pos, y.pos)
  /\ y.pnl # x.pnl => LimitHeld(y)
  /\ y.halted => x.halted \/ Out(y)
  /\ Out(x) => Out(y)
  /\ Tidy(x) => Tidy(y)

(* The loss limit looks at the P&L and the equity only.                    *)
LEMMA SameMoney ==
  ASSUME NEW x, NEW y, y.pnl = x.pnl, y.equity = x.equity
  PROVE  Eng!LossLimitReached(y) = Eng!LossLimitReached(x)
BY DEF Eng!LossLimitReached

(* A stop that moved twice has not loosened.                               *)
LEMMA TightensTransitive ==
  ASSUME NEW p \in Position, NEW q \in Position, NEW r \in Position,
         Tightens(p, q), Tightens(q, r)
  PROVE  Tightens(p, r)
BY DEF Tightens, Tighter, Position

(* Managed steps compose.                                                  *)
LEMMA ManagedTransitive ==
  ASSUME NEW x, NEW y, NEW z, Core(x), Managed(x, y), Managed(y, z)
  PROVE  Managed(x, z)
<1>1. Core(z) /\ Frame(x, z) /\ (x.done => z.done) /\ (x.halted => z.halted)
  BY DEF Managed, Frame
<1>2. z.pos # None => x.pos # None /\ Tightens(x.pos, z.pos)
  BY TightensTransitive DEF Managed, Core, Engine
<1>3. z.pnl # x.pnl => LimitHeld(z)
  <2>1. CASE z.pnl # y.pnl
    BY <2>1 DEF Managed
  <2>2. CASE z.pnl = y.pnl
    BY <2>2, SameMoney DEF Managed, LimitHeld, Frame
  <2> QED
    BY <2>1, <2>2
<1>4. (z.halted => x.halted \/ Out(z)) /\ (Out(x) => Out(z)) /\ (Tidy(x) => Tidy(z))
  BY DEF Managed
<1> QED
  BY <1>1, <1>2, <1>3, <1>4 DEF Managed

(* Doing nothing is a managed step.                                        *)
LEMMA ManagedReflexive ==
  ASSUME NEW x, Core(x)
  PROVE  Managed(x, x)
BY DEF Managed, Frame, Tightens, Tighter, Core, Engine, Position

-----------------------------------------------------------------------------
(* What the venue does with one action.                                    *)

SameEngine(x, y) ==
  /\ Frame(x, y) /\ SameFlags(x, y)
  /\ y.pos = x.pos /\ y.pnl = x.pnl

(* The orders after a cancel, a move and a change of size.                 *)
Cancelled(S, ref) ==
  {IF o.ref = ref /\ o.state = "working" THEN [o EXCEPT !.state = "cancelling"] ELSE o : o \in S}
Repriced(S, price) ==
  {IF o.ref = "stop_loss" /\ o.state = "working" THEN [o EXCEPT !.price = price] ELSE o : o \in S}
Resized(S, qty) ==
  {IF o.ref = "stop_loss" /\ o.state = "working" THEN [o EXCEPT !.qty = qty] ELSE o : o \in S}

(* Emitting changes the sink as the venue says and nothing else.           *)
LEMMA EmitFrame ==
  ASSUME NEW x \in Engine, NEW a, Receive(x.sink, a) \in Venue
  PROVE  /\ Eng!Emit(x, a) \in Engine
         /\ Eng!Emit(x, a).sink = Receive(x.sink, a)
         /\ SameEngine(x, Eng!Emit(x, a))
BY DEF Eng!Emit, Engine, SameEngine, Frame, SameFlags

(* An alert, a market close and a notification that reports no trade leave *)
(* the venue's orders and counts alone.                                    *)
LEMMA NeutralEmit ==
  ASSUME NEW x \in Engine, NEW a,
         \/ a.type \in {"alert", "close"}
         \/ a.type = "notify" /\ a.event \notin {"entry", "exit"}
  PROVE  Eng!Emit(x, a) = x
<1>1. Receive(x.sink, a) = x.sink
  BY DEF Receive, Engine, Venue
<1> QED
  BY <1>1 DEF Eng!Emit, Engine

(* A notification of an entry or of an exit is counted.                    *)
LEMMA EmitTrade ==
  ASSUME NEW x \in Engine, NEW event \in {"entry", "exit"}
  PROVE  LET y == Eng!Emit(x, Eng!Notify(event)) IN
         /\ y \in Engine /\ SameEngine(x, y)
         /\ y.sink.orders = x.sink.orders
         /\ y.sink.trades = x.sink.trades + IF event = "entry" THEN 1 ELSE 0
         /\ y.sink.exits = x.sink.exits + IF event = "exit" THEN 1 ELSE 0
<1> DEFINE v == Receive(x.sink, Eng!Notify(event))
<1>1. /\ v \in Venue /\ v.orders = x.sink.orders
      /\ v.trades = x.sink.trades + IF event = "entry" THEN 1 ELSE 0
      /\ v.exits = x.sink.exits + IF event = "exit" THEN 1 ELSE 0
  <2> DEFINE a == IF event = "entry" THEN x.sink.trades + 1 ELSE x.sink.trades
             b == IF event = "exit" THEN x.sink.exits + 1 ELSE x.sink.exits
  <2>1. v = [x.sink EXCEPT !.trades = a, !.exits = b]
    BY DEF Receive, Eng!Notify
  <2> HIDE DEF v
  <2>2. x.sink \in Venue /\ a \in Nat /\ b \in Nat
    BY DEF Engine, Venue
  <2>3. /\ a = x.sink.trades + IF event = "entry" THEN 1 ELSE 0
        /\ b = x.sink.exits + IF event = "exit" THEN 1 ELSE 0
    BY DEF Engine, Venue
  <2> HIDE DEF a, b
  <2> QED
    BY <2>1, <2>2, <2>3 DEF Venue
<1> HIDE DEF v
<1>2. LET y == Eng!Emit(x, Eng!Notify(event)) IN y \in Engine /\ y.sink = v /\ SameEngine(x, y)
  BY <1>1, EmitFrame DEF v
<1> QED
  BY <1>1, <1>2

(* An exit is reported once.                                               *)
LEMMA EmitExit ==
  ASSUME NEW x \in Engine
  PROVE  LET y == Eng!Emit(x, Eng!Notify("exit")) IN
         /\ y \in Engine /\ SameEngine(x, y) /\ y.sink.orders = x.sink.orders
         /\ y.sink.trades = x.sink.trades /\ y.sink.exits = x.sink.exits + 1
<1> DEFINE y == Eng!Emit(x, Eng!Notify("exit"))
<1>1. /\ y \in Engine /\ SameEngine(x, y) /\ y.sink.orders = x.sink.orders
      /\ y.sink.trades = x.sink.trades + 0 /\ y.sink.exits = x.sink.exits + 1
  BY EmitTrade
<1> HIDE DEF y
<1> QED
  BY <1>1 DEF y, Engine, Venue

(* An entry is reported once.                                              *)
LEMMA EmitEntry ==
  ASSUME NEW x \in Engine
  PROVE  LET y == Eng!Emit(x, Eng!Notify("entry")) IN
         /\ y \in Engine /\ SameEngine(x, y) /\ y.sink.orders = x.sink.orders
         /\ y.sink.trades = x.sink.trades + 1 /\ y.sink.exits = x.sink.exits
<1> DEFINE y == Eng!Emit(x, Eng!Notify("entry"))
<1>1. /\ y \in Engine /\ SameEngine(x, y) /\ y.sink.orders = x.sink.orders
      /\ y.sink.trades = x.sink.trades + 1 /\ y.sink.exits = x.sink.exits + 0
  BY EmitTrade
<1> HIDE DEF y
<1> QED
  BY <1>1 DEF y, Engine, Venue

(* A cancel marks the working orders of its reference.                     *)
LEMMA EmitCancel ==
  ASSUME NEW x \in Engine, NEW ref
  PROVE  LET y == Eng!Emit(x, Eng!Cancel(ref)) IN
         /\ y \in Engine /\ SameEngine(x, y)
         /\ y.sink.orders = Cancelled(x.sink.orders, ref)
         /\ y.sink.trades = x.sink.trades /\ y.sink.exits = x.sink.exits
<1> DEFINE v == Receive(x.sink, Eng!Cancel(ref))
<1>1. Cancelled(x.sink.orders, ref) \subseteq VenueOrder
  BY DEF Cancelled, Engine, Venue, VenueOrder
<1>2. v = [x.sink EXCEPT !.orders = Cancelled(x.sink.orders, ref)]
  BY DEF Receive, Eng!Cancel, Amend, Cancelled
<1>3. /\ v \in Venue /\ v.orders = Cancelled(x.sink.orders, ref)
      /\ v.trades = x.sink.trades /\ v.exits = x.sink.exits
  BY <1>1, <1>2 DEF Engine, Venue
<1> HIDE DEF v
<1>4. LET y == Eng!Emit(x, Eng!Cancel(ref)) IN y \in Engine /\ y.sink = v /\ SameEngine(x, y)
  BY <1>3, EmitFrame DEF v
<1> QED
  BY <1>3, <1>4

(* A move of the stop changes the price of the working stop orders.        *)
LEMMA EmitModifyPrice ==
  ASSUME NEW x \in Engine, NEW price \in Int
  PROVE  LET y == Eng!Emit(x, Eng!ModifyPrice(price)) IN
         /\ y \in Engine /\ SameEngine(x, y)
         /\ y.sink.orders = Repriced(x.sink.orders, price)
         /\ y.sink.trades = x.sink.trades /\ y.sink.exits = x.sink.exits
<1> DEFINE v == Receive(x.sink, Eng!ModifyPrice(price))
<1>1. Repriced(x.sink.orders, price) \subseteq VenueOrder
  BY DEF Repriced, Engine, Venue, VenueOrder
<1>2. v = [x.sink EXCEPT !.orders = Repriced(x.sink.orders, price)]
  BY DEF Receive, Eng!ModifyPrice, Eng!StopLoss, Amend, Repriced
<1>3. /\ v \in Venue /\ v.orders = Repriced(x.sink.orders, price)
      /\ v.trades = x.sink.trades /\ v.exits = x.sink.exits
  BY <1>1, <1>2 DEF Engine, Venue
<1> HIDE DEF v
<1>4. LET y == Eng!Emit(x, Eng!ModifyPrice(price)) IN
      y \in Engine /\ y.sink = v /\ SameEngine(x, y)
  BY <1>3, EmitFrame DEF v
<1> QED
  BY <1>3, <1>4

(* A change of size changes the contracts of the working stop orders.      *)
LEMMA EmitModifyQty ==
  ASSUME NEW x \in Engine, NEW qty \in Nat \ {0}
  PROVE  LET y == Eng!Emit(x, Eng!ModifyQty(qty)) IN
         /\ y \in Engine /\ SameEngine(x, y)
         /\ y.sink.orders = Resized(x.sink.orders, qty)
         /\ y.sink.trades = x.sink.trades /\ y.sink.exits = x.sink.exits
<1> DEFINE v == Receive(x.sink, Eng!ModifyQty(qty))
<1>1. Resized(x.sink.orders, qty) \subseteq VenueOrder
  BY DEF Resized, Engine, Venue, VenueOrder
<1>2. v = [x.sink EXCEPT !.orders = Resized(x.sink.orders, qty)]
  BY DEF Receive, Eng!ModifyQty, Eng!StopLoss, Amend, Resized
<1>3. /\ v \in Venue /\ v.orders = Resized(x.sink.orders, qty)
      /\ v.trades = x.sink.trades /\ v.exits = x.sink.exits
  BY <1>1, <1>2 DEF Engine, Venue
<1> HIDE DEF v
<1>4. LET y == Eng!Emit(x, Eng!ModifyQty(qty)) IN
      y \in Engine /\ y.sink = v /\ SameEngine(x, y)
  BY <1>3, EmitFrame DEF v
<1> QED
  BY <1>3, <1>4

(* A placement adds one working order.                                     *)
LEMMA EmitPlace ==
  ASSUME NEW x \in Engine, NEW ref \in {"entry_long", "entry_short", "stop_loss"},
         NEW side \in Sides, NEW price \in Int, NEW qty \in Nat \ {0}
  PROVE  LET y == Eng!Emit(x, Eng!Place(ref, side, price, qty))
             o == [ref |-> ref, side |-> side, price |-> price, qty |-> qty, state |-> "working"]
         IN
         /\ y \in Engine /\ SameEngine(x, y)
         /\ y.sink.orders = x.sink.orders \cup {o}
         /\ y.sink.trades = x.sink.trades /\ y.sink.exits = x.sink.exits
<1> DEFINE v == Receive(x.sink, Eng!Place(ref, side, price, qty))
           o == [ref |-> ref, side |-> side, price |-> price, qty |-> qty, state |-> "working"]
<1>1. o \in VenueOrder
  BY DEF VenueOrder
<1>2. v = [x.sink EXCEPT !.orders = @ \cup {o}]
  BY DEF Receive, Eng!Place, Order
<1> HIDE DEF o
<1>3. /\ v \in Venue /\ v.orders = x.sink.orders \cup {o}
      /\ v.trades = x.sink.trades /\ v.exits = x.sink.exits
  BY <1>1, <1>2 DEF Engine, Venue
<1> HIDE DEF v
<1>4. LET y == Eng!Emit(x, Eng!Place(ref, side, price, qty)) IN
      y \in Engine /\ y.sink = v /\ SameEngine(x, y)
  BY <1>3, EmitFrame DEF v
<1> QED
  BY <1>3, <1>4 DEF o

-----------------------------------------------------------------------------
(* What a change of the orders leaves true.                                *)

(* The orders that could open a position are the same.                     *)
SameEntries(S, T) ==
  \A o \in VenueOrder : o.ref # "stop_loss" => (o \in S <=> o \in T)

(* What is said of entries does not depend on the stops.                   *)
LEMMA EntriesUnchanged ==
  ASSUME NEW x \in Engine, NEW y \in Engine, Frame(x, y),
         SameEntries(x.sink.orders, y.sink.orders)
  PROVE  /\ EntriesKnown(x) => EntriesKnown(y)
         /\ Withdrawn(x) => Withdrawn(y)
<1>1. x.sink.orders \subseteq VenueOrder /\ y.sink.orders \subseteq VenueOrder
  BY DEF Engine, Venue
<1>2. ASSUME EntriesKnown(x) PROVE EntriesKnown(y)
  BY <1>1, <1>2 DEF EntriesKnown, SameEntries, Frame
<1>3. ASSUME Withdrawn(x) PROVE Withdrawn(y)
  BY <1>1, <1>3 DEF Withdrawn, SameEntries
<1> QED
  BY <1>2, <1>3

(* A cancel of a stop, a move, a change of size and the placement of a     *)
(* stop leave the entries alone.                                           *)
LEMMA StopChangesKeepEntries ==
  ASSUME NEW S \in SUBSET VenueOrder, NEW price, NEW qty, NEW o, o.ref = "stop_loss"
  PROVE  /\ SameEntries(S, Cancelled(S, "stop_loss"))
         /\ SameEntries(S, Repriced(S, price))
         /\ SameEntries(S, Resized(S, qty))
         /\ SameEntries(S, S \cup {o})
         /\ SameEntries(S, S \ {o})
<1>1. SameEntries(S, Cancelled(S, "stop_loss"))
  BY DEF SameEntries, Cancelled, VenueOrder
<1>2. SameEntries(S, Repriced(S, price))
  BY DEF SameEntries, Repriced, VenueOrder
<1>3. SameEntries(S, Resized(S, qty))
  BY DEF SameEntries, Resized, VenueOrder
<1>4. SameEntries(S, S \cup {o}) /\ SameEntries(S, S \ {o})
  BY DEF SameEntries
<1> QED
  BY <1>1, <1>2, <1>3, <1>4

(* A cancel keeps what is known of the entries and what was withdrawn      *)
(* before.                                                                 *)
LEMMA EntryCancelKeeps ==
  ASSUME NEW x \in Engine, NEW y \in Engine, Frame(x, y), y.pos = x.pos,
         NEW ref, y.sink.orders = Cancelled(x.sink.orders, ref)
  PROVE  /\ EntriesKnown(x) => EntriesKnown(y)
         /\ Withdrawn(x) => Withdrawn(y)
         /\ \A o \in y.sink.orders : o.ref = ref => o.state = "cancelling"
         /\ \A o \in y.sink.orders :
              \E q \in x.sink.orders : q.ref = o.ref /\ (q.state = "cancelling" => o = q)
<1>1. x.sink.orders \subseteq VenueOrder
  BY DEF Engine, Venue
<1>2. ASSUME NEW o \in y.sink.orders
      PROVE  \E q \in x.sink.orders :
               /\ o = q \/ o = [q EXCEPT !.state = "cancelling"]
               /\ q.ref = ref => o.state = "cancelling"
               /\ o.ref = q.ref /\ o.side = q.side /\ o.price = q.price
               /\ q.state = "cancelling" => o = q
               /\ o = IF q.ref = ref /\ q.state = "working"
                      THEN [q EXCEPT !.state = "cancelling"] ELSE q
  BY <1>1 DEF Cancelled, VenueOrder
<1>3. ASSUME EntriesKnown(x) PROVE EntriesKnown(y)
  <2> SUFFICES ASSUME NEW o \in y.sink.orders, o.ref # "stop_loss"
               PROVE  /\ o.side = IF o.ref = "entry_long" THEN "long" ELSE "short"
                      /\ o.price = IF o.ref = "entry_long" THEN y.orHigh + Buffer
                                   ELSE y.orLow - Buffer
                      /\ \A q \in y.sink.orders : q.ref = o.ref => q = o
    BY DEF EntriesKnown
  <2>1. /\ o.side = IF o.ref = "entry_long" THEN "long" ELSE "short"
        /\ o.price = IF o.ref = "entry_long" THEN y.orHigh + Buffer ELSE y.orLow - Buffer
    BY <1>2, <1>3 DEF EntriesKnown, Frame
  <2>2. ASSUME NEW q \in y.sink.orders, q.ref = o.ref PROVE q = o
    <3>1. PICK a \in x.sink.orders :
            /\ o.ref = a.ref
            /\ o = IF a.ref = ref /\ a.state = "working"
                   THEN [a EXCEPT !.state = "cancelling"] ELSE a
      BY <1>2
    <3>2. PICK b \in x.sink.orders :
            /\ q.ref = b.ref
            /\ q = IF b.ref = ref /\ b.state = "working"
                   THEN [b EXCEPT !.state = "cancelling"] ELSE b
      BY <1>2, <2>2
    <3>3. a = b
      BY <1>3, <2>2, <3>1, <3>2 DEF EntriesKnown
    <3> QED
      BY <3>1, <3>2, <3>3
  <2> QED
    BY <2>1, <2>2
<1>4. ASSUME Withdrawn(x) PROVE Withdrawn(y)
  BY <1>2, <1>4 DEF Withdrawn
<1>5. \A o \in y.sink.orders : o.ref = ref => o.state = "cancelling"
  BY <1>2
<1>6. \A o \in y.sink.orders :
        \E q \in x.sink.orders : q.ref = o.ref /\ (q.state = "cancelling" => o = q)
  BY <1>2
<1> QED
  BY <1>3, <1>4, <1>5, <1>6

(* ... and it leaves the protective stop where it is.                      *)
LEMMA EntryCancelProtects ==
  ASSUME NEW x, NEW y, y.pos = x.pos, Protected(x),
         NEW ref \in {"entry_long", "entry_short"},
         y.sink.orders = Cancelled(x.sink.orders, ref)
  PROVE  Protected(y)
<1>1. \A o \in x.sink.orders : o.ref = "stop_loss" => o \in y.sink.orders
  BY DEF Cancelled
<1> QED
  BY <1>1 DEF Protected, Protects

(* _cancel_unfilled_entries leaves no entry that is not being withdrawn.   *)
LEMMA CancelEntriesCore ==
  ASSUME NEW x, Core(x)
  PROVE  LET y == Eng!CancelEntries(x) IN
         /\ Core(y) /\ Withdrawn(y)
         /\ Frame(x, y) /\ y.pos = x.pos /\ y.pnl = x.pnl
         /\ y.done = x.done /\ y.halted = x.halted
         /\ y.placed => y.canceled
<1> x \in Engine
  BY DEF Core
<1>1. CASE x.placed /\ ~x.canceled
  <2> DEFINE x1 == [x EXCEPT !.canceled = TRUE]
             x2 == Eng!Emit(x1, Eng!Cancel("entry_long"))
             y  == Eng!Emit(x2, Eng!Cancel("entry_short"))
  <2>1. /\ x1 \in Engine /\ x1.sink = x.sink /\ Frame(x, x1) /\ x1.canceled
        /\ x1.pos = x.pos /\ x1.pnl = x.pnl /\ x1.done = x.done /\ x1.halted = x.halted
    BY DEF Engine, Frame
  <2>2. Eng!CancelEntries(x) = y
    BY <1>1 DEF Eng!CancelEntries, Eng!LongEntry, Eng!ShortEntry
  <2> HIDE DEF x1
  <2>3. /\ x2 \in Engine /\ SameEngine(x1, x2)
        /\ x2.sink.orders = Cancelled(x1.sink.orders, "entry_long")
        /\ x2.sink.trades = x1.sink.trades /\ x2.sink.exits = x1.sink.exits
    BY <2>1, EmitCancel
  <2> HIDE DEF x2
  <2>4. /\ y \in Engine /\ SameEngine(x2, y)
        /\ y.sink.orders = Cancelled(x2.sink.orders, "entry_short")
        /\ y.sink.trades = x2.sink.trades /\ y.sink.exits = x2.sink.exits
    BY <2>3, EmitCancel
  <2> HIDE DEF y
  <2>5. EntriesKnown(x1) /\ Protected(x1)
    BY <2>1 DEF Core, EntriesKnown, Protected, Frame
  <2>6. /\ EntriesKnown(x2) /\ Protected(x2)
        /\ \A o \in x2.sink.orders : o.ref = "entry_long" => o.state = "cancelling"
    <3>1. Frame(x1, x2) /\ x2.pos = x1.pos
      BY <2>3 DEF SameEngine
    <3>2. Protected(x2)
      BY <2>3, <2>5, <3>1, EntryCancelProtects
    <3> QED
      BY <2>1, <2>3, <2>5, <3>1, <3>2, EntryCancelKeeps
  <2>7. /\ EntriesKnown(y) /\ Protected(y)
        /\ \A o \in y.sink.orders : o.ref = "entry_short" => o.state = "cancelling"
        /\ \A o \in y.sink.orders :
             \E q \in x2.sink.orders : q.ref = o.ref /\ (q.state = "cancelling" => o = q)
    <3>1. Frame(x2, y) /\ y.pos = x2.pos
      BY <2>4 DEF SameEngine
    <3>2. Protected(y)
      BY <2>4, <2>6, <3>1, EntryCancelProtects
    <3>3. EntriesKnown(y)
      BY <2>3, <2>4, <2>6, <3>1, EntryCancelKeeps
    <3>5. \A o \in y.sink.orders : o.ref = "entry_short" => o.state = "cancelling"
      BY <2>3, <2>4, <3>1, EntryCancelKeeps
    <3>4. \A o \in y.sink.orders :
            \E q \in x2.sink.orders : q.ref = o.ref /\ (q.state = "cancelling" => o = q)
      BY <2>3, <2>4, <3>1, EntryCancelKeeps
    <3> QED
      BY <3>2, <3>3, <3>4, <3>5
  <2>8. Withdrawn(y)
    BY <2>4, <2>6, <2>7 DEF Withdrawn, Engine, Venue, VenueOrder
  <2>9. /\ Frame(x, y) /\ y.pos = x.pos /\ y.pnl = x.pnl
        /\ y.done = x.done /\ y.halted = x.halted /\ y.canceled
        /\ y.sink.trades = x.sink.trades /\ y.sink.exits = x.sink.exits
    BY <2>1, <2>3, <2>4 DEF SameEngine, Frame, SameFlags
  <2>10. Core(y)
    BY <1>1, <2>4, <2>7, <2>8, <2>9 DEF Core, Frame, RangeFixed, Reported
  <2> QED
    BY <2>2, <2>8, <2>9, <2>10
<1>2. CASE ~(x.placed /\ ~x.canceled)
  <2>1. Eng!CancelEntries(x) = x
    BY <1>2 DEF Eng!CancelEntries
  <2>2. Withdrawn(x)
    BY <1>2 DEF Core, Withdrawn
  <2> QED
    BY <1>2, <2>1, <2>2 DEF Core, Frame, Engine
<1> QED
  BY <1>1, <1>2

-----------------------------------------------------------------------------
(* The engine and its position.                                            *)

(* A step that touches no entry keeps Core if the new position is sound,   *)
(* protected and reported.                                                 *)
LEMMA CoreOfStops ==
  ASSUME NEW x, NEW y, Core(x), x.placed, y \in Engine, Frame(x, y), y.canceled = x.canceled,
         SameEntries(x.sink.orders, y.sink.orders),
         y.pos # None => y.done /\ PositionSound(y.pos),
         Protected(y), Reported(y)
  PROVE  Core(y) /\ (Withdrawn(x) => Withdrawn(y))
<1>1. x \in Engine
  BY DEF Core
<1>2. EntriesKnown(x) => EntriesKnown(y)
  BY <1>1, EntriesUnchanged
<1>3. Withdrawn(x) => Withdrawn(y)
  BY <1>1, EntriesUnchanged
<1> QED
  BY <1>2, <1>3 DEF Core, Frame, RangeFixed

(* An open position has its orders in the venue and its size.              *)
LEMMA OpenFacts ==
  ASSUME NEW x, Core(x), x.pos # None
  PROVE  /\ x \in Engine /\ x.pos \in Position /\ x.placed /\ x.done
         /\ x.sink \in Venue /\ x.sink.orders \subseteq VenueOrder
         /\ PositionSound(x.pos) /\ Protected(x) /\ Reported(x)
BY DEF Core, Engine, Venue

(* The position is replaced by one that calls for the same stop order.     *)
LEMMA RemarkManaged ==
  ASSUME NEW x, NEW y, Core(x), x.pos # None,
         NEW p \in Position, y = [x EXCEPT !.pos = p],
         p.side = x.pos.side, p.stop = x.pos.stop, p.runnerQty = x.pos.runnerQty,
         PositionSound(p), Tightens(x.pos, p)
  PROVE  Managed(x, y) /\ y.pos = p
<1>1. p # None
  BY OptionalAssumption
<1>2. /\ x \in Engine /\ x.pos \in Position /\ x.placed /\ x.done
      /\ Protected(x) /\ Reported(x)
  BY OpenFacts
<1>3. /\ y \in Engine /\ Frame(x, y) /\ SameFlags(x, y) /\ y.pnl = x.pnl
      /\ y.sink = x.sink /\ y.pos = p
  BY <1>2 DEF Engine, Frame, SameFlags
<1>4. SameEntries(x.sink.orders, y.sink.orders)
  BY <1>3 DEF SameEntries
<1>5. Protected(y)
  BY <1>2, <1>3 DEF Protected, Protects
<1>6. Reported(y)
  BY <1>1, <1>2, <1>3 DEF Reported
<1>7. Core(y) /\ (Withdrawn(x) => Withdrawn(y))
  BY <1>1, <1>2, <1>3, <1>4, <1>5, <1>6, CoreOfStops DEF SameFlags
<1> QED
  BY <1>1, <1>2, <1>3, <1>7 DEF Managed, SameFlags, Out, Tidy

(* The position is replaced by one with another stop, and the resting      *)
(* order follows.                                                          *)
LEMMA StopMoveManaged ==
  ASSUME NEW x, NEW y, Core(x), x.pos # None,
         NEW p \in Position, y = Eng!Emit([x EXCEPT !.pos = p], Eng!ModifyPrice(p.stop)),
         p.side = x.pos.side, p.runnerQty = x.pos.runnerQty,
         PositionSound(p), Tightens(x.pos, p)
  PROVE  Managed(x, y) /\ y.pos = p
<1> DEFINE x1 == [x EXCEPT !.pos = p]
<1>1. p # None /\ p.stop \in Int
  BY OptionalAssumption DEF Position
<1>2. /\ x \in Engine /\ x.pos \in Position /\ x.placed /\ x.done
      /\ x.sink.orders \subseteq VenueOrder
      /\ Protected(x) /\ Reported(x)
  BY OpenFacts
<1>3. /\ x1 \in Engine /\ Frame(x, x1) /\ SameFlags(x, x1) /\ x1.pnl = x.pnl
      /\ x1.sink = x.sink /\ x1.pos = p
  BY <1>2 DEF Engine, Frame, SameFlags
<1> HIDE DEF x1
<1>4. /\ y \in Engine /\ SameEngine(x1, y)
      /\ y.sink.orders = Repriced(x1.sink.orders, p.stop)
      /\ y.sink.trades = x1.sink.trades /\ y.sink.exits = x1.sink.exits
  BY <1>1, <1>3, EmitModifyPrice DEF x1
<1>5. Frame(x, y) /\ SameFlags(x, y) /\ y.pnl = x.pnl /\ y.pos = p
  BY <1>3, <1>4 DEF SameEngine, Frame, SameFlags
<1>6. SameEntries(x.sink.orders, y.sink.orders)
  <2>1. \E o \in VenueOrder : o.ref = "stop_loss"
    BY <1>2 DEF Protected, Protects
  <2>2. PICK o \in VenueOrder : o.ref = "stop_loss"
    BY <2>1
  <2>3. SameEntries(x.sink.orders, Repriced(x.sink.orders, p.stop))
    BY <1>2, <2>2, StopChangesKeepEntries
  <2> QED
    BY <1>3, <1>4, <2>3
<1>7. Protected(y)
  <2>1. PICK o \in x.sink.orders : Protects(o, x.pos)
    BY <1>2 DEF Protected
  <2>2. [o EXCEPT !.price = p.stop] \in y.sink.orders
    BY <1>3, <1>4, <2>1 DEF Repriced, Protects
  <2>3. Protects([o EXCEPT !.price = p.stop], p)
    BY <1>2, <2>1 DEF Protects, VenueOrder
  <2> QED
    BY <1>5, <2>2, <2>3 DEF Protected
<1>8. Reported(y)
  BY <1>1, <1>2, <1>3, <1>4, <1>5 DEF Reported
<1>9. Core(y) /\ (Withdrawn(x) => Withdrawn(y))
  <2>1. y.canceled = x.canceled /\ y.done /\ PositionSound(y.pos) /\ y \in Engine /\ Frame(x, y)
    BY <1>2, <1>4, <1>5 DEF SameFlags
  <2>2. x.placed
    BY <1>2
  <2> QED
    BY <1>6, <1>7, <1>8, <2>1, <2>2, CoreOfStops
<1> QED
  BY <1>1, <1>2, <1>5, <1>9 DEF Managed, SameFlags, Out, Tidy

-----------------------------------------------------------------------------
(* Leaving the market.                                                     *)

(* The instance's Signed is an integer.                                    *)
LEMMA SignedIsInt ==
  ASSUME NEW side, NEW a \in Int, NEW b \in Int
  PROVE  Eng!Signed(side, a, b) \in Int
BY DEF Eng!Signed

(* What a close books is an amount.                                        *)
LEMMA PnlIsInt ==
  ASSUME NEW p \in Position, NEW price \in Int, NEW qty \in Nat
  PROVE  Eng!PnlUsd(p, price, qty) \in Int
<1>1. Eng!Signed(p.side, p.entry, price) \in Int
  BY SignedIsInt DEF Position
<1> QED
  BY <1>1, SafetyAssumption DEF Eng!PnlUsd

(* The price the engine closes at without a bar of its own.                *)
LEMMA RefPriceIsInt ==
  ASSUME NEW x \in Engine, x.pos # None
  PROVE  Eng!RefPrice(x) \in Int
BY DEF Eng!RefPrice, Engine, Position

(* Money has been booked and the limit not yet looked at.                  *)
Settled(x, y) ==
  /\ Core(y) /\ Frame(x, y) /\ SameFlags(x, y)
  /\ y.pos # None => Tightens(x.pos, y.pos)
  /\ Tidy(x) => Tidy(y)

(* Closing out is reported and leaves the engine flat.                     *)
LEMMA CloseOutSettled ==
  ASSUME NEW x, Core(x), x.pos # None, NEW price \in Int
  PROVE  LET y == Eng!CloseOut(x, price) IN Settled(x, y) /\ y.pos = None
<1> DEFINE q  == x.pos.runnerQty
           g  == Eng!PnlUsd(x.pos, price, q)
           x1 == [x EXCEPT !.pnl = @ + g]
           x2 == Eng!Emit(x1, Eng!CloseMarket(q))
           x3 == Eng!Emit(x2, Eng!Cancel("stop_loss"))
           x4 == Eng!Emit(x3, Eng!Notify("exit"))
           y  == [x4 EXCEPT !.pos = None]
<1>1. /\ x \in Engine /\ x.pos \in Position /\ x.placed /\ x.done
      /\ x.sink.orders \subseteq VenueOrder
      /\ Protected(x) /\ Reported(x)
  BY OpenFacts
<1>2. g \in Int
  BY <1>1, PnlIsInt DEF Position
<1>3. Eng!CloseOut(x, price) = y
  BY DEF Eng!CloseOut, Eng!StopLoss
<1> HIDE DEF g
<1>4. /\ x1 \in Engine /\ Frame(x, x1) /\ SameFlags(x, x1) /\ x1.sink = x.sink
  <2>1. x.pnl + g \in Int
    BY <1>1, <1>2 DEF Engine
  <2> QED
    BY <1>1, <2>1 DEF Engine, Frame, SameFlags
<1> HIDE DEF x1
<1>5. x2 = x1
  BY <1>4, NeutralEmit DEF Eng!CloseMarket
<1> HIDE DEF x2
<1>6. /\ x3 \in Engine /\ SameEngine(x2, x3)
      /\ x3.sink.orders = Cancelled(x2.sink.orders, "stop_loss")
      /\ x3.sink.trades = x2.sink.trades /\ x3.sink.exits = x2.sink.exits
  BY <1>4, <1>5, EmitCancel
<1> HIDE DEF x3
<1>7. /\ x4 \in Engine /\ SameEngine(x3, x4)
      /\ x4.sink.orders = x3.sink.orders
      /\ x4.sink.trades = x3.sink.trades /\ x4.sink.exits = x3.sink.exits + 1
  BY <1>6, EmitExit
<1> HIDE DEF x4
<1>8. /\ y \in Engine /\ y.pos = None /\ y.sink = x4.sink
      /\ Frame(x4, y) /\ SameFlags(x4, y)
  BY <1>7 DEF Engine, Frame, SameFlags
<1> HIDE DEF y
<1>9. /\ Frame(x, y) /\ SameFlags(x, y)
      /\ y.sink.orders = Cancelled(x.sink.orders, "stop_loss")
      /\ y.sink.trades = x.sink.trades /\ y.sink.exits = x.sink.exits + 1
  BY <1>4, <1>5, <1>6, <1>7, <1>8 DEF SameEngine, Frame, SameFlags
<1>10. SameEntries(x.sink.orders, y.sink.orders)
  BY <1>1, <1>9, StopChangesKeepEntries DEF Protected, Protects
<1>11. Reported(y)
  BY <1>1, <1>8, <1>9 DEF Reported, Engine, Venue
<1>12. Core(y) /\ (Withdrawn(x) => Withdrawn(y))
  BY <1>1, <1>8, <1>9, <1>10, <1>11, CoreOfStops DEF SameFlags, Protected
<1> QED
  BY <1>3, <1>8, <1>9, <1>12 DEF Settled, SameFlags, Tidy

-----------------------------------------------------------------------------
(* The loss limit.                                                         *)

(* _check_daily_loss_limit changes nothing or takes the engine out.        *)
LEMMA CheckDailyLossLimitManaged ==
  ASSUME NEW x, Core(x)
  PROVE  LET y == Eng!CheckDailyLossLimit(x) IN
         Managed(x, y) /\ LimitHeld(y) /\ (y = x \/ Out(y))
<1>1. CASE x.halted \/ ~Eng!LossLimitReached(x)
  <2>1. Eng!CheckDailyLossLimit(x) = x
    BY <1>1 DEF Eng!CheckDailyLossLimit
  <2>2. LimitHeld(x)
    BY <1>1 DEF LimitHeld
  <2> QED
    BY <2>1, <2>2, ManagedReflexive
<1>2. CASE ~(x.halted \/ ~Eng!LossLimitReached(x))
  <2> DEFINE x1 == [x EXCEPT !.halted = TRUE, !.done = TRUE]
             x2 == IF x.pos # None THEN Eng!CloseOut(x1, Eng!RefPrice(x)) ELSE x1
             y  == Eng!CancelEntries(x2)
  <2>1. x \in Engine
    BY DEF Core
  <2>2. /\ x1 \in Engine /\ Frame(x, x1) /\ x1.halted /\ x1.done
        /\ x1.pos = x.pos /\ x1.sink = x.sink /\ x1.canceled = x.canceled
    BY <2>1 DEF Engine, Frame
  <2>3. Eng!CheckDailyLossLimit(x) =
          Eng!Emit(Eng!CancelEntries(IF x.pos # None
                                     THEN Eng!CloseOut(Eng!Emit(x1, Eng!Alert), Eng!RefPrice(x))
                                     ELSE Eng!Emit(x1, Eng!Alert)), Eng!Notify("halt"))
    BY <1>2 DEF Eng!CheckDailyLossLimit
  <2>4. Eng!Emit(x1, Eng!Alert) = x1
    BY <2>2, NeutralEmit DEF Eng!Alert
  <2>5. Eng!CheckDailyLossLimit(x) = Eng!Emit(y, Eng!Notify("halt"))
    BY <2>3, <2>4
  <2> HIDE DEF x1
  <2>6. Core(x1)
    BY <2>2 DEF Core, Frame, RangeFixed, EntriesKnown, Withdrawn, Protected, Reported
  <2>7. Core(x2) /\ x2.pos = None /\ x2.halted /\ x2.done /\ Frame(x1, x2)
    <3>1. CASE x.pos = None
      BY <3>1, <2>2, <2>6 DEF Frame
    <3>2. CASE x.pos # None
      <4>1. Eng!RefPrice(x) \in Int
        BY <2>1, <3>2, RefPriceIsInt
      <4>2. Settled(x1, x2) /\ x2.pos = None
        BY <2>2, <2>6, <3>2, <4>1, CloseOutSettled
      <4> QED
        BY <2>2, <4>2 DEF Settled, SameFlags
    <3> QED
      BY <3>1, <3>2
  <2> HIDE DEF x2
  <2>8. /\ Core(y) /\ Withdrawn(y) /\ Frame(x2, y) /\ y.pos = None
        /\ y.done /\ y.halted /\ (y.placed => y.canceled)
    BY <2>7, CancelEntriesCore
  <2> HIDE DEF y
  <2>9. Eng!CheckDailyLossLimit(x) = y
    BY <2>5, <2>8, NeutralEmit DEF Eng!Notify, Core
  <2>10. Out(y) /\ LimitHeld(y)
    BY <2>8 DEF Out, LimitHeld
  <2>11. Managed(x, y)
    BY <2>2, <2>7, <2>8, <2>10 DEF Managed, Frame, Tidy
  <2> QED
    BY <2>9, <2>10, <2>11
<1> QED
  BY <1>1, <1>2

(* Money that is booked and then held against the limit.                   *)
LEMMA SettledManaged ==
  ASSUME NEW x, NEW c, Core(x), x.pos # None, Settled(x, c)
  PROVE  LET y == Eng!CheckDailyLossLimit(c) IN
         Managed(x, y) /\ (c.pos = None => y.pos = None)
<1> DEFINE y == Eng!CheckDailyLossLimit(c)
<1>1. Managed(c, y) /\ LimitHeld(y) /\ (y = c \/ Out(y))
  BY CheckDailyLossLimitManaged DEF Settled
<1> HIDE DEF y
<1>2. Core(y) /\ Frame(x, y)
  BY <1>1 DEF Managed, Settled, Frame
<1>3. y.pos # None => y.pos = c.pos /\ Tightens(x.pos, y.pos)
  BY <1>1 DEF Out, Settled
<1>4. (x.done => y.done) /\ (x.halted => y.halted) /\ (y.halted => x.halted \/ Out(y))
  BY <1>1 DEF Managed, Settled, SameFlags
<1>5. ~Out(x) /\ (Tidy(x) => Tidy(y))
  BY <1>1 DEF Managed, Settled, Out
<1>6. Managed(x, y)
  BY <1>1, <1>2, <1>3, <1>4, <1>5 DEF Managed
<1> QED
  BY <1>3, <1>6 DEF y

(* _exit_position_market ends flat.                                        *)
LEMMA ExitPositionMarketManaged ==
  ASSUME NEW x, Core(x), x.pos # None, NEW price \in Int
  PROVE  LET y == Eng!ExitPositionMarket(x, price) IN Managed(x, y) /\ y.pos = None
<1> DEFINE c == Eng!CloseOut(x, price)
<1>1. Settled(x, c) /\ c.pos = None
  BY CloseOutSettled
<1>2. Eng!ExitPositionMarket(x, price) = Eng!CheckDailyLossLimit(c)
  BY DEF Eng!ExitPositionMarket
<1> HIDE DEF c
<1> QED
  BY <1>1, <1>2, SettledManaged

(* Ending the day withdraws the entries.                                   *)
LEMMA EndDayManaged ==
  ASSUME NEW x, Core(x), x.pos = None
  PROVE  LET y == [Eng!CancelEntries(x) EXCEPT !.done = TRUE] IN
         /\ Managed(x, y) /\ y.pos = None /\ y.done /\ (y.placed => y.canceled)
         /\ Tidy(y)
<1> DEFINE x1 == Eng!CancelEntries(x)
           y  == [x1 EXCEPT !.done = TRUE]
<1>1. /\ Core(x1) /\ Withdrawn(x1)
      /\ Frame(x, x1) /\ x1.pos = x.pos /\ x1.pnl = x.pnl
      /\ x1.halted = x.halted
      /\ x1.placed => x1.canceled
  BY CancelEntriesCore
<1> HIDE DEF x1
<1>2. /\ y \in Engine /\ Frame(x1, y) /\ y.pos = x1.pos /\ y.pnl = x1.pnl
      /\ y.halted = x1.halted /\ y.canceled = x1.canceled /\ y.sink = x1.sink /\ y.done
  BY <1>1 DEF Core, Engine, Frame
<1> HIDE DEF y
<1>3. Core(y)
  BY <1>1, <1>2 DEF Core, Frame, RangeFixed, EntriesKnown, Withdrawn, Protected, Reported
<1>4. Tidy(y)
  BY <1>1, <1>2 DEF Tidy, Withdrawn
<1>5. Frame(x, y) /\ y.pnl = x.pnl /\ y.pos = None /\ y.halted = x.halted /\ (y.placed => y.canceled)
  BY <1>1, <1>2 DEF Frame
<1>6. Managed(x, y)
  BY <1>2, <1>3, <1>4, <1>5 DEF Managed, Out
<1> QED
  BY <1>2, <1>4, <1>5, <1>6 DEF y, x1

(* Flat and ended, whatever was open: manual_flatten and the hard close.   *)
LEMMA FlattenManaged ==
  ASSUME NEW x, Core(x)
  PROVE  LET y == Eng!ManualFlatten(x) IN
         /\ Managed(x, y) /\ y.pos = None /\ y.done /\ (y.placed => y.canceled)
         /\ Tidy(y)
<1> DEFINE c == IF x.pos # None THEN Eng!ExitPositionMarket(x, Eng!RefPrice(x)) ELSE x
           y == [Eng!CancelEntries(c) EXCEPT !.done = TRUE]
<1>1. Managed(x, c) /\ c.pos = None
  <2>1. CASE x.pos # None
    <3>1. Eng!RefPrice(x) \in Int
      BY <2>1, RefPriceIsInt DEF Core
    <3> QED
      BY <2>1, <3>1, ExitPositionMarketManaged
  <2>2. CASE x.pos = None
    BY <2>2, ManagedReflexive
  <2> QED
    BY <2>1, <2>2
<1>2. Eng!ManualFlatten(x) = y
  BY DEF Eng!ManualFlatten
<1> HIDE DEF c
<1>3. /\ Managed(c, y) /\ y.pos = None /\ y.done /\ (y.placed => y.canceled) /\ Tidy(y)
  BY <1>1, EndDayManaged DEF Managed
<1> HIDE DEF y
<1>4. Managed(x, y)
  BY <1>1, <1>3, ManagedTransitive
<1> QED
  BY <1>2, <1>3, <1>4

-----------------------------------------------------------------------------
(* The time-based checks.                                                  *)

(* The entry cutoff is a managed step.                                     *)
LEMMA EntryCutoffCheckManaged ==
  ASSUME NEW x, Core(x), NEW t
  PROVE  Managed(x, Eng!EntryCutoffCheck(x, t))
<1> DEFINE c == [Eng!CancelEntries(x) EXCEPT !.done = TRUE]
<1>1. CASE t >= EntryCutoff /\ x.placed /\ x.pos = None /\ ~x.canceled /\ ~x.done
  <2>1. Managed(x, c)
    BY <1>1, EndDayManaged
  <2>2. Eng!EntryCutoffCheck(x, t) = Eng!Emit(c, Eng!Notify("no_trade"))
    BY <1>1 DEF Eng!EntryCutoffCheck
  <2> HIDE DEF c
  <2>3. Eng!Emit(c, Eng!Notify("no_trade")) = c
    BY <2>1, NeutralEmit DEF Eng!Notify, Managed, Core
  <2> QED
    BY <2>1, <2>2, <2>3
<1>2. CASE ~(t >= EntryCutoff /\ x.placed /\ x.pos = None /\ ~x.canceled /\ ~x.done)
  <2>1. Eng!EntryCutoffCheck(x, t) = x
    BY <1>2 DEF Eng!EntryCutoffCheck
  <2> QED
    BY <2>1, ManagedReflexive
<1> QED
  BY <1>1, <1>2

(* The hard close leaves nothing.                                          *)
LEMMA HardCloseCheckManaged ==
  ASSUME NEW x, Core(x), NEW t \in Nat
  PROVE  LET y == Eng!HardCloseCheck(x, t) IN
         /\ Managed(x, y)
         /\ t >= HardClose => /\ y.pos = None /\ y.done /\ (y.placed => y.canceled)
                              /\ Tidy(y)
<1>1. CASE t < HardClose
  <2>1. Eng!HardCloseCheck(x, t) = x
    BY <1>1 DEF Eng!HardCloseCheck
  <2> QED
    BY <1>1, <2>1, ManagedReflexive, SessionAssumption
<1>2. CASE ~(t < HardClose)
  <2>1. Eng!HardCloseCheck(x, t) = Eng!ManualFlatten(x)
    BY <1>2 DEF Eng!HardCloseCheck, Eng!ManualFlatten
  <2> QED
    BY <2>1, FlattenManaged
<1> QED
  BY <1>1, <1>2

(* The FOMC flatten is a managed step.                                     *)
LEMMA FomcCheckManaged ==
  ASSUME NEW x, Core(x), NEW t
  PROVE  Managed(x, Eng!FomcCheck(x, t))
<1>1. CASE x.pos # None
  <2>1. Eng!RefPrice(x) \in Int
    BY <1>1, RefPriceIsInt DEF Core
  <2>2. Managed(x, Eng!ExitPositionMarket(x, Eng!RefPrice(x)))
    BY <1>1, <2>1, ExitPositionMarketManaged
  <2> QED
    BY <2>2, ManagedReflexive DEF Eng!FomcCheck
<1>2. CASE x.pos = None
  BY <1>2, ManagedReflexive DEF Eng!FomcCheck
<1> QED
  BY <1>1, <1>2

-----------------------------------------------------------------------------
(* Moving the stop.                                                        *)

(* Tighter is a strict order.                                              *)
LEMMA TighterOrder ==
  ASSUME NEW side \in Sides, NEW a \in Int, NEW b \in Int, NEW c \in Int
  PROVE  /\ Eng!Tighter(side, a, b) <=> Tighter(side, a, b)
         /\ ~Tighter(side, a, a)
         /\ Tighter(side, a, b) => ~Tighter(side, b, a)
         /\ ~Tighter(side, a, b) /\ Tighter(side, c, b) => ~Tighter(side, a, c)
BY DEF Tighter, Eng!Tighter, Sides

(* _ratchet_stop only tightens.                                            *)
LEMMA RatchetStopManaged ==
  ASSUME NEW x, Core(x), x.pos # None, NEW c \in Int
  PROVE  LET y == Eng!RatchetStop(x, c) IN
         /\ Managed(x, y) /\ y.pos # None
         /\ y.pos.tp1 = x.pos.tp1 /\ y.pos.phase = x.pos.phase
<1> DEFINE p == [x.pos EXCEPT !.stop = c]
<1>1. x \in Engine /\ x.pos \in Position /\ PositionSound(x.pos)
  BY OpenFacts
<1>2. CASE Eng!Tighter(x.pos.side, c, x.pos.stop)
  <2>1. /\ p \in Position /\ p # None /\ p.side = x.pos.side /\ p.entry = x.pos.entry
        /\ p.stop = c /\ p.runnerQty = x.pos.runnerQty /\ p.qty = x.pos.qty
        /\ p.tp1 = x.pos.tp1 /\ p.beMoved = x.pos.beMoved /\ p.phase = x.pos.phase
    BY <1>1, OptionalAssumption DEF Position
  <2>2. [x EXCEPT !.pos.stop = c] = [x EXCEPT !.pos = p]
    BY <1>1 DEF Engine
  <2> HIDE DEF p
  <2>3. Tighter(x.pos.side, c, x.pos.stop)
    BY <1>1, <1>2, TighterOrder DEF Position
  <2>4. x.pos.beMoved => ~Tighter(p.side, p.entry, p.stop)
    BY <1>1, <2>1, <2>3, TighterOrder DEF PositionSound, RiskFree, Position
  <2>5. PositionSound(p)
    BY <1>1, <2>1, <2>4 DEF PositionSound, RiskFree
  <2>6. ~Tighter(x.pos.side, x.pos.stop, p.stop)
    BY <1>1, <2>1, <2>3, TighterOrder DEF Position
  <2>7. Tightens(x.pos, p)
    BY <2>1, <2>6 DEF Tightens
  <2> DEFINE y == Eng!Emit([x EXCEPT !.pos = p], Eng!ModifyPrice(p.stop))
  <2>8. Managed(x, y) /\ y.pos = p
    BY <2>1, <2>5, <2>7, StopMoveManaged
  <2>9. Eng!RatchetStop(x, c) = y
    BY <1>2, <2>1, <2>2 DEF Eng!RatchetStop
  <2> HIDE DEF y
  <2> QED
    BY <2>1, <2>8, <2>9
<1>3. CASE ~Eng!Tighter(x.pos.side, c, x.pos.stop)
  <2>1. Eng!RatchetStop(x, c) = x
    BY <1>3 DEF Eng!RatchetStop
  <2> QED
    BY <2>1, ManagedReflexive
<1> QED
  BY <1>2, <1>3

(* A profit of TP1's multiple is one of breakeven's.                       *)
LEMMA Tp1BeyondBreakeven ==
  ASSUME NEW p \in Position, NEW price \in Int, Eng!RAtLeast(p, price, Tp1R)
  PROVE  Eng!RAtLeast(p, price, BreakevenR)
<1> DEFINE s == Eng!Signed(p.side, p.entry, price)
           k == Tp1R - BreakevenR
           u == p.rUnit
<1>1. s \in Int /\ u \in Nat /\ k \in Nat /\ BreakevenR \in Nat /\ RScale \in Nat /\ Tp1R = BreakevenR + k
  BY SignedIsInt, ExitsAssumption DEF Position
<1>2. s * RScale >= Tp1R * u
  BY DEF Eng!RAtLeast
<1> HIDE DEF s, k, u
<1>3. Tp1R * u = BreakevenR * u + k * u
  BY <1>1
<1>4. k * u >= 0 /\ k * u \in Int /\ BreakevenR * u \in Int /\ s * RScale \in Int
  BY <1>1
<1>5. s * RScale >= BreakevenR * u
  BY <1>2, <1>3, <1>4
<1> QED
  BY <1>5 DEF Eng!RAtLeast, s, u

(* The breakeven move only tightens, and comes as soon as it is due.       *)
LEMMA MoveToBreakevenManaged ==
  ASSUME NEW x, Core(x), x.pos # None, NEW price \in Int
  PROVE  LET y == Eng!MoveToBreakeven(x, price) IN
         /\ Managed(x, y) /\ y.pos # None /\ y.pos.tp1 = x.pos.tp1
         /\ Eng!RAtLeast(y.pos, price, BreakevenR) => y.pos.beMoved
<1> DEFINE p == [x.pos EXCEPT !.beMoved = TRUE]
           x1 == [x EXCEPT !.pos = p]
           q == [p EXCEPT !.stop = x.pos.entry]
<1>1. x \in Engine /\ x.pos \in Position /\ PositionSound(x.pos)
  BY OpenFacts
<1>2. CASE ~x.pos.beMoved /\ Eng!RAtLeast(x.pos, price, BreakevenR)
  <2>1. /\ p \in Position /\ p # None /\ p.side = x.pos.side /\ p.entry = x.pos.entry
        /\ p.stop = x.pos.stop /\ p.runnerQty = x.pos.runnerQty /\ p.qty = x.pos.qty
        /\ p.tp1 = x.pos.tp1 /\ p.beMoved /\ p.phase = x.pos.phase
    BY <1>1, OptionalAssumption DEF Position
  <2>2. [x EXCEPT !.pos.beMoved = TRUE] = x1
    BY <1>1 DEF Engine
  <2>3. Eng!MoveToBreakeven(x, price) = Eng!RatchetStop(x1, x.pos.entry)
    BY <1>2, <2>2 DEF Eng!MoveToBreakeven
  <2> HIDE DEF p
  <2>4. x1 \in Engine /\ x1.pos = p
    BY <1>1, <2>1 DEF Engine
  <2>5. CASE Eng!Tighter(p.side, x.pos.entry, p.stop)
    <3>1. /\ q \in Position /\ q # None /\ q.side = x.pos.side /\ q.entry = x.pos.entry
          /\ q.stop = x.pos.entry /\ q.runnerQty = x.pos.runnerQty /\ q.qty = x.pos.qty
          /\ q.tp1 = x.pos.tp1 /\ q.beMoved /\ q.phase = x.pos.phase
      BY <1>1, <2>1, OptionalAssumption DEF Position
    <3>2. [x1 EXCEPT !.pos.stop = x.pos.entry] = [x EXCEPT !.pos = q]
      BY <1>1, <2>4 DEF Engine
    <3>3. Eng!RatchetStop(x1, x.pos.entry)
            = Eng!Emit([x1 EXCEPT !.pos.stop = x.pos.entry], Eng!ModifyPrice(x.pos.entry))
      BY <2>4, <2>5 DEF Eng!RatchetStop
    <3> DEFINE y == Eng!Emit([x EXCEPT !.pos = q], Eng!ModifyPrice(q.stop))
    <3>4. Eng!MoveToBreakeven(x, price) = y
      BY <2>3, <3>1, <3>2, <3>3
    <3> HIDE DEF q
    <3>5. /\ Tighter(x.pos.side, x.pos.entry, x.pos.stop)
          /\ ~Tighter(x.pos.side, x.pos.stop, x.pos.entry)
          /\ ~Tighter(x.pos.side, x.pos.entry, x.pos.entry)
      BY <1>1, <2>1, <2>5, TighterOrder DEF Position
    <3>6. PositionSound(q)
      BY <1>1, <3>1, <3>5 DEF PositionSound, RiskFree
    <3>7. Tightens(x.pos, q)
      BY <3>1, <3>5 DEF Tightens
    <3>8. Managed(x, y) /\ y.pos = q
      BY <3>1, <3>6, <3>7, StopMoveManaged
    <3> HIDE DEF y
    <3> QED
      BY <3>1, <3>4, <3>8
  <2>6. CASE ~Eng!Tighter(p.side, x.pos.entry, p.stop)
    <3>1. Eng!MoveToBreakeven(x, price) = x1
      BY <2>3, <2>4, <2>6 DEF Eng!RatchetStop
    <3>2. /\ ~Tighter(x.pos.side, x.pos.entry, x.pos.stop)
          /\ ~Tighter(x.pos.side, x.pos.stop, x.pos.stop)
      BY <1>1, <2>1, <2>6, TighterOrder DEF Position
    <3>3. PositionSound(p)
      BY <1>1, <2>1, <3>2 DEF PositionSound, RiskFree
    <3>4. Tightens(x.pos, p)
      BY <2>1, <3>2 DEF Tightens
    <3>5. Managed(x, x1) /\ x1.pos = p
      BY <2>1, <3>3, <3>4, RemarkManaged
    <3> HIDE DEF x1
    <3> QED
      BY <2>1, <3>1, <3>5
  <2> QED
    BY <2>5, <2>6
<1>3. CASE ~(~x.pos.beMoved /\ Eng!RAtLeast(x.pos, price, BreakevenR))
  <2>1. Eng!MoveToBreakeven(x, price) = x
    BY <1>3 DEF Eng!MoveToBreakeven
  <2> QED
    BY <1>3, <2>1, ManagedReflexive
<1> QED
  BY <1>2, <1>3

(* The whipsaw guard only tightens.                                        *)
LEMMA WhipsawCheckManaged ==
  ASSUME NEW x, Core(x), NEW t
  PROVE  Managed(x, Eng!WhipsawCheck(x, t))
<1>1. CASE x.pos = None \/ t < WhipsawTime \/ x.pos.whipsaw
  <2>1. Eng!WhipsawCheck(x, t) = x
    BY <1>1 DEF Eng!WhipsawCheck
  <2> QED
    BY <2>1, ManagedReflexive
<1>2. CASE ~(x.pos = None \/ t < WhipsawTime \/ x.pos.whipsaw)
  <2> DEFINE p == [x.pos EXCEPT !.whipsaw = TRUE]
             x1 == [x EXCEPT !.pos = p]
  <2>1. x \in Engine /\ x.pos \in Position /\ PositionSound(x.pos)
    BY <1>2, OpenFacts
  <2>2. /\ p \in Position /\ p # None /\ p.side = x.pos.side /\ p.entry = x.pos.entry
        /\ p.stop = x.pos.stop /\ p.runnerQty = x.pos.runnerQty /\ p.qty = x.pos.qty
        /\ p.tp1 = x.pos.tp1 /\ p.beMoved = x.pos.beMoved /\ p.phase = x.pos.phase
    BY <2>1, OptionalAssumption DEF Position
  <2>3. [x EXCEPT !.pos.whipsaw = TRUE] = x1
    BY <2>1 DEF Engine
  <2>4. Eng!WhipsawCheck(x, t) \in {x1, Eng!RatchetStop(x1, x.pos.entry)}
    BY <1>2, <2>3 DEF Eng!WhipsawCheck
  <2> HIDE DEF p
  <2>5. ~Tighter(x.pos.side, x.pos.stop, x.pos.stop)
    BY <2>1, TighterOrder DEF Position
  <2>6. PositionSound(p) /\ Tightens(x.pos, p)
    BY <2>1, <2>2, <2>5 DEF PositionSound, RiskFree, Tightens
  <2>7. Managed(x, x1) /\ x1.pos = p
    BY <1>2, <2>2, <2>6, RemarkManaged
  <2> HIDE DEF x1
  <2>8. Managed(x1, Eng!RatchetStop(x1, x.pos.entry))
    BY <2>1, <2>2, <2>7, RatchetStopManaged DEF Managed, Position
  <2>9. Managed(x, Eng!RatchetStop(x1, x.pos.entry))
    BY <2>7, <2>8, ManagedTransitive
  <2> QED
    BY <2>4, <2>7, <2>9
<1> QED
  BY <1>1, <1>2

-----------------------------------------------------------------------------
(* TP1.                                                                    *)

(* TP1 closes between none and all of the contracts, and all only when the *)
(* configuration says so.                                                  *)
LEMMA Tp1CloseQtyBounds ==
  ASSUME NEW p \in Position
  PROVE  /\ Eng!Tp1CloseQty(p) \in Nat /\ Eng!Tp1CloseQty(p) <= p.qty
         /\ Tp1ClosePct < 100 => Eng!Tp1CloseQty(p) < p.qty
<1> DEFINE n == p.qty * Tp1ClosePct
           k == 100 - Tp1ClosePct
<1>1. p.qty \in Nat /\ p.qty > 0 /\ k \in Nat /\ Tp1ClosePct \in Nat /\ Tp1ClosePct = 100 - k
  BY ExitsAssumption DEF Position
<1>2. n = p.qty * 100 - p.qty * k /\ n \in Nat
  <2> HIDE DEF k
  <2> QED
    BY <1>1
<1>3. p.qty * k \in Nat /\ (k > 0 => p.qty * k > 0)
  <2> HIDE DEF k
  <2> QED
    BY <1>1
<1>4. Tp1ClosePct < 100 => k > 0
  BY <1>1
<1>5. Eng!Tp1CloseQty(p) = n \div 100
  BY DEF Eng!Tp1CloseQty
<1> HIDE DEF n, k
<1>6. n <= p.qty * 100 /\ (Tp1ClosePct < 100 => n < p.qty * 100)
  BY <1>1, <1>2, <1>3, <1>4
<1> QED
  BY <1>1, <1>2, <1>5, <1>6

(* The position after TP1 is marked on it, and the engine with the P&L of  *)
(* the contracts it closes.                                                *)
AfterTp1(p) == [p EXCEPT !.tp1 = TRUE, !.runnerQty = p.qty - Eng!Tp1CloseQty(p)]

Booked(x, price) ==
  [x EXCEPT !.pos = AfterTp1(x.pos),
            !.pnl = x.pnl + Eng!PnlUsd(x.pos, price, Eng!Tp1CloseQty(x.pos))]

(* What TP1 leaves of the position.                                        *)
LEMMA AfterTp1Facts ==
  ASSUME NEW p \in Position
  PROVE  LET q == AfterTp1(p) IN
         /\ q \in Position /\ q # None /\ q.tp1 /\ q.side = p.side /\ q.entry = p.entry
         /\ q.stop = p.stop /\ q.beMoved = p.beMoved /\ q.phase = p.phase /\ q.qty = p.qty
         /\ q.runnerQty = p.qty - Eng!Tp1CloseQty(p)
         /\ q.runnerQty \in Nat
<1> DEFINE left == p.qty - Eng!Tp1CloseQty(p)
           q == [p EXCEPT !.tp1 = TRUE, !.runnerQty = left]
<1>1. left \in Nat
  BY Tp1CloseQtyBounds DEF Position
<1> HIDE DEF left
<1>2. /\ q \in Position /\ q.tp1 /\ q.side = p.side /\ q.entry = p.entry
      /\ q.stop = p.stop /\ q.beMoved = p.beMoved /\ q.phase = p.phase /\ q.qty = p.qty
      /\ q.runnerQty = left
  BY <1>1 DEF Position
<1>3. AfterTp1(p) = q
  BY DEF AfterTp1, left
<1> HIDE DEF q
<1> QED
  BY <1>1, <1>2, <1>3, OptionalAssumption DEF left

(* What TP1 leaves of the position is sound if anything is left, and its   *)
(* stop has not moved.                                                     *)
LEMMA AfterTp1Sound ==
  ASSUME NEW p \in Position, PositionSound(p), p.beMoved, AfterTp1(p).runnerQty > 0
  PROVE  PositionSound(AfterTp1(p)) /\ Tightens(p, AfterTp1(p))
<1> DEFINE q == AfterTp1(p)
<1>1. /\ q \in Position /\ q.tp1 /\ q.side = p.side /\ q.entry = p.entry /\ q.stop = p.stop
      /\ q.beMoved = p.beMoved /\ q.phase = p.phase
  BY AfterTp1Facts
<1>2. ~Tighter(p.side, p.stop, p.stop)
  BY TighterOrder DEF Position
<1> HIDE DEF q
<1>3. q.runnerQty > 0
  BY DEF q
<1>4. PositionSound(q) /\ Tightens(p, q)
  BY <1>1, <1>2, <1>3 DEF PositionSound, RiskFree, Tightens
<1> QED
  BY <1>4 DEF q

(* TP1's market close, before the stop is sized down or cancelled.         *)
LEMMA BookedFacts ==
  ASSUME NEW x, Core(x), x.pos # None, NEW price \in Int
  PROVE  LET b == Booked(x, price) IN
         /\ b \in Engine /\ Frame(x, b) /\ SameFlags(x, b) /\ b.sink = x.sink
         /\ b.pos = AfterTp1(x.pos)
<1> DEFINE p == AfterTp1(x.pos)
           g == x.pnl + Eng!PnlUsd(x.pos, price, Eng!Tp1CloseQty(x.pos))
           b == [x EXCEPT !.pos = p, !.pnl = g]
<1>1. x \in Engine /\ x.pos \in Position
  BY OpenFacts
<1>2. p \in Position
  BY <1>1, AfterTp1Facts
<1>3. g \in Int
  <2>1. Eng!PnlUsd(x.pos, price, Eng!Tp1CloseQty(x.pos)) \in Int
    BY <1>1, Tp1CloseQtyBounds, PnlIsInt
  <2> QED
    BY <1>1, <2>1 DEF Engine
<1>4. Booked(x, price) = b
  BY DEF Booked
<1> HIDE DEF p, g
<1>5. b \in Engine /\ Frame(x, b) /\ SameFlags(x, b) /\ b.sink = x.sink /\ b.pos = p
  BY <1>1, <1>2, <1>3 DEF Engine, Frame, SameFlags
<1> QED
  BY <1>4, <1>5 DEF p

(* Nothing is closed: the position is only marked.                         *)
LEMMA Tp1WithoutClose ==
  ASSUME NEW x, Core(x), x.pos # None, ~x.pos.tp1, x.pos.beMoved, NEW price \in Int,
         Eng!Tp1CloseQty(x.pos) = 0
  PROVE  Managed(x, Eng!HandleTp1(x, price))
<1> DEFINE p == AfterTp1(x.pos)
           y == [x EXCEPT !.pos = p]
<1>1. /\ x \in Engine /\ x.pos \in Position /\ PositionSound(x.pos)
  BY OpenFacts
<1>2. /\ p \in Position /\ p # None /\ p.side = x.pos.side /\ p.stop = x.pos.stop
      /\ p.runnerQty = x.pos.qty - Eng!Tp1CloseQty(x.pos)
  BY <1>1, AfterTp1Facts
<1>3. p.runnerQty = x.pos.runnerQty /\ p.runnerQty > 0
  BY <1>1, <1>2 DEF PositionSound, Position
<1>4. PositionSound(p) /\ Tightens(x.pos, p)
  BY <1>1, <1>3, AfterTp1Sound
<1>5. [x EXCEPT !.pos.tp1 = TRUE, !.pos.runnerQty = x.pos.qty - Eng!Tp1CloseQty(x.pos)] = y
  BY <1>1 DEF Engine, AfterTp1
<1>6. Eng!HandleTp1(x, price) =
        Eng!CheckDailyLossLimit(Eng!Emit(Eng!Emit(y, Eng!Alert), Eng!Notify("tp1")))
  <2>1. ~(x.pos.qty - Eng!Tp1CloseQty(x.pos) <= 0) /\ ~(Eng!Tp1CloseQty(x.pos) > 0)
    BY <1>1, <1>2, <1>3 DEF Position
  <2> HIDE DEF y, p
  <2> QED
    BY <1>5, <2>1, Zenon DEF Eng!HandleTp1
<1> HIDE DEF p
<1>7. Managed(x, y)
  BY <1>2, <1>3, <1>4, RemarkManaged
<1> HIDE DEF y
<1>8. Eng!HandleTp1(x, price) = Eng!CheckDailyLossLimit(y)
  BY <1>6, <1>7, NeutralEmit DEF Eng!Alert, Eng!Notify, Managed, Core
<1>9. Managed(y, Eng!CheckDailyLossLimit(y))
  BY <1>7, CheckDailyLossLimitManaged DEF Managed
<1> QED
  BY <1>7, <1>8, <1>9, ManagedTransitive

(* Contracts are closed: the engine before the limit is looked at.         *)
Tp1Sized(x, price) ==
  LET left == x.pos.qty - Eng!Tp1CloseQty(x.pos)
  IN  Eng!Emit(Booked(x, price), IF left > 0 THEN Eng!ModifyQty(left) ELSE Eng!Cancel("stop_loss"))

(* HandleTp1 in these terms: the market close and the notifications are    *)
(* nothing to the venue.                                                   *)
LEMMA HandleTp1Unfolded ==
  ASSUME NEW x, Core(x), x.pos # None, NEW price \in Int, Eng!Tp1CloseQty(x.pos) > 0,
         Tp1Sized(x, price) \in Engine
  PROVE  Eng!HandleTp1(x, price) =
           Eng!CheckDailyLossLimit(IF x.pos.qty - Eng!Tp1CloseQty(x.pos) <= 0
                                   THEN [Tp1Sized(x, price) EXCEPT !.pos = None]
                                   ELSE Tp1Sized(x, price))
<1> DEFINE q    == Eng!Tp1CloseQty(x.pos)
           left == x.pos.qty - q
           mark == [x EXCEPT !.pos.tp1 = TRUE, !.pos.runnerQty = left]
           book == [mark EXCEPT !.pnl = @ + Eng!PnlUsd(x.pos, price, q)]
           b    == Booked(x, price)
           s    == Tp1Sized(x, price)
<1>1. x \in Engine /\ x.pos \in Position
  BY OpenFacts
<1>2. book = b
  BY <1>1 DEF Booked, AfterTp1, Engine
<1>3. b \in Engine
  BY BookedFacts
<1> HIDE DEF book, b
<1>4. Eng!Emit(b, Eng!CloseMarket(q)) = b
  BY <1>3, NeutralEmit DEF Eng!CloseMarket
<1>5. s = Eng!Emit(b, IF left > 0 THEN Eng!ModifyQty(left) ELSE Eng!Cancel(Eng!StopLoss))
  BY DEF Tp1Sized, b, Eng!StopLoss
<1> HIDE DEF s
<1>6. s \in Engine
  BY DEF s
<1>7. Eng!Emit(s, Eng!Notify("tp1")) = s
  BY <1>6, NeutralEmit DEF Eng!Notify
<1>8. Eng!HandleTp1(x, price) =
        LET sized == Eng!Emit(Eng!Emit(book, Eng!CloseMarket(q)),
                              IF left > 0 THEN Eng!ModifyQty(left) ELSE Eng!Cancel(Eng!StopLoss))
            told  == Eng!Emit(sized, Eng!Notify("tp1"))
        IN  Eng!CheckDailyLossLimit(IF left <= 0 THEN [told EXCEPT !.pos = None] ELSE told)
  BY DEF Eng!HandleTp1, book
<1>9. Eng!HandleTp1(x, price) =
        Eng!CheckDailyLossLimit(IF left <= 0 THEN [s EXCEPT !.pos = None] ELSE s)
  BY <1>2, <1>4, <1>5, <1>7, <1>8
<1> QED
  BY <1>9 DEF s

(* Some contracts are closed and the stop is sized down to the rest.       *)
LEMMA Tp1Partial ==
  ASSUME NEW x, Core(x), x.pos # None, ~x.pos.tp1, x.pos.beMoved, NEW price \in Int,
         Eng!Tp1CloseQty(x.pos) > 0, Eng!Tp1CloseQty(x.pos) < x.pos.qty
  PROVE  Managed(x, Eng!HandleTp1(x, price))
<1> DEFINE left == x.pos.qty - Eng!Tp1CloseQty(x.pos)
           p == AfterTp1(x.pos)
           b == Booked(x, price)
           y == Tp1Sized(x, price)
<1>1. /\ x \in Engine /\ x.pos \in Position /\ x.placed /\ x.done /\ PositionSound(x.pos)
      /\ x.sink.orders \subseteq VenueOrder /\ Protected(x) /\ Reported(x)
  BY OpenFacts
<1>2. left \in Nat \ {0}
  BY <1>1, Tp1CloseQtyBounds DEF Position
<1>3. /\ p \in Position /\ p # None /\ p.side = x.pos.side /\ p.stop = x.pos.stop
      /\ p.runnerQty = left
  BY <1>1, AfterTp1Facts
<1>4. PositionSound(p) /\ Tightens(x.pos, p)
  BY <1>1, <1>2, <1>3, AfterTp1Sound
<1>5. b \in Engine /\ Frame(x, b) /\ SameFlags(x, b) /\ b.sink = x.sink /\ b.pos = p
  BY BookedFacts
<1>6. y = Eng!Emit(b, Eng!ModifyQty(left))
  BY <1>2 DEF Tp1Sized
<1>7. Eng!Tp1CloseQty(x.pos) > 0 /\ ~(left <= 0)
  BY <1>2
<1> HIDE DEF left, p, b
<1>8. /\ y \in Engine /\ SameEngine(b, y)
      /\ y.sink.orders = Resized(b.sink.orders, left)
      /\ y.sink.trades = b.sink.trades /\ y.sink.exits = b.sink.exits
  BY <1>2, <1>5, <1>6, EmitModifyQty
<1>9. Eng!HandleTp1(x, price) = Eng!CheckDailyLossLimit(y)
  BY <1>7, <1>8, HandleTp1Unfolded DEF left
<1> HIDE DEF y
<1>10. Frame(x, y) /\ SameFlags(x, y) /\ y.pos = p
  BY <1>5, <1>8 DEF SameEngine, Frame, SameFlags
<1>11. PICK o \in x.sink.orders : Protects(o, x.pos)
  BY <1>1 DEF Protected
<1>12. SameEntries(x.sink.orders, y.sink.orders)
  <2>1. SameEntries(x.sink.orders, Resized(x.sink.orders, left))
    BY <1>1, <1>11, StopChangesKeepEntries DEF Protects
  <2> QED
    BY <1>5, <1>8, <2>1
<1>13. Protected(y)
  <2>1. [o EXCEPT !.qty = left] \in y.sink.orders
    BY <1>5, <1>8, <1>11 DEF Resized, Protects
  <2>2. Protects([o EXCEPT !.qty = left], p)
    BY <1>1, <1>3, <1>11 DEF Protects, VenueOrder
  <2> QED
    BY <1>10, <2>1, <2>2 DEF Protected
<1>14. Reported(y)
  BY <1>1, <1>3, <1>5, <1>8, <1>10 DEF Reported
<1>15. Core(y) /\ (Withdrawn(x) => Withdrawn(y))
  <2>1. y.canceled = x.canceled /\ y.done /\ PositionSound(y.pos) /\ y \in Engine /\ Frame(x, y)
    BY <1>1, <1>4, <1>8, <1>10 DEF SameFlags
  <2>2. x.placed
    BY <1>1
  <2> QED
    BY <1>12, <1>13, <1>14, <2>1, <2>2, CoreOfStops
<1>16. Settled(x, y)
  BY <1>4, <1>10, <1>15 DEF Settled, SameFlags, Tidy
<1> QED
  BY <1>9, <1>16, SettledManaged

(* Everything is closed: the position ends without an exit notification.   *)
LEMMA Tp1Whole ==
  ASSUME NEW x, Core(x), x.pos # None, ~x.pos.tp1, x.pos.beMoved, NEW price \in Int,
         Eng!Tp1CloseQty(x.pos) = x.pos.qty
  PROVE  Managed(x, Eng!HandleTp1(x, price))
<1> DEFINE left == x.pos.qty - Eng!Tp1CloseQty(x.pos)
           b == Booked(x, price)
           s == Tp1Sized(x, price)
           y == [s EXCEPT !.pos = None]
<1>1. /\ x \in Engine /\ x.pos \in Position /\ x.placed /\ x.done
      /\ x.sink.orders \subseteq VenueOrder /\ Protected(x)
  BY OpenFacts
<1>2. left = 0 /\ Eng!Tp1CloseQty(x.pos) > 0 /\ ~(Tp1ClosePct < 100)
  BY <1>1, Tp1CloseQtyBounds DEF Position
<1>3. b \in Engine /\ Frame(x, b) /\ SameFlags(x, b) /\ b.sink = x.sink
  BY BookedFacts
<1>4. s = Eng!Emit(b, Eng!Cancel("stop_loss"))
  BY <1>2 DEF Tp1Sized
<1> HIDE DEF b
<1>5. /\ s \in Engine /\ SameEngine(b, s)
      /\ s.sink.orders = Cancelled(b.sink.orders, "stop_loss")
  BY <1>3, <1>4, EmitCancel
<1>6. Eng!HandleTp1(x, price) = Eng!CheckDailyLossLimit(y)
  <2>1. Eng!HandleTp1(x, price) =
          Eng!CheckDailyLossLimit(IF left <= 0 THEN y ELSE s)
    BY <1>2, <1>5, HandleTp1Unfolded
  <2> HIDE DEF y, s, left
  <2> QED
    BY <1>2, <2>1
<1> HIDE DEF s
<1>7. y \in Engine /\ y.pos = None /\ y.sink = s.sink /\ Frame(s, y) /\ SameFlags(s, y)
  BY <1>5 DEF Engine, Frame, SameFlags
<1> HIDE DEF y
<1>8. /\ Frame(x, y) /\ SameFlags(x, y)
      /\ y.sink.orders = Cancelled(x.sink.orders, "stop_loss")
  BY <1>3, <1>5, <1>7 DEF SameEngine, Frame, SameFlags
<1>9. SameEntries(x.sink.orders, y.sink.orders)
  BY <1>1, <1>8, StopChangesKeepEntries DEF Protected, Protects
<1>10. Core(y) /\ (Withdrawn(x) => Withdrawn(y))
  <2>1. /\ y.canceled = x.canceled /\ y.pos = None /\ y \in Engine /\ Frame(x, y)
        /\ Protected(y) /\ Reported(y) /\ x.placed
    BY <1>1, <1>2, <1>7, <1>8 DEF SameFlags, Protected, Reported
  <2> QED
    BY <1>9, <2>1, CoreOfStops
<1>11. Settled(x, y)
  BY <1>7, <1>8, <1>10 DEF Settled, SameFlags, Tidy
<1> QED
  BY <1>6, <1>11, SettledManaged

(* TP1, whatever it closes.                                                *)
LEMMA HandleTp1Managed ==
  ASSUME NEW x, Core(x), x.pos # None, ~x.pos.tp1, x.pos.beMoved, NEW price \in Int
  PROVE  Managed(x, Eng!HandleTp1(x, price))
<1>1. x.pos \in Position
  BY OpenFacts
<1>2. \/ Eng!Tp1CloseQty(x.pos) = 0 \/ Eng!Tp1CloseQty(x.pos) = x.pos.qty
      \/ Eng!Tp1CloseQty(x.pos) > 0 /\ Eng!Tp1CloseQty(x.pos) < x.pos.qty
  BY <1>1, Tp1CloseQtyBounds DEF Position
<1> QED
  BY <1>2, Tp1WithoutClose, Tp1Whole, Tp1Partial

-----------------------------------------------------------------------------
(* The runner.                                                             *)

(* What the indicators say, when they say anything, are prices.            *)
CandleKnown(candle) ==
  candle # None =>
    /\ candle.sma \in Int \cup {None} /\ candle.close \in Int
    /\ candle.trail # None => candle.trail.low \in Int /\ candle.trail.high \in Int

(* The old runner ratchets or exits.                                       *)
LEMMA ManageRunnerOldManaged ==
  ASSUME NEW x, Core(x), x.pos # None, NEW price \in Int, NEW candle, CandleKnown(candle)
  PROVE  Managed(x, Eng!ManageRunnerOld(x, price, candle))
<1>1. Managed(x, x) /\ Managed(x, Eng!ExitPositionMarket(x, price))
  BY ManagedReflexive, ExitPositionMarketManaged
<1>2. CASE candle = None
  BY <1>1, <1>2 DEF Eng!ManageRunnerOld
<1>3. CASE candle # None /\ candle.sma = None
  BY <1>1, <1>3 DEF Eng!ManageRunnerOld
<1>4. CASE candle # None /\ candle.sma # None
  <2> DEFINE r == Eng!RatchetStop(x, candle.sma)
  <2>1. candle.sma \in Int
    BY <1>4 DEF CandleKnown
  <2>2. Managed(x, r) /\ r.pos # None
    BY <2>1, RatchetStopManaged
  <2>3. Managed(r, Eng!ExitPositionMarket(r, price))
    BY <2>2, ExitPositionMarketManaged DEF Managed
  <2>4. Managed(x, Eng!ExitPositionMarket(r, price))
    BY <2>2, <2>3, ManagedTransitive
  <2>5. Eng!ManageRunnerOld(x, price, candle)
          \in {Eng!ExitPositionMarket(x, price), Eng!ExitPositionMarket(r, price), r}
    BY <1>4 DEF Eng!ManageRunnerOld
  <2> HIDE DEF r
  <2> QED
    BY <1>1, <2>2, <2>4, <2>5
<1> QED
  BY <1>2, <1>3, <1>4

(* Phase B of the new runner ratchets to a candle.                         *)
LEMMA TrailCandleManaged ==
  ASSUME NEW x, Core(x), x.pos # None, NEW candle, candle # None, CandleKnown(candle)
  PROVE  Managed(x, Eng!TrailCandle(x, candle))
<1>1. CASE candle.trail = None
  BY <1>1, ManagedReflexive DEF Eng!TrailCandle
<1>2. CASE candle.trail # None
  <2> DEFINE c == IF x.pos.side = "long" THEN candle.trail.low ELSE candle.trail.high
  <2>1. c \in Int
    BY <1>2 DEF CandleKnown
  <2>2. Eng!TrailCandle(x, candle) = Eng!RatchetStop(x, c)
    BY <1>2 DEF Eng!TrailCandle
  <2> HIDE DEF c
  <2> QED
    BY <2>1, <2>2, RatchetStopManaged
<1> QED
  BY <1>1, <1>2

(* Phase A of the new runner follows its average, but not past the entry.  *)
LEMMA FollowAverageManaged ==
  ASSUME NEW x, Core(x), x.pos # None, x.pos.tp1, x.pos.phase = "A", NEW sma \in Int
  PROVE  LET y == Eng!FollowAverage(x, sma) IN
         Managed(x, y) /\ y.pos # None /\ y.pos.tp1 /\ y.pos.phase = "A"
<1> DEFINE c == IF x.pos.side = "long" THEN Eng!Greater(x.pos.entry, sma)
                ELSE Eng!Smaller(x.pos.entry, sma)
           p == [x.pos EXCEPT !.stop = c]
<1>1. x \in Engine /\ x.pos \in Position /\ PositionSound(x.pos)
  BY OpenFacts
<1>2. c \in Int /\ ~Tighter(x.pos.side, x.pos.entry, c)
  BY <1>1 DEF Eng!Greater, Eng!Smaller, Tighter, Position, Sides
<1>3. CASE c # x.pos.stop
  <2>1. Eng!FollowAverage(x, sma) = Eng!Emit([x EXCEPT !.pos.stop = c], Eng!ModifyPrice(c))
    BY <1>3 DEF Eng!FollowAverage
  <2> HIDE DEF c
  <2>2. /\ p \in Position /\ p # None /\ p.side = x.pos.side /\ p.entry = x.pos.entry
        /\ p.stop = c /\ p.runnerQty = x.pos.runnerQty /\ p.qty = x.pos.qty
        /\ p.tp1 = x.pos.tp1 /\ p.beMoved = x.pos.beMoved /\ p.phase = x.pos.phase
    BY <1>1, <1>2, OptionalAssumption DEF Position
  <2>3. [x EXCEPT !.pos.stop = c] = [x EXCEPT !.pos = p]
    BY <1>1 DEF Engine
  <2> HIDE DEF p
  <2>4. PositionSound(p) /\ Tightens(x.pos, p)
    BY <1>1, <1>2, <2>2 DEF PositionSound, RiskFree, Tightens
  <2> DEFINE y == Eng!Emit([x EXCEPT !.pos = p], Eng!ModifyPrice(p.stop))
  <2>5. Managed(x, y) /\ y.pos = p
    BY <2>2, <2>4, StopMoveManaged
  <2>6. Eng!FollowAverage(x, sma) = y
    BY <2>1, <2>2, <2>3
  <2> HIDE DEF y
  <2> QED
    BY <2>2, <2>5, <2>6
<1>4. CASE c = x.pos.stop
  <2>1. Eng!FollowAverage(x, sma) = x
    BY <1>4 DEF Eng!FollowAverage
  <2> QED
    BY <2>1, ManagedReflexive
<1> QED
  BY <1>3, <1>4

(* The new runner, through its change of phase.                            *)
LEMMA ManageRunnerNewManaged ==
  ASSUME NEW x, Core(x), x.pos # None, x.pos.tp1, NEW candle, CandleKnown(candle)
  PROVE  Managed(x, Eng!ManageRunnerNew(x, candle))
<1>1. CASE candle = None
  BY <1>1, ManagedReflexive DEF Eng!ManageRunnerNew
<1>2. CASE candle # None /\ candle.sma = None
  BY <1>2, ManagedReflexive DEF Eng!ManageRunnerNew
<1>3. CASE candle # None /\ candle.sma # None /\ x.pos.phase # "A"
  <2>1. Managed(x, Eng!TrailCandle(x, candle))
    BY <1>3, TrailCandleManaged
  <2> QED
    BY <1>3, <2>1 DEF Eng!ManageRunnerNew
<1>4. CASE candle # None /\ candle.sma # None /\ x.pos.phase = "A"
  <2> DEFINE f == Eng!FollowAverage(x, candle.sma)
             p == [f.pos EXCEPT !.phase = "B"]
             y == [f EXCEPT !.pos = p]
  <2>1. candle.sma \in Int
    BY <1>4 DEF CandleKnown
  <2>2. Managed(x, f) /\ f.pos # None /\ f.pos.tp1 /\ f.pos.phase = "A"
    BY <1>4, <2>1, FollowAverageManaged
  <2>3. Eng!ManageRunnerNew(x, candle)
          \in {f, Eng!TrailCandle(Eng!Emit([f EXCEPT !.pos.phase = "B"],
                                           Eng!Notify("runner_phase_change")), candle)}
    BY <1>4 DEF Eng!ManageRunnerNew
  <2> HIDE DEF f
  <2>4. /\ Core(f) /\ f \in Engine /\ f.pos \in Position /\ PositionSound(f.pos)
    BY <2>2, OpenFacts DEF Managed
  <2>5. /\ p \in Position /\ p # None /\ p.side = f.pos.side /\ p.entry = f.pos.entry
        /\ p.stop = f.pos.stop /\ p.runnerQty = f.pos.runnerQty /\ p.qty = f.pos.qty
        /\ p.tp1 = f.pos.tp1 /\ p.beMoved = f.pos.beMoved /\ p.phase = "B"
    BY <2>4, OptionalAssumption DEF Position
  <2>6. [f EXCEPT !.pos.phase = "B"] = y
    BY <2>4 DEF Engine
  <2> HIDE DEF p
  <2>7. PositionSound(p) /\ Tightens(f.pos, p)
    BY <2>2, <2>4, <2>5 DEF PositionSound, RiskFree, Tightens
  <2>8. Managed(f, y) /\ y.pos = p
    BY <2>2, <2>4, <2>5, <2>7, RemarkManaged
  <2> HIDE DEF y
  <2>9. Eng!Emit(y, Eng!Notify("runner_phase_change")) = y
    BY <2>8, NeutralEmit DEF Eng!Notify, Managed, Core
  <2>10. Managed(y, Eng!TrailCandle(y, candle))
    BY <1>4, <2>5, <2>8, TrailCandleManaged DEF Managed
  <2>11. Managed(x, Eng!TrailCandle(y, candle))
    <3>1. Managed(f, Eng!TrailCandle(y, candle))
      BY <2>4, <2>8, <2>10, ManagedTransitive
    <3> QED
      BY <2>2, <3>1, ManagedTransitive
  <2> QED
    BY <2>2, <2>3, <2>6, <2>9, <2>11
<1> QED
  BY <1>1, <1>2, <1>3, <1>4

(* Everything on_bar does to an open position.                             *)
LEMMA ManagePositionOnBarManaged ==
  ASSUME NEW x, Core(x), x.pos # None, NEW price \in Int, NEW candle, CandleKnown(candle)
  PROVE  Managed(x, Eng!ManagePositionOnBar(x, price, candle))
<1> DEFINE s == Eng!MoveToBreakeven(x, price)
           h == IF ~s.pos.tp1 /\ Eng!RAtLeast(s.pos, price, Tp1R)
                THEN Eng!HandleTp1(s, price) ELSE s
           r == Eng!ManageRunner(h, price, candle)
<1>1. /\ Managed(x, s) /\ s.pos # None
      /\ Eng!RAtLeast(s.pos, price, BreakevenR) => s.pos.beMoved
  BY MoveToBreakevenManaged
<1>2. Eng!ManagePositionOnBar(x, price, candle)
        = IF h.pos = None THEN h ELSE IF h.pos.tp1 THEN r ELSE h
  BY DEF Eng!ManagePositionOnBar
<1> HIDE DEF s
<1>3. Core(s) /\ s.pos \in Position
  BY <1>1, OpenFacts DEF Managed
<1>4. Managed(s, h)
  <2>1. CASE ~s.pos.tp1 /\ Eng!RAtLeast(s.pos, price, Tp1R)
    <3>1. s.pos.beMoved
      BY <1>1, <1>3, <2>1, Tp1BeyondBreakeven
    <3> QED
      BY <1>1, <1>3, <2>1, <3>1, HandleTp1Managed
  <2>2. CASE ~(~s.pos.tp1 /\ Eng!RAtLeast(s.pos, price, Tp1R))
    BY <1>3, <2>2, ManagedReflexive
  <2> QED
    BY <2>1, <2>2
<1> HIDE DEF h
<1>5. Managed(x, h)
  BY <1>1, <1>4, ManagedTransitive
<1>6. h.pos # None /\ h.pos.tp1 => Managed(h, r)
  BY <1>4, ManageRunnerOldManaged, ManageRunnerNewManaged DEF Eng!ManageRunner, Managed
<1>7. h.pos # None /\ h.pos.tp1 => Managed(x, r)
  BY <1>5, <1>6, ManagedTransitive
<1> HIDE DEF r
<1> QED
  BY <1>2, <1>5, <1>7

(* The four time-based checks, in their order.                             *)
LEMMA CheckTimeBasedActionsManaged ==
  ASSUME NEW x, Core(x), NEW t \in Nat
  PROVE  LET y == Eng!CheckTimeBasedActions(x, t) IN
         /\ Managed(x, y)
         /\ t >= HardClose => /\ y.pos = None /\ y.done /\ (y.placed => y.canceled)
                              /\ Tidy(y)
<1> DEFINE a == Eng!EntryCutoffCheck(x, t)
           b == Eng!WhipsawCheck(a, t)
           c == Eng!FomcCheck(b, t)
           y == Eng!HardCloseCheck(c, t)
<1>1. Eng!CheckTimeBasedActions(x, t) = y
  BY DEF Eng!CheckTimeBasedActions
<1>2. Managed(x, a)
  BY EntryCutoffCheckManaged
<1> HIDE DEF a
<1>3. Managed(a, b)
  BY <1>2, WhipsawCheckManaged DEF Managed
<1> HIDE DEF b
<1>4. Managed(b, c)
  BY <1>3, FomcCheckManaged DEF Managed
<1> HIDE DEF c
<1>5. /\ Managed(c, y)
      /\ t >= HardClose => /\ y.pos = None /\ y.done /\ (y.placed => y.canceled) /\ Tidy(y)
  BY <1>4, HardCloseCheckManaged DEF Managed
<1> HIDE DEF y
<1>6. Managed(x, b)
  BY <1>2, <1>3, ManagedTransitive
<1>7. Managed(x, c)
  BY <1>4, <1>6, ManagedTransitive
<1>8. Managed(x, y)
  BY <1>5, <1>7, ManagedTransitive
<1> QED
  BY <1>1, <1>5, <1>8

-----------------------------------------------------------------------------
(* The inductive invariant.                                                *)

(* The day may end before its range is final only at the hard close: a bar *)
(* that then finalizes it would otherwise leave entries resting.           *)
EndedEarly(x) == ~x.orFinal /\ x.done

Inv ==
  /\ Core(e) /\ Tidy(e)
  /\ now \in Nat
  /\ EndedEarly(e) => now >= HardClose

(* What no step may do to the stop, the limit and the halt.                *)
Legal(x, y) ==
  /\ x.pos # None /\ y.pos # None => Tightens(x.pos, y.pos)
  /\ y.pnl # x.pnl => LimitHeld(y)
  /\ y.halted => x.halted \/ Out(y)

-----------------------------------------------------------------------------
(* The opening range.                                                      *)

(* Before the orders are placed there is nothing to lose.                  *)
LEMMA UnplacedFacts ==
  ASSUME NEW x, Core(x), ~x.orFinal
  PROVE  x \in Engine /\ ~x.placed /\ x.sink.orders = {} /\ x.pos = None /\ ~x.canceled
BY DEF Core, RangeFixed

(* What part of a bar does to a day whose range is not final.              *)
Observed(x, y) ==
  /\ Core(y) /\ y.pos = x.pos /\ y.pnl = x.pnl /\ y.halted = x.halted
  /\ Tidy(x) /\ ~EndedEarly(x) => Tidy(y)
  /\ EndedEarly(y) => EndedEarly(x)

(* The range grows by a bar.                                               *)
LEMMA UpdateRangeCore ==
  ASSUME NEW x, Core(x), ~x.orFinal, NEW bar, bar.high \in Int, bar.low \in Int
  PROVE  LET y == Eng!UpdateRange(x, bar) IN
         Observed(x, y) /\ y.done = x.done /\ ~y.orFinal
<1> DEFINE h == IF x.orHigh = None THEN bar.high ELSE Eng!Greater(x.orHigh, bar.high)
           l == IF x.orLow = None THEN bar.low ELSE Eng!Smaller(x.orLow, bar.low)
           y == [x EXCEPT !.orHigh = h, !.orLow = l]
<1>1. x \in Engine /\ ~x.placed /\ x.sink.orders = {} /\ x.pos = None /\ ~x.canceled
  BY UnplacedFacts
<1>2. h \in Int /\ l \in Int
  BY <1>1 DEF Engine, Eng!Greater, Eng!Smaller
<1>3. Eng!UpdateRange(x, bar) = y
  BY <1>1 DEF Eng!UpdateRange, Engine
<1> HIDE DEF h, l
<1>4. /\ y \in Engine /\ y.orFinal = x.orFinal /\ y.placed = x.placed /\ y.pos = x.pos
      /\ y.done = x.done /\ y.pnl = x.pnl /\ y.halted = x.halted /\ y.canceled = x.canceled
      /\ y.sink = x.sink
  BY <1>1, <1>2 DEF Engine
<1> HIDE DEF y
<1>5. Core(y)
  BY <1>1, <1>4 DEF Core, EntriesKnown, Protected, Reported
<1> QED
  BY <1>1, <1>3, <1>4, <1>5 DEF Observed, Tidy, Withdrawn, EndedEarly

(* compute_position_size yields a count of contracts within the cap, or    *)
(* its refusal.                                                            *)
LEMMA SizeIsCapped ==
  ASSUME NEW equity \in Int, NEW d \in Int
  PROVE  Eng!ComputePositionSize(equity, d) \in 0..SanityCap
<1>1. CASE d <= 0
  BY <1>1, RiskAssumption DEF Eng!ComputePositionSize, Eng!Refused
<1>2. CASE d > 0
  <2> DEFINE unit == d * PointValue
             raw == (equity * RiskBp) \div (unit * 10000)
  <2>1. unit \in Int /\ unit > 0
    <3>1. PointValue \in Int /\ PointValue > 0
      BY SafetyAssumption
    <3> QED
      BY <1>2, <3>1
  <2>2. equity * RiskBp \in Int
    BY RiskAssumption
  <2> HIDE DEF unit
  <2>3. raw \in Int
    BY <2>1, <2>2
  <2> HIDE DEF raw
  <2>4. Eng!Greater(MinContracts, raw) \in Nat
    BY <2>3, RiskAssumption DEF Eng!Greater
  <2>5. SizingMode = "fixed" => FixedContracts \in 0..SanityCap
    BY RiskAssumption, NoneAssumption
  <2>6. SanityCap \in Nat
    BY RiskAssumption
  <2> QED
    BY <2>4, <2>5, <2>6 DEF Eng!ComputePositionSize, Eng!Refused, raw, unit
<1> QED
  BY <1>1, <1>2

(* A range that is not traded ends the day with nothing sent.              *)
LEMMA NoTradeCore ==
  ASSUME NEW x, Core(x), ~x.orFinal
  PROVE  LET y == [x EXCEPT !.orFinal = TRUE, !.done = TRUE] IN
         Observed(x, y) /\ y \in Engine /\ y.orFinal
<1> DEFINE y == [x EXCEPT !.orFinal = TRUE, !.done = TRUE]
<1>1. x \in Engine /\ ~x.placed /\ x.sink.orders = {} /\ x.pos = None /\ ~x.canceled
  BY UnplacedFacts
<1>2. /\ y \in Engine /\ y.orFinal /\ y.placed = x.placed /\ y.pos = x.pos
      /\ y.pnl = x.pnl /\ y.halted = x.halted /\ y.canceled = x.canceled
      /\ y.sink = x.sink
  BY <1>1 DEF Engine
<1> HIDE DEF y
<1>3. Core(y)
  BY <1>1, <1>2 DEF Core, EntriesKnown, Protected, Reported
<1> QED
  BY <1>1, <1>2, <1>3 DEF Observed, Tidy, Withdrawn, EndedEarly, y

(* The bracket goes out at the edges of the range.                         *)
LEMMA BracketCore ==
  ASSUME NEW x, Core(x), ~x.orFinal, x.orHigh \in Int, x.orLow \in Int,
         x.orHigh - x.orLow \in MinWidth..MaxWidth, NEW qty \in (0..SanityCap) \ {0}
  PROVE  LET a == [x EXCEPT !.orFinal = TRUE, !.entryQty = qty, !.placed = TRUE]
             b == Eng!Emit(a, Eng!Place("entry_long", "long", x.orHigh + Buffer, qty))
             y == Eng!Emit(b, Eng!Place("entry_short", "short", x.orLow - Buffer, qty))
         IN  Observed(x, y) /\ y \in Engine /\ y.orFinal
<1> DEFINE a == [x EXCEPT !.orFinal = TRUE, !.entryQty = qty, !.placed = TRUE]
           b == Eng!Emit(a, Eng!Place("entry_long", "long", x.orHigh + Buffer, qty))
           y == Eng!Emit(b, Eng!Place("entry_short", "short", x.orLow - Buffer, qty))
           o == [ref |-> "entry_long", side |-> "long", price |-> x.orHigh + Buffer,
                 qty |-> qty, state |-> "working"]
           r == [ref |-> "entry_short", side |-> "short", price |-> x.orLow - Buffer,
                 qty |-> qty, state |-> "working"]
<1>1. x \in Engine /\ ~x.placed /\ x.sink.orders = {} /\ x.pos = None /\ ~x.canceled
  BY UnplacedFacts
<1>2. /\ qty \in Nat \ {0} /\ x.orHigh > x.orLow
      /\ x.orHigh + Buffer \in Int /\ x.orLow - Buffer \in Int
  BY RangeAssumption, RiskAssumption
<1>3. /\ a \in Engine /\ a.orFinal /\ a.placed /\ a.entryQty = qty /\ a.orHigh = x.orHigh
      /\ a.orLow = x.orLow /\ a.pos = x.pos /\ a.done = x.done
      /\ a.pnl = x.pnl /\ a.halted = x.halted /\ a.canceled = x.canceled /\ a.sink = x.sink
  BY <1>1 DEF Engine
<1> HIDE DEF a
<1>4. /\ b \in Engine /\ SameEngine(a, b) /\ b.sink.orders = a.sink.orders \cup {o}
      /\ b.sink.trades = a.sink.trades /\ b.sink.exits = a.sink.exits
  <2> DEFINE hp == x.orHigh + Buffer
  <2>1. hp \in Int /\ qty \in Nat \ {0} /\ "long" \in Sides
    BY <1>2 DEF Sides
  <2> HIDE DEF hp
  <2>2. LET z == Eng!Emit(a, Eng!Place("entry_long", "long", hp, qty)) IN
        /\ z \in Engine /\ SameEngine(a, z)
        /\ z.sink.orders = a.sink.orders \cup
             {[ref |-> "entry_long", side |-> "long", price |-> hp,
               qty |-> qty, state |-> "working"]}
        /\ z.sink.trades = a.sink.trades /\ z.sink.exits = a.sink.exits
    BY <1>3, <2>1, EmitPlace
  <2> QED
    BY <2>2 DEF hp
<1> HIDE DEF b
<1>5. /\ y \in Engine /\ SameEngine(b, y) /\ y.sink.orders = b.sink.orders \cup {r}
      /\ y.sink.trades = b.sink.trades /\ y.sink.exits = b.sink.exits
  <2> DEFINE lp == x.orLow - Buffer
  <2>1. lp \in Int /\ qty \in Nat \ {0} /\ "short" \in Sides
    BY <1>2 DEF Sides
  <2> HIDE DEF lp
  <2>2. LET z == Eng!Emit(b, Eng!Place("entry_short", "short", lp, qty)) IN
        /\ z \in Engine /\ SameEngine(b, z)
        /\ z.sink.orders = b.sink.orders \cup
             {[ref |-> "entry_short", side |-> "short", price |-> lp,
               qty |-> qty, state |-> "working"]}
        /\ z.sink.trades = b.sink.trades /\ z.sink.exits = b.sink.exits
    BY <1>4, <2>1, EmitPlace
  <2> QED
    BY <2>2 DEF lp
<1> HIDE DEF y
<1>6. /\ y.orFinal /\ y.placed /\ y.entryQty = qty /\ y.orHigh = x.orHigh
      /\ y.orLow = x.orLow /\ y.pos = None /\ y.done = x.done
      /\ y.pnl = x.pnl /\ y.halted = x.halted /\ ~y.canceled
      /\ y.sink.orders = {o, r}
      /\ y.sink.trades = x.sink.trades /\ y.sink.exits = x.sink.exits
  BY <1>1, <1>3, <1>4, <1>5 DEF SameEngine, Frame, SameFlags
<1>7. EntriesKnown(y)
  BY <1>6 DEF EntriesKnown
<1>8. Core(y)
  BY <1>1, <1>2, <1>5, <1>6, <1>7 DEF Core, RangeFixed, Protected, Reported
<1> QED
  BY <1>1, <1>5, <1>6, <1>8 DEF Observed, Tidy, EndedEarly, y, b, a

(* _finalize_opening_range, with every reason not to trade.                *)
LEMMA FinalizeOpeningRangeCore ==
  ASSUME NEW x, Core(x), ~x.orFinal
  PROVE  Observed(x, Eng!FinalizeOpeningRange(x))
<1> DEFINE stop == [x EXCEPT !.orFinal = TRUE, !.done = TRUE]
           fin  == [x EXCEPT !.orFinal = TRUE]
           w    == x.orHigh - x.orLow
           qty  == Eng!ComputePositionSize(x.equity, w + 2 * Buffer)
           a == [x EXCEPT !.orFinal = TRUE, !.entryQty = qty, !.placed = TRUE]
           b == Eng!Emit(a, Eng!Place("entry_long", "long", x.orHigh + Buffer, qty))
           y == Eng!Emit(b, Eng!Place("entry_short", "short", x.orLow - Buffer, qty))
           ready == /\ x.orHigh # None /\ x.orLow # None /\ w \in MinWidth..MaxWidth
                    /\ qty # Eng!Refused
<1>1. Observed(x, stop) /\ stop \in Engine
  BY NoTradeCore
<1>2. [fin EXCEPT !.done = TRUE] = stop /\ [fin EXCEPT !.entryQty = qty, !.placed = TRUE] = a
  OBVIOUS
<1>3. CASE ~ready
  <2>1. Eng!FinalizeOpeningRange(x)
          \in {Eng!Emit(stop, Eng!Alert), Eng!Emit(stop, Eng!Notify("no_trade"))}
    BY <1>2, <1>3 DEF Eng!FinalizeOpeningRange
  <2> HIDE DEF stop
  <2>2. Eng!Emit(stop, Eng!Alert) = stop /\ Eng!Emit(stop, Eng!Notify("no_trade")) = stop
    BY <1>1, NeutralEmit DEF Eng!Alert, Eng!Notify
  <2> QED
    BY <1>1, <2>1, <2>2
<1>4. CASE ready
  <2>1. x.orHigh \in Int /\ x.orLow \in Int /\ w \in MinWidth..MaxWidth /\ x.equity \in Int
    BY <1>4 DEF Core, Engine
  <2>2. qty \in (0..SanityCap) \ {0}
    <3>1. w + 2 * Buffer \in Int
      BY <2>1, RangeAssumption
    <3> HIDE DEF w
    <3> QED
      BY <1>4, <2>1, <3>1, SizeIsCapped DEF Eng!Refused
  <2>3. Eng!FinalizeOpeningRange(x) = Eng!Emit(y, Eng!Notify("entry_orders_placed"))
    BY <1>2, <1>4 DEF Eng!FinalizeOpeningRange, Eng!LongEntry, Eng!ShortEntry
  <2> HIDE DEF qty
  <2>4. Observed(x, y) /\ y \in Engine
    BY <2>1, <2>2, BracketCore
  <2> HIDE DEF y
  <2>5. Eng!Emit(y, Eng!Notify("entry_orders_placed")) = y
    BY <2>4, NeutralEmit DEF Eng!Notify
  <2> QED
    BY <2>3, <2>4, <2>5
<1> QED
  BY <1>3, <1>4

(* A bar on a day whose range is final leaves the range alone.             *)
LEMMA ObserveRangeCore ==
  ASSUME NEW x, Core(x), NEW bar, bar.high \in Int, bar.low \in Int
  PROVE  Observed(x, Eng!ObserveRange(x, bar))
<1>1. CASE x.orFinal
  BY <1>1 DEF Eng!ObserveRange, Observed, EndedEarly
<1>2. CASE ~x.orFinal
  <2> DEFINE s == IF OrStart <= bar.time /\ bar.time < OrEnd THEN Eng!UpdateRange(x, bar) ELSE x
             y == IF bar.time >= OrEnd THEN Eng!FinalizeOpeningRange(s) ELSE s
  <2>1. Observed(x, s) /\ s.done = x.done /\ ~s.orFinal
    BY <1>2, UpdateRangeCore DEF Observed, EndedEarly
  <2>2. Eng!ObserveRange(x, bar) = y
    BY <1>2 DEF Eng!ObserveRange
  <2> HIDE DEF s
  <2>3. Observed(s, Eng!FinalizeOpeningRange(s))
    BY <2>1, FinalizeOpeningRangeCore DEF Observed
  <2>4. Observed(x, Eng!FinalizeOpeningRange(s))
    BY <1>2, <2>1, <2>3 DEF Observed, EndedEarly
  <2> QED
    BY <2>1, <2>2, <2>4
<1> QED
  BY <1>1, <1>2

-----------------------------------------------------------------------------
(* Fills and order events.                                                 *)

(* Managed is legal.                                                       *)
LEMMA ManagedLegal ==
  ASSUME NEW x, NEW y, Managed(x, y)
  PROVE  Legal(x, y)
BY DEF Managed, Legal

(* The cancel of one entry is a managed step.                              *)
LEMMA EntryCancelManaged ==
  ASSUME NEW x, Core(x), NEW ref \in {"entry_long", "entry_short"}
  PROVE  Managed(x, Eng!Emit(x, Eng!Cancel(ref)))
<1> DEFINE y == Eng!Emit(x, Eng!Cancel(ref))
<1>1. x \in Engine /\ EntriesKnown(x) /\ Protected(x)
  BY DEF Core
<1>2. /\ y \in Engine /\ SameEngine(x, y)
      /\ y.sink.orders = Cancelled(x.sink.orders, ref)
      /\ y.sink.trades = x.sink.trades /\ y.sink.exits = x.sink.exits
  BY <1>1, EmitCancel
<1> HIDE DEF y
<1>3. Frame(x, y) /\ SameFlags(x, y) /\ y.pos = x.pos /\ y.pnl = x.pnl
  BY <1>2 DEF SameEngine
<1>4. Protected(y)
  BY <1>1, <1>2, <1>3, EntryCancelProtects
<1>5. EntriesKnown(y)
  BY <1>1, <1>2, <1>3, EntryCancelKeeps
<1>6. Withdrawn(x) => Withdrawn(y)
  BY <1>1, <1>2, <1>3, EntryCancelKeeps
<1>7. x.sink.orders = {} => y.sink.orders = {}
  BY <1>2 DEF Cancelled
<1>8. Core(y)
  BY <1>2, <1>3, <1>4, <1>5, <1>6, <1>7 DEF Core, Frame, SameFlags, RangeFixed, Reported
<1>9. y.pos # None => Tightens(x.pos, y.pos)
  BY <1>1, <1>3, ManagedReflexive DEF Managed
<1>10. Managed(x, y)
  BY <1>3, <1>6, <1>8, <1>9 DEF Managed, SameFlags, Frame, Out, Tidy
<1> QED
  BY <1>10 DEF y

(* on_order_status is a managed step.                                      *)
LEMMA OnOrderWorkingManaged ==
  ASSUME NEW x, Core(x), NEW ref
  PROVE  Managed(x, Eng!OnOrderWorking(x, ref))
BY EntryCancelManaged, ManagedReflexive
   DEF Eng!OnOrderWorking, Eng!EntryRefs, Eng!LongEntry, Eng!ShortEntry

(* The engine whose venue has lost a filled order.                         *)
Without(x, o) == [x EXCEPT !.sink.orders = @ \ {o}]

(* Nothing but the venue's orders has changed.                             *)
LEMMA WithoutFacts ==
  ASSUME NEW x \in Engine, NEW o
  PROVE  LET y == Without(x, o) IN
         /\ y \in Engine /\ SameEngine(x, y)
         /\ y.sink.orders = x.sink.orders \ {o}
         /\ y.sink.trades = x.sink.trades /\ y.sink.exits = x.sink.exits
<1> DEFINE v == [x.sink EXCEPT !.orders = @ \ {o}]
<1>1. /\ v \in Venue /\ v.orders = x.sink.orders \ {o}
      /\ v.trades = x.sink.trades /\ v.exits = x.sink.exits
  BY DEF Engine, Venue
<1>2. Without(x, o) = [x EXCEPT !.sink = v]
  BY DEF Without, Engine
<1> HIDE DEF v
<1> QED
  BY <1>1, <1>2 DEF Engine, SameEngine, Frame, SameFlags

(* An order that fills without bearing on the position leaves a sound      *)
(* engine.                                                                 *)
LEMMA WithoutManaged ==
  ASSUME NEW x, Core(x), NEW o \in x.sink.orders, x.pos = None \/ o.ref # "stop_loss"
  PROVE  Managed(x, Without(x, o))
<1> DEFINE y == Without(x, o)
<1>1. x \in Engine /\ EntriesKnown(x) /\ Protected(x) /\ x.placed
  BY DEF Core
<1>2. /\ y \in Engine /\ SameEngine(x, y)
      /\ y.sink.orders = x.sink.orders \ {o}
      /\ y.sink.trades = x.sink.trades /\ y.sink.exits = x.sink.exits
  BY <1>1, WithoutFacts
<1> HIDE DEF y
<1>3. Frame(x, y) /\ SameFlags(x, y) /\ y.pos = x.pos /\ y.pnl = x.pnl
  BY <1>2 DEF SameEngine
<1>4. Protected(y)
  BY <1>1, <1>2, <1>3 DEF Protected, Protects
<1>5. EntriesKnown(y)
  BY <1>1, <1>2, <1>3 DEF EntriesKnown, Frame
<1>6. Withdrawn(x) => Withdrawn(y)
  BY <1>2 DEF Withdrawn
<1>7. Core(y)
  BY <1>1, <1>2, <1>3, <1>4, <1>5, <1>6 DEF Core, Frame, SameFlags, RangeFixed, Reported
<1>8. y.pos # None => Tightens(x.pos, y.pos)
  BY <1>1, <1>3, ManagedReflexive DEF Managed
<1>9. Managed(x, y)
  BY <1>3, <1>6, <1>7, <1>8 DEF Managed, SameFlags, Frame, Out, Tidy
<1> QED
  BY <1>9 DEF y

(* An entry that fills while a position is open is cleaned up.             *)
LEMMA CleanUpRacingEntryManaged ==
  ASSUME NEW x, Core(x), NEW fill, fill.ref \in {"entry_long", "entry_short"}
  PROVE  Managed(x, Eng!CleanUpRacingEntry(x, fill))
<1> DEFINE c == Eng!Emit(x, Eng!Cancel(fill.ref))
<1>1. x \in Engine
  BY DEF Core
<1>2. Eng!Emit(x, Eng!Alert) = x /\ Eng!Emit(x, Eng!CloseMarket(fill.qty)) = x
  BY <1>1, NeutralEmit DEF Eng!Alert, Eng!CloseMarket
<1>3. Eng!CleanUpRacingEntry(x, fill) = Eng!CheckDailyLossLimit(c)
  BY <1>2 DEF Eng!CleanUpRacingEntry
<1>4. Managed(x, c)
  BY EntryCancelManaged
<1> HIDE DEF c
<1>5. Managed(c, Eng!CheckDailyLossLimit(c))
  BY <1>4, CheckDailyLossLimitManaged DEF Managed
<1> QED
  BY <1>3, <1>4, <1>5, ManagedTransitive

(* The fill of the protective stop is booked, reported and held against    *)
(* the limit.                                                              *)
LEMMA HandleStopFillManaged ==
  ASSUME NEW x, Core(x), x.pos # None, NEW o \in x.sink.orders, o.ref = "stop_loss",
         NEW price \in Int
  PROVE  Managed(x, Eng!HandleStopFill(Without(x, o),
                                       [ref |-> o.ref, price |-> price, qty |-> o.qty]))
<1> DEFINE w  == Without(x, o)
           g  == w.pnl + Eng!PnlUsd(w.pos, price, o.qty)
           x1 == [w EXCEPT !.pnl = g]
           x2 == Eng!Emit(x1, Eng!Notify("exit"))
           y  == [x2 EXCEPT !.pos = None]
           z  == Eng!HandleStopFill(w, [ref |-> o.ref, price |-> price, qty |-> o.qty])
<1>1. /\ x \in Engine /\ x.pos \in Position /\ x.placed /\ x.done
      /\ x.sink.orders \subseteq VenueOrder /\ Reported(x)
  BY OpenFacts
<1>2. /\ w \in Engine /\ SameEngine(x, w)
      /\ w.sink.orders = x.sink.orders \ {o}
      /\ w.sink.trades = x.sink.trades /\ w.sink.exits = x.sink.exits
  BY <1>1, WithoutFacts
<1>3. z = Eng!CheckDailyLossLimit(y)
  BY DEF Eng!HandleStopFill
<1> HIDE DEF w, z
<1>4. g \in Int
  <2>1. w.pos \in Position /\ o.qty \in Nat
    BY <1>1, <1>2 DEF SameEngine, VenueOrder
  <2>2. Eng!PnlUsd(w.pos, price, o.qty) \in Int
    BY <2>1, PnlIsInt
  <2> QED
    BY <1>2, <2>2 DEF Engine
<1> HIDE DEF g
<1>5. x1 \in Engine /\ Frame(w, x1) /\ SameFlags(w, x1) /\ x1.sink = w.sink
  BY <1>2, <1>4 DEF Engine, Frame, SameFlags
<1> HIDE DEF x1
<1>6. /\ x2 \in Engine /\ SameEngine(x1, x2) /\ x2.sink.orders = x1.sink.orders
      /\ x2.sink.trades = x1.sink.trades /\ x2.sink.exits = x1.sink.exits + 1
  BY <1>5, EmitExit
<1> HIDE DEF x2
<1>7. y \in Engine /\ y.pos = None /\ y.sink = x2.sink /\ Frame(x2, y) /\ SameFlags(x2, y)
  BY <1>6 DEF Engine, Frame, SameFlags
<1> HIDE DEF y
<1>8. /\ Frame(x, y) /\ SameFlags(x, y)
      /\ y.sink.orders = x.sink.orders \ {o}
      /\ y.sink.trades = x.sink.trades /\ y.sink.exits = x.sink.exits + 1
  BY <1>2, <1>5, <1>6, <1>7 DEF SameEngine, Frame, SameFlags
<1>9. SameEntries(x.sink.orders, y.sink.orders)
  BY <1>8 DEF SameEntries
<1>10. Core(y) /\ (Withdrawn(x) => Withdrawn(y))
  <2>1. /\ y.canceled = x.canceled /\ y.pos = None /\ y \in Engine /\ Frame(x, y)
        /\ Protected(y) /\ x.placed
    BY <1>1, <1>7, <1>8 DEF SameFlags, Protected
  <2>2. Reported(y)
    BY <1>1, <1>7, <1>8 DEF Reported, Engine, Venue
  <2> QED
    BY <1>9, <2>1, <2>2, CoreOfStops
<1>11. Settled(x, y)
  BY <1>7, <1>8, <1>10 DEF Settled, SameFlags, Tidy
<1>12. Managed(x, z)
  BY <1>3, <1>11, SettledManaged
<1> QED
  BY <1>12 DEF z, w

(* A fill at an edge of the range or past it opens a position at risk.     *)
LEMMA OpenedBySound ==
  ASSUME NEW x \in Engine, RangeFixed(x), NEW side \in Sides, NEW price \in Int,
         side = "long" => price >= x.orHigh + Buffer,
         side = "short" => price <= x.orLow - Buffer
  PROVE  LET p == Eng!OpenedBy(x, side, price) IN
         /\ p \in Position /\ p # None /\ PositionSound(p)
         /\ p.side = side /\ p.runnerQty = p.qty
<1> DEFINE s == Eng!InitialStop(x, side)
           u == Eng!Magnitude(price - s)
           f == IF RunnerMode = "new" THEN "A" ELSE "none"
           p == Eng!OpenedBy(x, side, price)
<1>1. s \in Int /\ price - s # 0
  BY RangeAssumption DEF Eng!InitialStop, RangeFixed, Sides
<1>2. u \in Nat \ {0}
  BY <1>1 DEF Eng!Magnitude
<1>3. x.entryQty \in Nat \ {0}
  BY RiskAssumption DEF RangeFixed, Engine
<1>4. f \in {"none", "A", "B"} /\ RunnerMode \in {"old", "new"}
  BY ExitsAssumption
<1>5. p = [side |-> side, entry |-> price, qty |-> x.entryQty,
           initialStop |-> s, rUnit |-> u, stop |-> s,
           beMoved |-> FALSE, whipsaw |-> FALSE, tp1 |-> FALSE,
           runnerQty |-> x.entryQty, mode |-> RunnerMode, phase |-> f]
  BY DEF Eng!OpenedBy
<1> HIDE DEF s, u, f, p
<1>6. /\ p \in Position /\ p.side = side /\ p.runnerQty = p.qty /\ p.runnerQty > 0
      /\ ~p.tp1 /\ ~p.beMoved
  BY <1>1, <1>2, <1>3, <1>4, <1>5 DEF Position
<1> QED
  BY <1>6, OptionalAssumption DEF PositionSound, RiskFree, p

(* A fill of an entry when flat opens one protected position and leaves no *)
(* entry that is not being withdrawn.                                      *)
LEMMA HandleEntryFillCore ==
  ASSUME NEW x, Core(x), x.pos = None, NEW o \in x.sink.orders, o.ref # "stop_loss",
         NEW price \in Int,
         o.side = "long" => price >= o.price,
         o.side = "short" => price <= o.price
  PROVE  LET y == Eng!HandleEntryFill(Without(x, o),
                                      [ref |-> o.ref, price |-> price, qty |-> o.qty])
         IN  Core(y) /\ Tidy(y) /\ Legal(x, y) /\ y.orFinal = x.orFinal
<1> DEFINE w    == Without(x, o)
           side == IF o.ref = "entry_long" THEN "long" ELSE "short"
           ref  == Eng!EntryRef(Eng!Opposite(side))
           p    == Eng!OpenedBy(w, side, price)
           x1   == Eng!Emit(w, Eng!Cancel(ref))
           x2   == [x1 EXCEPT !.pos = p, !.done = TRUE]
           s    == Eng!Opposite(side)
           x3   == Eng!Emit(x2, Eng!Place("stop_loss", s, p.stop, p.qty))
           y    == Eng!Emit(x3, Eng!Notify("entry"))
           z    == Eng!HandleEntryFill(w, [ref |-> o.ref, price |-> price, qty |-> o.qty])
           stop == [ref |-> "stop_loss", side |-> s, price |-> p.stop, qty |-> p.qty,
                    state |-> "working"]
<1>1. /\ x \in Engine /\ x.sink.orders \subseteq VenueOrder /\ EntriesKnown(x) /\ Reported(x)
      /\ x.placed /\ RangeFixed(x)
  BY DEF Core, Engine, Venue
<1>2. o.ref \in {"entry_long", "entry_short"} /\ o \in VenueOrder
  BY <1>1 DEF VenueOrder
<1>3. /\ side \in Sides /\ s \in Sides /\ s = Opposite(side)
      /\ ref \in {"entry_long", "entry_short"} /\ ref # o.ref
      /\ side = o.side
  BY <1>1, <1>2 DEF Sides, Eng!Opposite, Opposite, Eng!EntryRef, Eng!LongEntry,
     Eng!ShortEntry, EntriesKnown
<1>4. z = y
  BY DEF Eng!HandleEntryFill, Eng!StopLoss, Eng!LongEntry
<1>5. Managed(x, w)
  BY <1>2, WithoutManaged
<1>6. /\ w \in Engine /\ SameEngine(x, w)
      /\ w.sink.orders = x.sink.orders \ {o}
      /\ w.sink.trades = x.sink.trades /\ w.sink.exits = x.sink.exits
  BY <1>1, WithoutFacts
<1> HIDE DEF w, z
<1>7. /\ p \in Position /\ p # None /\ PositionSound(p)
      /\ p.side = side /\ p.runnerQty = p.qty
  <2>1. RangeFixed(w) /\ w.orHigh = x.orHigh /\ w.orLow = x.orLow
    BY <1>1, <1>6 DEF SameEngine, Frame, RangeFixed
  <2>2. o.price = IF o.ref = "entry_long" THEN x.orHigh + Buffer ELSE x.orLow - Buffer
    BY <1>1, <1>2 DEF EntriesKnown
  <2>3. side = "long" => price >= w.orHigh + Buffer
    BY <1>3, <2>1, <2>2
  <2>4. side = "short" => price <= w.orLow - Buffer
    BY <1>2, <1>3, <2>1, <2>2
  <2> HIDE DEF side
  <2> QED
    BY <1>3, <1>6, <2>1, <2>3, <2>4, OpenedBySound
<1> HIDE DEF p, side, ref, s
<1>8. Managed(w, x1)
  BY <1>3, <1>5, EntryCancelManaged DEF Managed
<1>9. /\ x1 \in Engine /\ SameEngine(w, x1)
      /\ x1.sink.orders = Cancelled(w.sink.orders, ref)
      /\ x1.sink.trades = w.sink.trades /\ x1.sink.exits = w.sink.exits
  BY <1>6, EmitCancel
<1> HIDE DEF x1
<1>10. /\ x2 \in Engine /\ x2.pos = p /\ x2.done /\ x2.sink = x1.sink /\ Frame(x1, x2)
       /\ x2.halted = x1.halted /\ x2.canceled = x1.canceled /\ x2.pnl = x1.pnl
  BY <1>7, <1>9 DEF Engine, Frame
<1> HIDE DEF x2
<1>11. p.stop \in Int /\ p.qty \in Nat \ {0}
  BY <1>7 DEF Position
<1>12. /\ x3 \in Engine /\ SameEngine(x2, x3) /\ x3.sink.orders = x2.sink.orders \cup {stop}
       /\ x3.sink.trades = x2.sink.trades /\ x3.sink.exits = x2.sink.exits
  <2> DEFINE ps == p.stop
             pq == p.qty
  <2>1. ps \in Int /\ pq \in Nat \ {0} /\ s \in Sides /\ x2 \in Engine
    BY <1>3, <1>10, <1>11
  <2> HIDE DEF ps, pq
  <2>2. LET v == Eng!Emit(x2, Eng!Place("stop_loss", s, ps, pq)) IN
        /\ v \in Engine /\ SameEngine(x2, v)
        /\ v.sink.orders = x2.sink.orders \cup
             {[ref |-> "stop_loss", side |-> s, price |-> ps, qty |-> pq, state |-> "working"]}
        /\ v.sink.trades = x2.sink.trades /\ v.sink.exits = x2.sink.exits
    BY <2>1, EmitPlace
  <2> QED
    BY <2>2 DEF ps, pq
<1> HIDE DEF x3
<1>13. /\ y \in Engine /\ SameEngine(x3, y) /\ y.sink.orders = x3.sink.orders
       /\ y.sink.trades = x3.sink.trades + 1 /\ y.sink.exits = x3.sink.exits
  BY <1>12, EmitEntry
<1> HIDE DEF y
<1>14. /\ Frame(x, y) /\ y.pos = p /\ y.done /\ y.halted = x.halted
       /\ y.canceled = x.canceled /\ y.pnl = x.pnl
       /\ y.sink.orders = x1.sink.orders \cup {stop}
       /\ y.sink.trades = x.sink.trades + 1 /\ y.sink.exits = x.sink.exits
  BY <1>6, <1>9, <1>10, <1>12, <1>13 DEF SameEngine, Frame, SameFlags
<1>15. Withdrawn(x1)
  <2>1. Frame(w, x1) /\ x1.pos = w.pos
    BY <1>9 DEF SameEngine
  <2>6. w.sink.orders \subseteq VenueOrder
    BY <1>6 DEF Engine, Venue
  <2>7. ASSUME NEW q \in x1.sink.orders
         PROVE  \E a \in w.sink.orders :
                  q = IF a.ref = ref /\ a.state = "working"
                      THEN [a EXCEPT !.state = "cancelling"] ELSE a
    BY <1>9 DEF Cancelled
  <2>2. \A q \in x1.sink.orders : q.ref = ref => q.state = "cancelling"
    BY <2>6, <2>7 DEF VenueOrder
  <2>3. \A q \in x1.sink.orders : \E a \in w.sink.orders : a.ref = q.ref
    BY <2>6, <2>7 DEF VenueOrder
  <2>4. \A q \in w.sink.orders : q.ref # o.ref
    BY <1>1, <1>2, <1>6 DEF EntriesKnown
  <2>5. \A q \in x1.sink.orders : q.ref # "stop_loss" => q.ref = ref
    BY <1>1, <1>2, <1>3, <1>6, <2>3, <2>4 DEF VenueOrder
  <2> QED
    BY <2>2, <2>5 DEF Withdrawn
<1>16. stop.ref = "stop_loss" /\ Protects(stop, p)
  BY <1>3, <1>7 DEF Protects
<1>17. SameEntries(x1.sink.orders, y.sink.orders)
  <2>1. x1.sink.orders \subseteq VenueOrder
    BY <1>9 DEF Engine, Venue
  <2> HIDE DEF stop
  <2>2. SameEntries(x1.sink.orders, x1.sink.orders \cup {stop})
    BY <1>16, <2>1, StopChangesKeepEntries
  <2> QED
    BY <1>14, <2>2
<1>18. Protected(y)
  <2> HIDE DEF stop
  <2> QED
    BY <1>14, <1>16 DEF Protected
<1>19. Reported(y)
  BY <1>1, <1>7, <1>14 DEF Reported, Engine, Venue
<1>20. Core(y) /\ Withdrawn(y)
  <2>1. Core(x1) /\ x1.canceled = x.canceled /\ Frame(x1, y) /\ x1.placed
    BY <1>1, <1>6, <1>8, <1>9, <1>14 DEF Managed, SameEngine, SameFlags, Frame
  <2>2. y.canceled = x1.canceled /\ y.done /\ PositionSound(y.pos) /\ y \in Engine
    BY <1>7, <1>13, <1>14, <2>1
  <2> QED
    BY <1>15, <1>17, <1>18, <1>19, <2>1, <2>2, CoreOfStops
<1>21. Tidy(y) /\ Legal(x, y) /\ y.orFinal = x.orFinal
  BY <1>14, <1>20 DEF Tidy, Legal, Frame
<1> QED
  BY <1>4, <1>20, <1>21 DEF z, w

-----------------------------------------------------------------------------
(* Every event keeps the invariant and is legal.                           *)

(* What the hard close leaves behind.                                      *)
Closed(x) == x.pos = None /\ x.done /\ (x.placed => x.canceled)

(* Before the hard close the clock does nothing to a day without orders.   *)
LEMMA QuietClock ==
  ASSUME NEW x, x.pos = None, ~x.placed, NEW t, t < HardClose
  PROVE  Eng!CheckTimeBasedActions(x, t) = x
<1>1. Eng!EntryCutoffCheck(x, t) = x
  BY DEF Eng!EntryCutoffCheck
<1>2. Eng!WhipsawCheck(x, t) = x
  BY DEF Eng!WhipsawCheck
<1>3. Eng!FomcCheck(x, t) = x
  BY DEF Eng!FomcCheck
<1>4. Eng!HardCloseCheck(x, t) = x
  BY DEF Eng!HardCloseCheck
<1> QED
  BY <1>1, <1>2, <1>3, <1>4 DEF Eng!CheckTimeBasedActions

(* What a bar and a tick of the clock share: the day's range has been      *)
(* looked at, the position managed, and the clock is consulted.            *)
LEMMA ClockStep ==
  ASSUME NEW x, NEW z, NEW t \in Nat, Core(x), Tidy(x), Managed(x, z),
         EndedEarly(x) => t >= HardClose, x.pos = None => z = x
  PROVE  LET y == Eng!CheckTimeBasedActions(z, t) IN
         /\ Managed(x, y) /\ Tidy(y)
         /\ EndedEarly(y) => t >= HardClose
         /\ t >= HardClose => Closed(y)
<1> DEFINE y == Eng!CheckTimeBasedActions(z, t)
<1>1. /\ Managed(z, y)
      /\ t >= HardClose => Closed(y)
  BY CheckTimeBasedActionsManaged DEF Managed, Closed
<1>2. Managed(x, y)
  BY <1>1, ManagedTransitive
<1>3. EndedEarly(y) => t >= HardClose
  <2>1. SUFFICES ASSUME EndedEarly(y), ~(t >= HardClose) PROVE FALSE
    OBVIOUS
  <2>2. ~x.orFinal
    BY <1>2, <2>1 DEF EndedEarly, Managed, Frame
  <2>3. ~x.placed /\ x.pos = None
    BY <2>2, UnplacedFacts
  <2>4. t < HardClose
    BY <2>1, SessionAssumption
  <2>5. y = x
    BY <2>3, <2>4, QuietClock
  <2> QED
    BY <2>1, <2>5
<1> HIDE DEF y
<1> QED
  BY <1>1, <1>2, <1>3 DEF Managed, y

(* A bar.                                                                  *)
LEMMA OnBarStep ==
  ASSUME NEW x, Core(x), Tidy(x), NEW bar, NEW candle, CandleKnown(candle),
         bar.time \in Nat, bar.high \in Int, bar.low \in Int, bar.close \in Int,
         EndedEarly(x) => bar.time >= HardClose
  PROVE  LET y == Eng!OnBar(x, bar, candle) IN
         /\ Core(y) /\ Tidy(y) /\ Legal(x, y)
         /\ EndedEarly(y) => bar.time >= HardClose
         /\ bar.time >= HardClose => Closed(y)
<1> DEFINE x0 == [x EXCEPT !.lastPrice = bar.close]
           r  == Eng!ObserveRange(x0, bar)
           m  == IF r.pos # None THEN Eng!ManagePositionOnBar(r, bar.close, candle) ELSE r
           y  == Eng!CheckTimeBasedActions(m, bar.time)
<1>1. x \in Engine
  BY DEF Core
<1>2. /\ x0 \in Engine /\ x0.orHigh = x.orHigh /\ x0.orLow = x.orLow
      /\ x0.orFinal = x.orFinal /\ x0.entryQty = x.entryQty /\ x0.placed = x.placed
      /\ x0.pos = x.pos /\ x0.done = x.done /\ x0.halted = x.halted /\ x0.pnl = x.pnl
      /\ x0.canceled = x.canceled /\ x0.sink = x.sink
  BY <1>1 DEF Engine
<1>3. Eng!OnBar(x, bar, candle) = y
  BY DEF Eng!OnBar
<1> HIDE DEF x0
<1>4. Core(x0)
  BY <1>2 DEF Core, RangeFixed, EntriesKnown, Withdrawn, Protected, Reported
<1>5. Tidy(x0) /\ (EndedEarly(x0) => EndedEarly(x))
  BY <1>2 DEF Tidy, Withdrawn, EndedEarly
<1>6. Observed(x0, r)
  BY <1>4, ObserveRangeCore
<1> HIDE DEF r
<1>7. Core(r) /\ r.pos = x.pos /\ r.pnl = x.pnl /\ r.halted = x.halted
  BY <1>2, <1>6 DEF Observed
<1>8. Managed(r, m) /\ (r.pos = None => m = r)
  BY <1>7, ManagePositionOnBarManaged, ManagedReflexive
<1> HIDE DEF m
<1>9. CASE EndedEarly(x0)
  <2>1. bar.time >= HardClose
    BY <1>5, <1>9
  <2>2. /\ Managed(m, y) /\ Closed(y) /\ Tidy(y)
    BY <1>8, <2>1, CheckTimeBasedActionsManaged DEF Managed, Closed
  <2> HIDE DEF y
  <2>3. Managed(r, y)
    BY <1>7, <1>8, <2>2, ManagedTransitive
  <2>4. Core(y) /\ Legal(r, y)
    BY <2>3, ManagedLegal DEF Managed
  <2>5. Legal(x, y)
    BY <1>7, <2>4 DEF Legal
  <2> QED
    BY <1>3, <2>1, <2>2, <2>4, <2>5
<1>10. CASE ~EndedEarly(x0)
  <2>1. Tidy(r) /\ (EndedEarly(r) => bar.time >= HardClose)
    BY <1>5, <1>6, <1>10 DEF Observed
  <2>2. /\ Managed(r, y) /\ Tidy(y)
        /\ EndedEarly(y) => bar.time >= HardClose
        /\ bar.time >= HardClose => Closed(y)
    BY <1>7, <1>8, <2>1, ClockStep
  <2> HIDE DEF y
  <2>3. Core(y) /\ Legal(r, y)
    BY <2>2, ManagedLegal DEF Managed
  <2>4. Legal(x, y)
    BY <1>7, <2>3 DEF Legal
  <2> QED
    BY <1>3, <2>2, <2>3, <2>4
<1> QED
  BY <1>9, <1>10

(* A fill of any order at the venue.                                       *)
LEMMA OnFillStep ==
  ASSUME NEW x, Core(x), Tidy(x), NEW o \in x.sink.orders, NEW price \in Int,
         o.side = "long" => price >= o.price,
         o.side = "short" => price <= o.price
  PROVE  LET y == Eng!OnFill(Without(x, o), [ref |-> o.ref, price |-> price, qty |-> o.qty])
         IN  Core(y) /\ Tidy(y) /\ Legal(x, y) /\ y.orFinal = x.orFinal
<1> DEFINE w == Without(x, o)
           f == [ref |-> o.ref, price |-> price, qty |-> o.qty]
           y == Eng!OnFill(w, f)
<1>1. x \in Engine /\ o \in VenueOrder
  BY DEF Core, Engine, Venue
<1>2. o.ref \in {"entry_long", "entry_short", "stop_loss"}
  BY <1>1 DEF VenueOrder
<1>3. w.pos = x.pos
  BY <1>1, WithoutFacts DEF SameEngine
<1>4. o.ref \in Eng!EntryRefs <=> o.ref \in {"entry_long", "entry_short"}
  BY DEF Eng!EntryRefs, Eng!LongEntry, Eng!ShortEntry
<1>5. f.ref = o.ref /\ Eng!StopLoss = "stop_loss"
  BY DEF Eng!StopLoss
<1>6. CASE o.ref \in {"entry_long", "entry_short"} /\ x.pos = None
  <2>1. y = Eng!HandleEntryFill(w, f)
    <3> HIDE DEF w, f
    <3> QED
      BY <1>3, <1>4, <1>5, <1>6 DEF Eng!OnFill
  <2>2. o.ref # "stop_loss"
    BY <1>6
  <2> QED
    BY <1>6, <2>1, <2>2, HandleEntryFillCore
<1>7. CASE ~(o.ref \in {"entry_long", "entry_short"} /\ x.pos = None)
  <2>1. Managed(x, y)
    <3>1. CASE o.ref \in {"entry_long", "entry_short"} /\ x.pos # None
      <4>1. y = Eng!CleanUpRacingEntry(w, f)
        <5> HIDE DEF w, f
        <5> QED
          BY <1>3, <1>4, <1>5, <3>1 DEF Eng!OnFill
      <4>2. Managed(x, w)
        BY <3>1, WithoutManaged
      <4> HIDE DEF w, y
      <4>3. Managed(w, y)
        BY <3>1, <4>1, <4>2, CleanUpRacingEntryManaged DEF Managed
      <4> QED
        BY <4>2, <4>3, ManagedTransitive
    <3>2. CASE o.ref = "stop_loss" /\ x.pos # None
      <4>1. y = Eng!HandleStopFill(w, f)
        <5> HIDE DEF w, f
        <5> QED
          BY <1>3, <1>4, <1>5, <3>2 DEF Eng!OnFill
      <4> QED
        BY <3>2, <4>1, HandleStopFillManaged
    <3>3. CASE o.ref = "stop_loss" /\ x.pos = None
      <4>1. y = Eng!Emit(w, Eng!Alert)
        <5> HIDE DEF w, f
        <5> QED
          BY <1>3, <1>4, <1>5, <3>3 DEF Eng!OnFill
      <4>2. Managed(x, w)
        BY <3>3, WithoutManaged
      <4> HIDE DEF w, y
      <4>3. y = w
        BY <4>1, <4>2, NeutralEmit DEF Eng!Alert, Managed, Core
      <4> QED
        BY <4>2, <4>3
    <3> QED
      BY <1>2, <1>7, <3>1, <3>2, <3>3
  <2> HIDE DEF y
  <2>2. Legal(x, y)
    BY <2>1, ManagedLegal
  <2> QED
    BY <2>1, <2>2 DEF Managed, Frame, y, w, f
<1> QED
  BY <1>6, <1>7

(* A report of the account's equity touches the equity only.               *)
LEMMA OnEquityUpdateStep ==
  ASSUME NEW x, Core(x), Tidy(x), NEW equity \in Int
  PROVE  LET y == Eng!OnEquityUpdate(x, equity) IN
         /\ Core(y) /\ Tidy(y) /\ Legal(x, y)
         /\ y.orFinal = x.orFinal /\ y.done = x.done
<1> DEFINE y == Eng!OnEquityUpdate(x, equity)
<1>1. x \in Engine
  BY DEF Core
<1>2. /\ y \in Engine /\ y.orHigh = x.orHigh /\ y.orLow = x.orLow
      /\ y.orFinal = x.orFinal /\ y.entryQty = x.entryQty /\ y.placed = x.placed
      /\ y.pos = x.pos /\ y.done = x.done /\ y.halted = x.halted /\ y.pnl = x.pnl
      /\ y.canceled = x.canceled /\ y.sink = x.sink
  BY <1>1 DEF Eng!OnEquityUpdate, Engine
<1> HIDE DEF y
<1>3. Core(y)
  BY <1>2 DEF Core, RangeFixed, EntriesKnown, Withdrawn, Protected, Reported
<1>4. Tidy(y)
  BY <1>2 DEF Tidy, Withdrawn
<1>5. y.pos # None => Tightens(x.pos, y.pos)
  BY <1>2, ManagedReflexive DEF Managed
<1>6. Legal(x, y)
  BY <1>2, <1>5 DEF Legal
<1> QED
  BY <1>2, <1>3, <1>4, <1>6 DEF y

-----------------------------------------------------------------------------
(* The invariant is inductive.                                             *)

(* A new engine on a fresh day.                                            *)
LEMMA InitInv == Init => Inv
<1> SUFFICES ASSUME Init PROVE Inv
  OBVIOUS
<1>1. PICK equity \in Equities : e = Eng!NewEngine(Eng!FreshDay, equity, NewVenue)
  BY DEF Init
<1>2. equity \in Int
  BY EnvironmentAssumption
<1>3. /\ e \in Engine /\ ~e.orFinal /\ ~e.placed /\ e.pos = None /\ ~e.done /\ ~e.canceled
      /\ e.sink = NewVenue
  BY <1>1, <1>2, RiskAssumption DEF Eng!NewEngine, Eng!FreshDay, NewVenue, Engine, Venue
<1>4. Core(e)
  BY <1>3 DEF Core, EntriesKnown, Protected, Reported, NewVenue
<1> QED
  BY <1>3, <1>4 DEF Inv, Init, Tidy, EndedEarly

(* Times that events carry do not go back.                                 *)
LEMMA TimesAreLater ==
  ASSUME now \in Nat, NEW t \in Times
  PROVE  t \in Nat /\ t >= now
BY EnvironmentAssumption DEF Times

(* A bar.                                                                  *)
LEMMA BarInv ==
  ASSUME Inv, Bar
  PROVE  Inv' /\ Legal(e, e') /\ (now' >= HardClose => Closed(e'))
<1>0. PICK t \in Times, candle \in Candles :
        \E shape \in IF t < OrEnd THEN RangeShapes ELSE BarShapes :
          LET bar == [time |-> t, high |-> shape.high, low |-> shape.low, close |-> shape.close]
          IN  /\ e' = Eng!OnBar(e, bar, candle)
              /\ now' = t
  BY DEF Bar
<1>1. PICK shape \in IF t < OrEnd THEN RangeShapes ELSE BarShapes :
        LET bar == [time |-> t, high |-> shape.high, low |-> shape.low, close |-> shape.close]
        IN  /\ e' = Eng!OnBar(e, bar, candle)
            /\ now' = t
  BY <1>0
<1> DEFINE bar == [time |-> t, high |-> shape.high, low |-> shape.low, close |-> shape.close]
<1>2. Core(e) /\ Tidy(e) /\ now \in Nat /\ (EndedEarly(e) => now >= HardClose)
  BY DEF Inv
<1>3. t \in Nat /\ t >= now /\ HardClose \in Nat
  BY <1>2, TimesAreLater, SessionAssumption
<1>4. shape.high \in Int /\ shape.low \in Int /\ shape.close \in Int
  BY EnvironmentAssumption
<1>5. CandleKnown(candle)
  BY EnvironmentAssumption DEF CandleKnown
<1>6. /\ bar.time = t /\ bar.high \in Int /\ bar.low \in Int /\ bar.close \in Int
  BY <1>4
<1>7. e' = Eng!OnBar(e, bar, candle) /\ now' = t
  BY <1>1
<1> HIDE DEF bar
<1>8. EndedEarly(e) => bar.time >= HardClose
  BY <1>2, <1>3, <1>6
<1>9. LET y == Eng!OnBar(e, bar, candle) IN
      /\ Core(y) /\ Tidy(y) /\ Legal(e, y)
      /\ EndedEarly(y) => bar.time >= HardClose
      /\ bar.time >= HardClose => Closed(y)
  BY <1>2, <1>3, <1>5, <1>6, <1>8, OnBarStep
<1>10. /\ Core(e') /\ Tidy(e') /\ Legal(e, e')
       /\ EndedEarly(e') => now' >= HardClose
       /\ now' >= HardClose => Closed(e')
       /\ now' \in Nat
  BY <1>3, <1>6, <1>7, <1>9
<1> QED
  BY <1>10 DEF Inv

(* A tick of the wall clock.                                               *)
LEMMA WallClockInv ==
  ASSUME Inv, WallClock
  PROVE  Inv' /\ Legal(e, e') /\ (now' >= HardClose => Closed(e'))
<1>1. PICK t \in Times : e' = Eng!OnWallClock(e, t) /\ now' = t
  BY DEF WallClock
<1>2. Core(e) /\ Tidy(e) /\ now \in Nat /\ (EndedEarly(e) => now >= HardClose)
  BY DEF Inv
<1>3. t \in Nat /\ t >= now /\ HardClose \in Nat
  BY <1>2, TimesAreLater, SessionAssumption
<1>4. EndedEarly(e) => t >= HardClose
  BY <1>2, <1>3
<1>5. Managed(e, e)
  BY <1>2, ManagedReflexive
<1>6. LET y == Eng!CheckTimeBasedActions(e, t) IN
      /\ Managed(e, y) /\ Tidy(y)
      /\ EndedEarly(y) => t >= HardClose
      /\ t >= HardClose => Closed(y)
  BY <1>2, <1>3, <1>4, <1>5, ClockStep
<1>7. e' = Eng!CheckTimeBasedActions(e, t)
  BY <1>1 DEF Eng!OnWallClock
<1>8. /\ Managed(e, e') /\ Tidy(e')
      /\ EndedEarly(e') => now' >= HardClose
      /\ now' >= HardClose => Closed(e')
      /\ now' \in Nat
  BY <1>1, <1>3, <1>6, <1>7
<1>9. Core(e') /\ Legal(e, e')
  BY <1>8, ManagedLegal DEF Managed
<1> QED
  BY <1>8, <1>9 DEF Inv

(* A fill.                                                                 *)
LEMMA OrderFillInv ==
  ASSUME Inv, OrderFill
  PROVE  Inv' /\ Legal(e, e')
<1>1. PICK o \in e.sink.orders, slip \in Slips :
        LET price == IF o.side = "long" THEN o.price + slip ELSE o.price - slip
            fill  == [ref |-> o.ref, price |-> price, qty |-> o.qty]
        IN  /\ e' = Eng!OnFill([e EXCEPT !.sink.orders = @ \ {o}], fill)
            /\ now' = now
  BY DEF OrderFill
<1> DEFINE price == IF o.side = "long" THEN o.price + slip ELSE o.price - slip
<1>2. Core(e) /\ Tidy(e) /\ now \in Nat
  BY DEF Inv
<1>3. o.price \in Int /\ slip \in Nat
  BY <1>2, EnvironmentAssumption DEF Core, Engine, Venue, VenueOrder
<1>4. /\ price \in Int
      /\ o.side = "long" => price >= o.price
      /\ o.side = "short" => price <= o.price
  BY <1>3
<1>5. /\ e' = Eng!OnFill(Without(e, o), [ref |-> o.ref, price |-> price, qty |-> o.qty])
      /\ now' = now
  BY <1>1 DEF Without
<1> HIDE DEF price
<1>6. LET y == Eng!OnFill(Without(e, o), [ref |-> o.ref, price |-> price, qty |-> o.qty]) IN
      Core(y) /\ Tidy(y) /\ Legal(e, y) /\ y.orFinal = e.orFinal
  BY <1>2, <1>4, OnFillStep
<1>7. Core(e') /\ Tidy(e') /\ Legal(e, e') /\ e'.orFinal = e.orFinal
  BY <1>5, <1>6
<1>8. e.orFinal
  BY <1>2 DEF Core, RangeFixed
<1> QED
  BY <1>2, <1>5, <1>7, <1>8 DEF Inv, EndedEarly

(* A managed step at a time the invariant has seen.                        *)
LEMMA ManagedInv ==
  ASSUME Inv, Managed(e, e'), now' = now, EndedEarly(e') => EndedEarly(e)
  PROVE  Inv' /\ Legal(e, e')
<1>1. Core(e') /\ Tidy(e') /\ Legal(e, e')
  BY ManagedLegal DEF Managed, Inv
<1> QED
  BY <1>1 DEF Inv

(* An order-status event.                                                  *)
LEMMA OrderWorkingInv ==
  ASSUME Inv, OrderWorking
  PROVE  Inv' /\ Legal(e, e')
<1>1. PICK o \in e.sink.orders : e' = Eng!OnOrderWorking(e, o.ref) /\ now' = now
  BY DEF OrderWorking
<1>2. Core(e) /\ e.orFinal
  BY DEF Inv, Core, RangeFixed
<1>3. Managed(e, e')
  BY <1>1, <1>2, OnOrderWorkingManaged
<1>4. ~EndedEarly(e')
  BY <1>2, <1>3 DEF EndedEarly, Managed, Frame
<1> QED
  BY <1>1, <1>3, <1>4, ManagedInv

(* An equity event.                                                        *)
LEMMA EquityUpdateInv ==
  ASSUME Inv, EquityUpdate
  PROVE  Inv' /\ Legal(e, e')
<1>1. PICK equity \in Equities : e' = Eng!OnEquityUpdate(e, equity) /\ now' = now
  BY DEF EquityUpdate
<1>2. equity \in Int /\ Core(e) /\ Tidy(e)
  BY EnvironmentAssumption DEF Inv
<1>3. LET y == Eng!OnEquityUpdate(e, equity) IN
      /\ Core(y) /\ Tidy(y) /\ Legal(e, y)
      /\ y.orFinal = e.orFinal /\ y.done = e.done
  BY <1>2, OnEquityUpdateStep
<1>4. /\ Core(e') /\ Tidy(e') /\ Legal(e, e')
      /\ e'.orFinal = e.orFinal /\ e'.done = e.done
  BY <1>1, <1>3
<1> QED
  BY <1>1, <1>4 DEF Inv, EndedEarly

(* An operator's flatten.                                                  *)
LEMMA FlattenInv ==
  ASSUME Inv, Flatten
  PROVE  Inv' /\ Legal(e, e')
<1>1. e.orFinal /\ e' = Eng!ManualFlatten(e) /\ now' = now /\ Core(e)
  BY DEF Flatten, Inv
<1>2. Managed(e, e')
  BY <1>1, FlattenManaged
<1>3. ~EndedEarly(e')
  BY <1>1, <1>2 DEF EndedEarly, Managed, Frame
<1> QED
  BY <1>1, <1>2, <1>3, ManagedInv

(* Every step keeps the invariant and is legal.                            *)
LEMMA NextInv ==
  ASSUME Inv, Next
  PROVE  Inv' /\ Legal(e, e')
BY BarInv, WallClockInv, OrderFillInv, OrderWorkingInv, EquityUpdateInv, FlattenInv DEF Next

(* A stuttering step keeps the invariant.                                  *)
LEMMA StutterInv ==
  ASSUME Inv, UNCHANGED vars
  PROVE  Inv'
BY DEF Inv, vars

(* The engine and its venue satisfy the invariant at every moment.         *)
THEOREM Invariance == Spec => []Inv
<1>1. Init => Inv
  BY InitInv
<1>2. Inv /\ [Next]_vars => Inv'
  BY NextInv, StutterInv
<1> QED
  BY <1>1, <1>2, PTL DEF Spec

-----------------------------------------------------------------------------
(* What follows from it.                                                   *)

(* Every field keeps its type: no handler leaves a half-built position, a  *)
(* size above the cap or an order without contracts.                       *)
THEOREM TypeCorrect == Spec => []TypeOK
<1>1. Inv => TypeOK
  <2> SUFFICES ASSUME Inv PROVE TypeOK
    OBVIOUS
  <2>1. Core(e) /\ e \in Engine /\ now \in Nat
    BY DEF Inv, Core
  <2>2. e.pos = None \/ (e.pos \in Position /\ e.pos.runnerQty > 0)
    BY <2>1 DEF Core, PositionSound, Engine
  <2>3. /\ \A o \in e.sink.orders : o \in VenueOrder
        /\ e.sink.trades \in Nat /\ e.sink.exits \in Nat
    BY <2>1 DEF Engine, Venue
  <2> QED
    BY <2>1, <2>2, <2>3 DEF TypeOK, Engine
<1> QED
  BY <1>1, Invariance, PTL

(* on_bar and the runners: after TP1 the stop is at the entry or better.   *)
THEOREM RunnerNeverRisks == Spec => []RunnerIsRiskFree
<1>1. Inv => RunnerIsRiskFree
  BY DEF Inv, Core, PositionSound, RiskFree, RunnerIsRiskFree, Open
<1> QED
  BY <1>1, Invariance, PTL

(* An open position always has its protective stop working at the venue,   *)
(* for its contracts and at its price.                                     *)
THEOREM PositionsAreProtected == Spec => []ProtectiveStopRests
<1>1. Inv => ProtectiveStopRests
  BY DEF Inv, Core, Protected, Protects, ProtectiveStopRests, Open
<1> QED
  BY <1>1, Invariance, PTL

(* However the day ended, nothing that could open a position is left       *)
(* without its cancel.                                                     *)
THEOREM EntriesAreWithdrawn == Spec => []EntriesWithdrawn
<1>1. Inv => EntriesWithdrawn
  BY DEF Inv, Tidy, Withdrawn, EntriesWithdrawn
<1> QED
  BY <1>1, Invariance, PTL

(* Unless TP1 closes everything, every trade that ended was reported once. *)
THEOREM TradesAreReported ==
  ASSUME Tp1ClosePct < 100
  PROVE  Spec => []TradesReported
<1>1. Inv => TradesReported
  BY DEF Inv, Core, Reported, TradesReported, Open
<1> QED
  BY <1>1, Invariance, PTL

(* The first bar or tick at or after the hard close leaves the engine      *)
(* flat, done and with its entries cancelled.                              *)
THEOREM HardCloseIsFinal == Spec => HardCloseFlattens
<1>1. Inv /\ [Next]_vars =>
        [(Bar \/ WallClock) /\ now' >= HardClose
         => /\ e'.pos = None /\ e'.done
            /\ e'.placed => e'.canceled]_vars
  BY BarInv, WallClockInv DEF Closed
<1> QED
  BY <1>1, Invariance, PTL DEF Spec, HardCloseFlattens

(* The step whose loss reaches the daily limit is the step that halts.     *)
THEOREM LossLimitIsImmediate == Spec => LossLimitHalts
<1>1. Inv /\ [Next]_vars =>
        [~e.halted /\ e'.pnl # e.pnl /\ Eng!LossLimitReached(e')
         => /\ e'.halted /\ e'.done /\ e'.pos = None
            /\ e'.placed => e'.canceled]_vars
  BY NextInv DEF Legal, LimitHeld, Out
<1> QED
  BY <1>1, Invariance, PTL DEF Spec, LossLimitHalts

(* No step loosens the stop of an open position, phase A excepted.         *)
THEOREM StopNeverLoosens == Spec => StopOnlyTightens
<1>1. Inv /\ [Next]_vars =>
        [Open /\ e'.pos # None /\ ~(e.pos.phase = "A" /\ e'.pos.tp1)
         => ~Tighter(e.pos.side, e.pos.stop, e'.pos.stop)]_vars
  BY NextInv DEF Legal, Tightens, Open
<1> QED
  BY <1>1, Invariance, PTL DEF Spec, StopOnlyTightens
=============================================================================
