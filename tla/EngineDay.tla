------------------------------ MODULE EngineDay -----------------------------
(***************************************************************************)
(* One OrbEngine against everything the Broker contract of broker/base.py  *)
(* lets happen to it: bars and wall-clock ticks in time order, fills of    *)
(* the orders it sent (with slippage, and after a cancel was sent but      *)
(* before it took effect), order-status and equity events, and an          *)
(* operator's flatten, in any interleaving.                                *)
(*                                                                         *)
(* The venue (the broker and the exchange behind it) is external: a set of *)
(* orders, each "working" or, once its cancel was sent, "cancelling".  A   *)
(* cancelling order may still fill.  It also counts what the engine sent.  *)
(***************************************************************************)
EXTENDS OrbConfig, FiniteSets

CONSTANTS
  RangeShapes,   \* the [high, low, close] of bars before the range's end
  BarShapes,     \* and of the bars after it
  Candles,       \* what the indicators may know after a bar
  Slips,         \* how many ticks past its stop price an order may fill
  Equities,      \* the account equities a broker may report
  EndTime,       \* bound: no event carries a later time
  MaxGap         \* bound: minutes between two consecutive clocked events

ASSUME EnvironmentAssumption ==
  /\ RangeShapes \cup BarShapes \subseteq [high : Int, low : Int, close : Int]
  /\ \A candle \in Candles \ {None} :
       /\ candle.sma \in Int \cup {None} /\ candle.close \in Int
       /\ candle.trail # None => candle.trail.low \in Int /\ candle.trail.high \in Int
  /\ Slips \subseteq Nat /\ Equities \subseteq Int
  /\ EndTime \in Nat /\ MaxGap \in Nat

VARIABLES
  e,      \* the engine; its sink is the venue
  now     \* the time of the latest bar or wall-clock tick

vars == <<e, now>>

Order(a) ==
  [ref |-> a.ref, side |-> a.side, price |-> a.price, qty |-> a.qty, state |-> "working"]

(* The orders of a reference that are working, changed one by one.         *)
Amend(orders, ref, Change(_)) ==
  {IF o.ref = ref /\ o.state = "working" THEN Change(o) ELSE o : o \in orders}

Receive(venue, a) ==
  CASE a.type = "place" ->
         [venue EXCEPT !.orders = @ \cup {Order(a)}]
    [] a.type = "cancel" ->
         LET Cancelling(o) == [o EXCEPT !.state = "cancelling"]
         IN  [venue EXCEPT !.orders = Amend(@, a.ref, Cancelling)]
    [] a.type = "modify_price" ->
         LET Moved(o) == [o EXCEPT !.price = a.price]
         IN  [venue EXCEPT !.orders = Amend(@, a.ref, Moved)]
    [] a.type = "modify_qty" ->
         LET Sized(o) == [o EXCEPT !.qty = a.qty]
         IN  [venue EXCEPT !.orders = Amend(@, a.ref, Sized)]
    [] a.type = "notify" ->
         [venue EXCEPT !.trades = IF a.event = "entry" THEN @ + 1 ELSE @,
                       !.exits  = IF a.event = "exit" THEN @ + 1 ELSE @]
    [] OTHER -> venue

Eng == INSTANCE OrbEngine WITH Deliver <- Receive

NewVenue == [orders |-> {}, trades |-> 0, exits |-> 0]

Init ==
  /\ \E equity \in Equities : e = Eng!NewEngine(Eng!FreshDay, equity, NewVenue)
  /\ now = 0

Times == {t \in now..(now + MaxGap) : t <= EndTime}

Bar ==
  \E t \in Times, candle \in Candles :
   \E shape \in IF t < OrEnd THEN RangeShapes ELSE BarShapes :
    LET bar == [time |-> t, high |-> shape.high, low |-> shape.low, close |-> shape.close]
    IN  /\ e' = Eng!OnBar(e, bar, candle)
        /\ now' = t

WallClock ==
  \E t \in Times :
    /\ e' = Eng!OnWallClock(e, t)
    /\ now' = t

(* A stop order fills whole, at its price or worse.                        *)
OrderFill ==
  \E o \in e.sink.orders, slip \in Slips :
    LET price == IF o.side = "long" THEN o.price + slip ELSE o.price - slip
        fill  == [ref |-> o.ref, price |-> price, qty |-> o.qty]
    IN  /\ e' = Eng!OnFill([e EXCEPT !.sink.orders = @ \ {o}], fill)
        /\ now' = now

OrderWorking ==
  \E o \in e.sink.orders :
    /\ e' = Eng!OnOrderWorking(e, o.ref)
    /\ now' = now

EquityUpdate ==
  \E equity \in Equities :
    /\ e' = Eng!OnEquityUpdate(e, equity)
    /\ now' = now

(* manual_flatten, from the finalization of the range on: app.py calls it  *)
(* only when there is a position.                                          *)
Flatten ==
  /\ e.orFinal
  /\ e' = Eng!ManualFlatten(e)
  /\ now' = now

Next == Bar \/ WallClock \/ OrderFill \/ OrderWorking \/ EquityUpdate \/ Flatten

Spec == Init /\ [][Next]_vars

-----------------------------------------------------------------------------

Position ==
  [side : Sides, entry : Int, qty : Nat \ {0}, initialStop : Int, rUnit : Nat \ {0},
   stop : Int, beMoved : BOOLEAN, whipsaw : BOOLEAN, tp1 : BOOLEAN,
   runnerQty : Nat, mode : {"old", "new"}, phase : {"none", "A", "B"}]

(* None is not a position.                                                 *)
ASSUME OptionalAssumption == None \notin Position

VenueOrder ==
  [ref : {"entry_long", "entry_short", "stop_loss"}, side : Sides, price : Int,
   qty : Nat \ {0}, state : {"working", "cancelling"}]

(* The type invariant.                                                     *)
TypeOK ==
  /\ e.orHigh \in Int \cup {None} /\ e.orLow \in Int \cup {None}
  /\ e.orFinal \in BOOLEAN /\ e.entryQty \in 0..SanityCap
  /\ e.placed \in BOOLEAN /\ e.done \in BOOLEAN /\ e.halted \in BOOLEAN
  /\ e.pos = None \/ (e.pos \in Position /\ e.pos.runnerQty > 0)
  /\ e.pnl \in Int /\ e.equity \in Int /\ e.canceled \in BOOLEAN
  /\ e.lastPrice \in Int \cup {None}
  /\ \A o \in e.sink.orders : o \in VenueOrder
  /\ e.sink.trades \in Nat /\ e.sink.exits \in Nat
  /\ now \in Nat

Open == e.pos # None

(* After TP1 the runner cannot lose: on_bar tests breakeven before TP1 and *)
(* both runner trails keep the stop at the entry or better.                *)
RunnerIsRiskFree ==
  Open /\ e.pos.tp1 => /\ e.pos.beMoved
                       /\ ~Tighter(e.pos.side, e.pos.entry, e.pos.stop)

(* An open position always has a protective stop working at the venue, on  *)
(* the closing side, at the price and for the contracts the engine         *)
(* believes, through TP1's size-down and every move of the stop.           *)
ProtectiveStopRests ==
  Open => \E o \in e.sink.orders :
            /\ o.ref = "stop_loss" /\ o.state = "working"
            /\ o.side = Opposite(e.pos.side)
            /\ o.price = e.pos.stop /\ o.qty = e.pos.runnerQty

(* Once the day is done and flat, every order that could open a position   *)
(* has had its cancel sent, whichever of the five ways ended the day.      *)
EntriesWithdrawn ==
  e.done /\ ~Open =>
    \A o \in e.sink.orders : o.ref # "stop_loss" => o.state = "cancelling"

(* A bar or a wall-clock tick at or after the hard close leaves the engine *)
(* flat, done, and with its entries cancelled, whatever came before it.    *)
HardCloseFlattens ==
  [][(Bar \/ WallClock) /\ now' >= HardClose
       => /\ e'.pos = None /\ e'.done
          /\ e'.placed => e'.canceled]_vars

(* The step that books a loss reaching the daily limit ends halted, done,  *)
(* flat and with the entries cancelled, in the same step.                  *)
LossLimitHalts ==
  [][~e.halted /\ e'.pnl # e.pnl /\ Eng!LossLimitReached(e')
       => /\ e'.halted /\ e'.done /\ e'.pos = None
          /\ e'.placed => e'.canceled]_vars

(* The stop of an open position only tightens, except in phase A of the    *)
(* new runner, which follows its average both ways.                        *)
StopOnlyTightens ==
  [][Open /\ e'.pos # None /\ ~(e.pos.phase = "A" /\ e'.pos.tp1)
       => ~Tighter(e.pos.side, e.pos.stop, e'.pos.stop)]_vars

(* Every position that was opened and is no longer held has been reported  *)
(* by one exit notification: logging_setup.py writes the trade log, "one   *)
(* row per completed round-trip trade", from them.                         *)
TradesReported ==
  e.sink.trades = e.sink.exits + IF Open THEN 1 ELSE 0

(* README, "Safety rails": one trade per day is enforced structurally.  At *)
(* most one position is opened.                                            *)
OneTradePerDay == e.sink.trades <= 1
=============================================================================
