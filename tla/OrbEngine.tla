------------------------------ MODULE OrbEngine -----------------------------
(***************************************************************************)
(* OrbEngine of strategy/state_machine.py: the pure state machine of one   *)
(* trading day.  An engine is a record e; every method is an operator from *)
(* an engine (and the event) to the engine after the method returns.       *)
(*                                                                         *)
(* A method returns a list of actions that its caller hands on in order.   *)
(* The engine never looks at what became of them, so an action is handed   *)
(* on where the method appends it: e.sink is the state of whatever         *)
(* receives actions, and Deliver(sink, action) is that receiver.  Each     *)
(* composition says which receiver it has.                                 *)
(*                                                                         *)
(*   e.orHigh, orLow, orFinal   day.opening_range, day.or_finalized        *)
(*   e.entryQty, placed         day.entry_qty, day.entry_orders_placed     *)
(*   e.pos                      day.position, None when flat               *)
(*   e.done, halted, pnl        day.trade_done_for_day, halted,            *)
(*                              realized_pnl_usd                           *)
(*   e.equity, lastPrice, canceled   the engine's own, never persisted     *)
(***************************************************************************)
EXTENDS Sizing

CONSTANT Deliver(_, _)

LongEntry  == "entry_long"
ShortEntry == "entry_short"
StopLoss   == "stop_loss"

EntryRefs == {LongEntry, ShortEntry}
EntryRef(side) == IF side = "long" THEN LongEntry ELSE ShortEntry

(* The actions of strategy/models.py.  Reasons and message texts are left  *)
(* out; a Notify keeps its event name.                                     *)
Place(ref, side, price, qty) ==
  [type |-> "place", ref |-> ref, side |-> side, price |-> price, qty |-> qty]
Cancel(ref)        == [type |-> "cancel", ref |-> ref]
ModifyPrice(price) == [type |-> "modify_price", ref |-> StopLoss, price |-> price]
ModifyQty(qty)     == [type |-> "modify_qty", ref |-> StopLoss, qty |-> qty]
CloseMarket(qty)   == [type |-> "close", qty |-> qty]
Alert              == [type |-> "alert"]
Notify(event)      == [type |-> "notify", event |-> event]

Emit(e, action) == [e EXCEPT !.sink = Deliver(@, action)]

-----------------------------------------------------------------------------
(* The engine a session constructs: on a fresh DayState, or on one that    *)
(* was persisted.                                                          *)

FreshDay ==
  [orHigh |-> None, orLow |-> None, orFinal |-> FALSE,
   entryQty |-> 0, placed |-> FALSE, pos |-> None,
   done |-> FALSE, halted |-> FALSE, pnl |-> 0]

NewEngine(day, equity, sink) ==
  [orHigh |-> day.orHigh, orLow |-> day.orLow, orFinal |-> day.orFinal,
   entryQty |-> day.entryQty, placed |-> day.placed, pos |-> day.pos,
   done |-> day.done, halted |-> day.halted, pnl |-> day.pnl,
   equity |-> equity, lastPrice |-> None, canceled |-> FALSE, sink |-> sink]

(* The part of an engine that save_day_state writes.                       *)
DayOf(e) ==
  [orHigh |-> e.orHigh, orLow |-> e.orLow, orFinal |-> e.orFinal,
   entryQty |-> e.entryQty, placed |-> e.placed, pos |-> e.pos,
   done |-> e.done, halted |-> e.halted, pnl |-> e.pnl]

-----------------------------------------------------------------------------
(* Money and R.                                                            *)

(* pos.r_multiple(price) >= x / RScale; rUnit is positive.                 *)
RAtLeast(p, price, x) == Signed(p.side, p.entry, price) * RScale >= x * p.rUnit

PnlUsd(p, price, qty) == Signed(p.side, p.entry, price) * qty * PointValue

RefPrice(e) == IF e.lastPrice # None THEN e.lastPrice ELSE e.pos.entry

(* realized_pnl_usd <= -abs(limit), in hundredths of a dollar.             *)
LossLimitReached(e) ==
  LET limit == IF LossLimitPct = None
               THEN LossLimitUsd * 100
               ELSE Smaller(LossLimitUsd * 100, e.equity * LossLimitPct)
  IN  e.pnl * 100 <= -Magnitude(limit)

-----------------------------------------------------------------------------
(* Leaving the market.                                                     *)

CancelEntries(e) ==
  IF e.placed /\ ~e.canceled
  THEN Emit(Emit([e EXCEPT !.canceled = TRUE], Cancel(LongEntry)), Cancel(ShortEntry))
  ELSE e

(* _exit_position_market up to its closing _check_daily_loss_limit.        *)
CloseOut(e, price) ==
  LET booked == [e EXCEPT !.pnl = @ + PnlUsd(e.pos, price, e.pos.runnerQty)]
      closed == Emit(booked, CloseMarket(e.pos.runnerQty))
      bare   == Emit(closed, Cancel(StopLoss))
  IN  [Emit(bare, Notify("exit")) EXCEPT !.pos = None]

(* Mutant: reaching the limit only ends the search for an entry.           *)
CheckDailyLossLimit_NeverHalts(e) ==
  IF e.halted \/ ~LossLimitReached(e) THEN e ELSE [CancelEntries(e) EXCEPT !.done = TRUE]

(* _check_daily_loss_limit.  The exit inside it calls the check again,     *)
(* which returns at once because halted is already set.                    *)
CheckDailyLossLimit(e) ==
  IF e.halted \/ ~LossLimitReached(e)
  THEN e
  ELSE LET halted == Emit([e EXCEPT !.halted = TRUE, !.done = TRUE], Alert)
           flat   == IF e.pos # None THEN CloseOut(halted, RefPrice(e)) ELSE halted
       IN  Emit(CancelEntries(flat), Notify("halt"))

ExitPositionMarket(e, price) == CheckDailyLossLimit(CloseOut(e, price))

ManualFlatten(e) ==
  LET flat == IF e.pos # None THEN ExitPositionMarket(e, RefPrice(e)) ELSE e
  IN  [CancelEntries(flat) EXCEPT !.done = TRUE]

-----------------------------------------------------------------------------
(* Opening range and entries.                                              *)

UpdateRange(e, bar) ==
  [e EXCEPT !.orHigh = IF @ = None THEN bar.high ELSE Greater(@, bar.high),
            !.orLow  = IF @ = None THEN bar.low ELSE Smaller(@, bar.low)]

FinalizeOpeningRange(e) ==
  LET final == [e EXCEPT !.orFinal = TRUE]
      stop  == [final EXCEPT !.done = TRUE]
      width == e.orHigh - e.orLow
      qty   == ComputePositionSize(e.equity, width + 2 * Buffer)
      armed == [final EXCEPT !.entryQty = qty, !.placed = TRUE]
      buy   == Emit(armed, Place(LongEntry, "long", e.orHigh + Buffer, qty))
      both  == Emit(buy, Place(ShortEntry, "short", e.orLow - Buffer, qty))
  IN  IF e.orHigh = None \/ e.orLow = None THEN Emit(stop, Alert)
      ELSE IF width \notin MinWidth..MaxWidth THEN Emit(stop, Notify("no_trade"))
      ELSE IF qty = Refused THEN Emit(stop, Alert)
      ELSE Emit(both, Notify("entry_orders_placed"))

InitialStop(e, side) == IF side = "long" THEN e.orLow - Buffer ELSE e.orHigh + Buffer

(* Mutant: 1R keeps the sign of the side.                                  *)
OpenedBy_SignedRisk(e, side, price) ==
  [side |-> side, entry |-> price, qty |-> e.entryQty,
   initialStop |-> InitialStop(e, side),
   rUnit |-> price - InitialStop(e, side),
   stop |-> InitialStop(e, side),
   beMoved |-> FALSE, whipsaw |-> FALSE, tp1 |-> FALSE,
   runnerQty |-> e.entryQty, mode |-> RunnerMode,
   phase |-> IF RunnerMode = "new" THEN "A" ELSE "none"]

(* The Position that a fill of one of the entries opens.                   *)
OpenedBy(e, side, price) ==
  [side |-> side, entry |-> price, qty |-> e.entryQty,
   initialStop |-> InitialStop(e, side),
   rUnit |-> Magnitude(price - InitialStop(e, side)),
   stop |-> InitialStop(e, side),
   beMoved |-> FALSE, whipsaw |-> FALSE, tp1 |-> FALSE,
   runnerQty |-> e.entryQty, mode |-> RunnerMode,
   phase |-> IF RunnerMode = "new" THEN "A" ELSE "none"]

(* Mutant: the opposite entry is left to the exchange.                     *)
HandleEntryFill_OppositeLeftResting(e, fill) ==
  LET side  == IF fill.ref = LongEntry THEN "long" ELSE "short"
      pos   == OpenedBy(e, side, fill.price)
      open  == [e EXCEPT !.pos = pos, !.done = TRUE]
      guard == Emit(open, Place(StopLoss, Opposite(side), pos.stop, pos.qty))
  IN  Emit(guard, Notify("entry"))

(* Mutant: the protective stop goes out on the side of the position.       *)
HandleEntryFill_StopOnSameSide(e, fill) ==
  LET side  == IF fill.ref = LongEntry THEN "long" ELSE "short"
      pos   == OpenedBy(e, side, fill.price)
      alone == Emit(e, Cancel(EntryRef(Opposite(side))))
      open  == [alone EXCEPT !.pos = pos, !.done = TRUE]
      guard == Emit(open, Place(StopLoss, side, pos.stop, pos.qty))
  IN  Emit(guard, Notify("entry"))

HandleEntryFill(e, fill) ==
  LET side  == IF fill.ref = LongEntry THEN "long" ELSE "short"
      pos   == OpenedBy(e, side, fill.price)
      alone == Emit(e, Cancel(EntryRef(Opposite(side))))
      open  == [alone EXCEPT !.pos = pos, !.done = TRUE]
      guard == Emit(open, Place(StopLoss, Opposite(side), pos.stop, pos.qty))
  IN  Emit(guard, Notify("entry"))

(* The branch of on_fill for an entry that fills while a position is open. *)
CleanUpRacingEntry(e, fill) ==
  LET closed == Emit(Emit(e, Alert), CloseMarket(fill.qty))
  IN  CheckDailyLossLimit(Emit(closed, Cancel(fill.ref)))

HandleStopFill(e, fill) ==
  LET booked == [e EXCEPT !.pnl = @ + PnlUsd(e.pos, fill.price, fill.qty)]
  IN  CheckDailyLossLimit([Emit(booked, Notify("exit")) EXCEPT !.pos = None])

(* Mutant: a racing entry replaces the open position.                      *)
OnFill_NoRaceBranch(e, fill) ==
  CASE fill.ref \in EntryRefs                  -> HandleEntryFill(e, fill)
    [] e.pos # None /\ fill.ref = StopLoss     -> HandleStopFill(e, fill)
    [] OTHER                                   -> Emit(e, Alert)

OnFill(e, fill) ==
  CASE fill.ref \in EntryRefs /\ e.pos # None  -> CleanUpRacingEntry(e, fill)
    [] fill.ref \in EntryRefs /\ e.pos = None  -> HandleEntryFill(e, fill)
    [] e.pos # None /\ fill.ref = StopLoss     -> HandleStopFill(e, fill)
    [] OTHER                                   -> Emit(e, Alert)

(* on_order_status for status "Working"; any other status does nothing.    *)
OnOrderWorking(e, ref) ==
  IF ref \in EntryRefs /\ (e.pos # None \/ e.done) THEN Emit(e, Cancel(ref)) ELSE e

OnEquityUpdate(e, equity) == [e EXCEPT !.equity = equity]

-----------------------------------------------------------------------------
(* Managing an open position.  A candle is what _feed_aggregators and the  *)
(* indicators of the position's runner mode know after a bar: None while   *)
(* no higher-timeframe candle completed, otherwise the close of the candle *)
(* that did, the moving average (None until its period is full) and the    *)
(* candle `lookback' completions ago (None until there is one).            *)

(* Mutant: the tighter-than test is dropped.                               *)
RatchetStop_Unchecked(e, candidate) ==
  Emit([e EXCEPT !.pos.stop = candidate], ModifyPrice(candidate))

RatchetStop(e, candidate) ==
  IF Tighter(e.pos.side, candidate, e.pos.stop)
  THEN Emit([e EXCEPT !.pos.stop = candidate], ModifyPrice(candidate))
  ELSE e

(* Mutant: the breakeven move is only recorded.                            *)
MoveToBreakeven_FlagOnly(e, price) ==
  IF ~e.pos.beMoved /\ RAtLeast(e.pos, price, BreakevenR)
  THEN [e EXCEPT !.pos.beMoved = TRUE]
  ELSE e

MoveToBreakeven(e, price) ==
  IF ~e.pos.beMoved /\ RAtLeast(e.pos, price, BreakevenR)
  THEN RatchetStop([e EXCEPT !.pos.beMoved = TRUE], e.pos.entry)
  ELSE e

(* int(pos.qty * close_pct).                                               *)
Tp1CloseQty(p) == (p.qty * Tp1ClosePct) \div 100

(* Mutant: the resting stop keeps the size of the whole position.          *)
HandleTp1_StopNotSizedDown(e, price) ==
  LET qty    == Tp1CloseQty(e.pos)
      left   == e.pos.qty - qty
      marked == [e EXCEPT !.pos.tp1 = TRUE, !.pos.runnerQty = left]
      booked == [marked EXCEPT !.pnl = @ + PnlUsd(e.pos, price, qty)]
      closed == Emit(booked, CloseMarket(qty))
      told   == Emit(IF qty > 0 THEN closed ELSE Emit(marked, Alert), Notify("tp1"))
  IN  CheckDailyLossLimit(IF left <= 0 THEN [told EXCEPT !.pos = None] ELSE told)

HandleTp1(e, price) ==
  LET qty    == Tp1CloseQty(e.pos)
      left   == e.pos.qty - qty
      marked == [e EXCEPT !.pos.tp1 = TRUE, !.pos.runnerQty = left]
      booked == [marked EXCEPT !.pnl = @ + PnlUsd(e.pos, price, qty)]
      closed == Emit(booked, CloseMarket(qty))
      sized  == Emit(closed, IF left > 0 THEN ModifyQty(left) ELSE Cancel(StopLoss))
      told   == Emit(IF qty > 0 THEN sized ELSE Emit(marked, Alert), Notify("tp1"))
  IN  CheckDailyLossLimit(IF left <= 0 THEN [told EXCEPT !.pos = None] ELSE told)

ManageRunnerOld(e, price, candle) ==
  IF RAtLeast(e.pos, price, CapR)
  THEN ExitPositionMarket(e, price)
  ELSE IF candle = None THEN e
  ELSE IF candle.sma = None THEN e
  ELSE LET trailed == RatchetStop(e, candle.sma)
       IN  IF Tighter(e.pos.side, candle.sma, candle.close)
           THEN ExitPositionMarket(trailed, price)
           ELSE trailed

(* _manage_runner_new_phase_b.                                             *)
TrailCandle(e, candle) ==
  IF candle.trail = None THEN e
  ELSE RatchetStop(e, IF e.pos.side = "long" THEN candle.trail.low ELSE candle.trail.high)

(* sma >= tp1_price for a long, <= for a short.                            *)
BeyondTp1(p, price) == RAtLeast(p, price, Tp1R)

(* Mutant: phase A follows the average below the entry.                    *)
FollowAverage_NoFloor(e, sma) ==
  IF sma # e.pos.stop
  THEN Emit([e EXCEPT !.pos.stop = sma], ModifyPrice(sma))
  ELSE e

(* Mutant: a stop that loosens is recorded but not sent.                   *)
FollowAverage_LooseningNotSent(e, sma) ==
  LET candidate == IF e.pos.side = "long"
                   THEN Greater(e.pos.entry, sma)
                   ELSE Smaller(e.pos.entry, sma)
      moved     == [e EXCEPT !.pos.stop = candidate]
  IN  IF Tighter(e.pos.side, candidate, e.pos.stop)
      THEN Emit(moved, ModifyPrice(candidate))
      ELSE moved

(* The stop of phase A: the average, floored at the entry, in either       *)
(* direction.                                                              *)
FollowAverage(e, sma) ==
  LET candidate == IF e.pos.side = "long"
                   THEN Greater(e.pos.entry, sma)
                   ELSE Smaller(e.pos.entry, sma)
  IN  IF candidate # e.pos.stop
      THEN Emit([e EXCEPT !.pos.stop = candidate], ModifyPrice(candidate))
      ELSE e

ManageRunnerNew(e, candle) ==
  IF candle = None THEN e
  ELSE IF candle.sma = None THEN e
  ELSE IF e.pos.phase = "A"
  THEN LET followed == FollowAverage(e, candle.sma)
           crossed  == Emit([followed EXCEPT !.pos.phase = "B"], Notify("runner_phase_change"))
       IN  IF BeyondTp1(e.pos, candle.sma) THEN TrailCandle(crossed, candle) ELSE followed
  ELSE TrailCandle(e, candle)

ManageRunner(e, price, candle) ==
  IF e.pos.mode = "old" THEN ManageRunnerOld(e, price, candle) ELSE ManageRunnerNew(e, candle)

ManagePositionOnBar(e, price, candle) ==
  LET secured == MoveToBreakeven(e, price)
      partial == IF ~secured.pos.tp1 /\ RAtLeast(secured.pos, price, Tp1R)
                 THEN HandleTp1(secured, price)
                 ELSE secured
  IN  IF partial.pos = None THEN partial
      ELSE IF partial.pos.tp1 THEN ManageRunner(partial, price, candle)
      ELSE partial

-----------------------------------------------------------------------------
(* The four parts of _check_time_based_actions, in their order.            *)

(* Mutant: the cutoff forgets the resting entries.                         *)
EntryCutoffCheck_EntriesLeft(e, now) ==
  IF /\ now >= EntryCutoff /\ e.placed /\ e.pos = None
     /\ ~e.canceled /\ ~e.done
  THEN Emit([e EXCEPT !.canceled = TRUE, !.done = TRUE], Notify("no_trade"))
  ELSE e

EntryCutoffCheck(e, now) ==
  IF /\ now >= EntryCutoff /\ e.placed /\ e.pos = None
     /\ ~e.canceled /\ ~e.done
  THEN Emit([CancelEntries(e) EXCEPT !.done = TRUE], Notify("no_trade"))
  ELSE e

WhipsawCheck(e, now) ==
  IF e.pos = None THEN e
  ELSE IF now < WhipsawTime \/ e.pos.whipsaw THEN e
  ELSE LET guarded == [e EXCEPT !.pos.whipsaw = TRUE]
       IN  IF e.lastPrice = None THEN guarded
           ELSE IF /\ Signed(e.pos.side, e.pos.entry, e.lastPrice) > 0
                   /\ ~RAtLeast(e.pos, e.lastPrice, BreakevenR)
           THEN RatchetStop(guarded, e.pos.entry)
           ELSE guarded

FomcCheck(e, now) ==
  IF FomcFlattenTime = None \/ e.pos = None THEN e
  ELSE IF now >= FomcFlattenTime THEN ExitPositionMarket(e, RefPrice(e))
  ELSE e

(* Mutant: only the entries are dealt with at the hard close.              *)
HardCloseCheck_PositionKept(e, now) ==
  IF now < HardClose THEN e ELSE [CancelEntries(e) EXCEPT !.done = TRUE]

HardCloseCheck(e, now) ==
  IF now < HardClose
  THEN e
  ELSE LET flat == IF e.pos # None THEN ExitPositionMarket(e, RefPrice(e)) ELSE e
       IN  [CancelEntries(flat) EXCEPT !.done = TRUE]

CheckTimeBasedActions(e, now) ==
  HardCloseCheck(FomcCheck(WhipsawCheck(EntryCutoffCheck(e, now), now), now), now)

OnWallClock(e, now) == CheckTimeBasedActions(e, now)

-----------------------------------------------------------------------------
(* on_bar.                                                                 *)

ObserveRange(e, bar) ==
  IF e.orFinal
  THEN e
  ELSE LET seen == IF OrStart <= bar.time /\ bar.time < OrEnd THEN UpdateRange(e, bar) ELSE e
       IN  IF bar.time >= OrEnd THEN FinalizeOpeningRange(seen) ELSE seen

OnBar(e, bar, candle) ==
  LET ranged  == ObserveRange([e EXCEPT !.lastPrice = bar.close], bar)
      managed == IF ranged.pos # None
                 THEN ManagePositionOnBar(ranged, bar.close, candle)
                 ELSE ranged
  IN  CheckTimeBasedActions(managed, bar.time)
=============================================================================
