---------------------------- MODULE ReplaySession ---------------------------
(***************************************************************************)
(* scripts/replay_backtest.py: one OrbEngine and one DryRunBroker driven   *)
(* bar by bar through a CSV file, with the broker's on_fill wired back to  *)
(* the engine.  It is one coroutine that never suspends between the calls  *)
(* it makes, so a step is one iteration's feed_bar with every callback it  *)
(* makes, or its on_bar with every action executed, or the closing         *)
(* on_wall_clock.                                                          *)
(***************************************************************************)
EXTENDS DryRunBroker

CONSTANTS
  Bars,            \* the bars a CSV may hold: [time, high, low, close]
  Candles,         \* what the indicators may know after a bar
  StartEquity,     \* --equity
  MaxBars          \* bound: rows in the CSV

ASSUME ReplayAssumption ==
  /\ \A bar \in Bars : bar \in [time : Nat, high : Int, low : Int, close : Int]
  /\ \A candle \in Candles \ {None} :
       /\ candle.sma \in Int \cup {None} /\ candle.close \in Int
       /\ candle.trail # None => candle.trail.low \in Int /\ candle.trail.high \in Int
  /\ StartEquity \in Int \ {0} /\ MaxBars \in Nat

VARIABLES
  e,       \* the engine; e.sink is the broker
  bar,     \* the latest row read, None before the first
  phase,   \* "feed", "decide" or "over": the next call of run()
  rows     \* rows read

vars == <<e, bar, phase, rows>>

Eng == INSTANCE OrbEngine WITH Deliver <- Execute

broker == e.sink

Init ==
  /\ e = Eng!NewEngine(Eng!FreshDay, StartEquity, NewBroker(StartEquity))
  /\ bar = None
  /\ phase = "feed"
  /\ rows = 0

(* One turn of feed_bar's loop: an order that rested when the loop began,  *)
(* has not been cancelled by an earlier callback, and triggers.            *)
FeedOrder(engine, ref, atStart, b) ==
  IF ref \in atStart /\ engine.sink.working[ref] # None
  THEN LET order == engine.sink.working[ref]
           fill  == [ref |-> ref, price |-> order.price, qty |-> order.qty]
       IN  IF Triggers(order, b)
           THEN Eng!OnFill([engine EXCEPT !.sink = Fill(@, ref)], fill)
           ELSE engine
  ELSE engine

(* Mutant: the loop keeps the orders it found, also the cancelled ones.    *)
FeedBar_CanceledStillFill(engine, b) ==
  LET start         == engine.sink.working
      Revived(x, r) == [x EXCEPT !.sink.working[r] = start[r]]
      Turn(x, r)    == IF start[r] = None THEN x ELSE FeedOrder(Revived(x, r), r, {r}, b)
      seen          == [engine EXCEPT !.sink = SeeBar(@, b)]
  IN  Turn(Turn(Turn(seen, "entry_long"), "entry_short"), "stop_loss")

(* feed_bar: the dict holds its keys in the order they were placed.        *)
FeedBar(engine, b) ==
  LET atStart == {ref \in Refs : engine.sink.working[ref] # None}
      seen    == [engine EXCEPT !.sink = SeeBar(@, b)]
      first   == FeedOrder(seen, "entry_long", atStart, b)
      second  == FeedOrder(first, "entry_short", atStart, b)
  IN  FeedOrder(second, "stop_loss", atStart, b)

(* load_bars sorts the rows by time.                                       *)
Feed ==
  /\ phase = "feed" /\ rows < MaxBars
  /\ \E b \in Bars :
       /\ bar # None => b.time >= bar.time
       /\ bar' = b
       /\ e' = FeedBar(e, b)
  /\ phase' = "decide"
  /\ rows' = rows + 1

Decide ==
  /\ phase = "decide"
  /\ \E candle \in Candles : e' = Eng!OnBar(e, bar, candle)
  /\ phase' = "feed"
  /\ UNCHANGED <<bar, rows>>

(* The rows are exhausted: on_wall_clock(hard_close).                      *)
CloseDay ==
  /\ phase = "feed"
  /\ e' = Eng!OnWallClock(e, HardClose)
  /\ phase' = "over"
  /\ UNCHANGED <<bar, rows>>

Next == Feed \/ Decide \/ CloseDay

(* The script runs to its end: its loop is over a finite list.  Every step *)
(* of Next changes phase, and one is enabled until the day is over, so     *)
(* weak fairness of the script is weak fairness of its phase.              *)
Advance == phase # "over" /\ phase' \in {"feed", "decide", "over"}

Spec == Init /\ [][Next]_vars /\ WF_phase(Advance)

-----------------------------------------------------------------------------

Position ==
  [side : Sides, entry : Int, qty : Nat \ {0}, initialStop : Int, rUnit : Nat \ {0},
   stop : Int, beMoved : BOOLEAN, whipsaw : BOOLEAN, tp1 : BOOLEAN,
   runnerQty : Nat, mode : {"old", "new"}, phase : {"none", "A", "B"}]

StopOrder == [side : Sides, price : Int, qty : Nat \ {0}]

(* None is neither a position nor an order.                                *)
ASSUME OptionalAssumption == None \notin Position /\ None \notin StopOrder

Broker ==
  [working : [Refs -> StopOrder \cup {None}], last : Int \cup {None},
   side : Sides \cup {None}, entry : Int \cup {None}, qty : Nat, equity : Int]

Engine ==
  [orHigh : Int \cup {None}, orLow : Int \cup {None}, orFinal : BOOLEAN,
   entryQty : Nat, placed : BOOLEAN, pos : Position \cup {None},
   done : BOOLEAN, halted : BOOLEAN, pnl : Int, equity : Int,
   lastPrice : Int \cup {None}, canceled : BOOLEAN, sink : Broker]

(* The type invariant.                                                     *)
TypeOK ==
  /\ e \in Engine
  /\ bar \in Bars \cup {None}
  /\ phase \in {"feed", "decide", "over"}
  /\ rows \in Nat

-----------------------------------------------------------------------------
(* The properties of an engine x and the broker x.sink it acts on.         *)

MirrorsWhenFlat(x) ==
  /\ x.sink.side = None /\ x.sink.entry = None /\ x.sink.qty = 0
  /\ x.sink.working["stop_loss"] = None

MirrorsWhenOpen(x) ==
  /\ x.sink.side = x.pos.side /\ x.sink.entry = x.pos.entry
  /\ x.sink.qty = x.pos.runnerQty
  /\ x.sink.working["stop_loss"] =
       [side |-> Opposite(x.pos.side), price |-> x.pos.stop, qty |-> x.pos.runnerQty]

(* The simulated account holds what the engine believes it holds, at the   *)
(* same entry price, and the resting protective stop is the engine's: on   *)
(* the closing side, at pos.current_stop, for pos.runner_qty contracts.    *)
(* The two keep separate books, and only actions and fills connect them.   *)
Mirrors(x) == IF x.pos = None THEN MirrorsWhenFlat(x) ELSE MirrorsWhenOpen(x)

LongOrder(x)  == [side |-> "long", price |-> x.orHigh + Buffer, qty |-> x.entryQty]
ShortOrder(x) == [side |-> "short", price |-> x.orLow - Buffer, qty |-> x.entryQty]

(* The two entries rest, at the edges of the range, exactly from the       *)
(* finalization of the range to the end of trading for the day: the        *)
(* opposite one never outlives the fill of the first.                      *)
EntriesRest(x) ==
  IF x.placed /\ ~x.done
  THEN /\ x.sink.working["entry_long"] = LongOrder(x)
       /\ x.sink.working["entry_short"] = ShortOrder(x)
  ELSE /\ x.sink.working["entry_long"] = None
       /\ x.sink.working["entry_short"] = None

(* The engine books P&L at the price it decides on and the broker at the   *)
(* price it simulates; to the dollar, they agree on the account's equity.  *)
BooksAgree(x) == x.sink.equity = StartEquity + x.pnl

(* The realized loss is inside the daily limit or the day is halted.       *)
LimitEnforced(x) == Eng!LossLimitReached(x) => x.halted /\ x.done

(* The account mirrors the engine's position and stop between any two      *)
(* calls of the replay.                                                    *)
AccountMirrorsEngine == Mirrors(e)

(* The resting entry orders are those the engine's day calls for.          *)
EntriesRestWhileArmed == EntriesRest(e)

(* The simulated equity moves by exactly the engine's realized P&L.        *)
EquityMatchesPnl == BooksAgree(e)

(* No bar ends with an unhalted day beyond its loss limit.                 *)
LossLimitEnforced == LimitEnforced(e)

Resting(ref) == broker.working[ref]

AccountStage ==
  CASE broker.side # None                            -> "inTrade"
    [] \E ref \in Eng!EntryRefs : Resting(ref) # None -> "armed"
    [] e.done /\ broker.side = None                  -> "over"
    [] OTHER                                         -> "waiting"

(* The replayed day implements the promise of OneTradeDay, seen from the   *)
(* broker's books, and it ends.                                            *)
OneTrade == INSTANCE OneTradeDay WITH
  stage   <- AccountStage,
  side    <- broker.side,
  held    <- broker.qty,
  covered <- IF Resting("stop_loss") = None THEN 0 ELSE Resting("stop_loss").qty,
  entries <- {side \in Sides : Resting(Eng!EntryRef(side)) # None}

OneTradeSpec == OneTrade!Spec
=============================================================================
