----------------------------- MODULE Indicators -----------------------------
(***************************************************************************)
(* strategy/indicators.py and the part of OrbEngine that feeds it: one     *)
(* higher-timeframe aggregator, its moving average and its history of      *)
(* completed candles, as a record g.  A bar is [time, high, low, close],   *)
(* time being the minute of the day at which it closed; the open of a bar  *)
(* is read by nothing in the strategy and is left out.                     *)
(*                                                                         *)
(*   g.bucket, high, low, close, at   BarAggregator; bucket is None before *)
(*                                    the first bar                        *)
(*   g.closes                         RollingSMA's deque                   *)
(*   g.candles                        _new_candle_history                  *)
(*   g.last                           the engine's _last_price             *)
(***************************************************************************)
EXTENDS Integers, Sequences

CONSTANTS
  None,
  Timeframe,    \* minutes of a candle, exits.runner.*.sma_timeframe_minutes
  Period,       \* exits.runner.*.sma_period
  Lookback,     \* exits.runner.new.candle_lookback
  HistoryLen    \* length of the candle deque, max(20, Lookback + 5) in the code

ASSUME IndicatorsAssumption ==
  /\ Timeframe \in Nat \ {0} /\ Period \in Nat \ {0} /\ Lookback \in Nat \ {0}
  /\ HistoryLen \in Nat /\ HistoryLen >= Lookback
  /\ None \notin Int /\ None \notin [time : Int, high : Int, low : Int, close : Int]

NewIndicators ==
  [bucket |-> None, high |-> 0, low |-> 0, close |-> 0, at |-> 0,
   closes |-> <<>>, candles |-> <<>>, last |-> None]

(* Mutant: the bucket is taken from the close time.                        *)
BucketStart_OfCloseTime(minute) == (minute \div Timeframe) * Timeframe

(* Start of the candle that a bar closing at `minute' belongs to.          *)
BucketStart(minute) == ((minute - 1) \div Timeframe) * Timeframe

(* Mutant: the deque is not bounded.                                       *)
Push_Unbounded(s, x, n) == Append(s, x)

(* deque(maxlen = n).append(x).                                            *)
Push(s, x, n) == IF Len(s) < n THEN Append(s, x) ELSE Append(Tail(s), x)

StartBucket(g, bar) ==
  [g EXCEPT !.bucket = BucketStart(bar.time), !.high = bar.high, !.low = bar.low,
            !.close = bar.close, !.at = bar.time]

Max2(a, b) == IF a >= b THEN a ELSE b
Min2(a, b) == IF a <= b THEN a ELSE b

Widen(g, bar) ==
  [g EXCEPT !.high = Max2(@, bar.high), !.low = Min2(@, bar.low),
            !.close = bar.close, !.at = bar.time]

(* The candle that a bar completes, None when it completes none.           *)
Completed(g, bar) ==
  IF g.bucket = None \/ BucketStart(bar.time) = g.bucket THEN None
  ELSE [time |-> g.at, high |-> g.high, low |-> g.low, close |-> g.close]

(* _feed_aggregators, with the price that on_bar and warm_up_indicators    *)
(* both remember.                                                          *)
Feed(g, bar) ==
  LET candle == Completed(g, bar)
      priced == [g EXCEPT !.last = bar.close]
  IN  IF g.bucket = None THEN StartBucket(priced, bar)
      ELSE IF candle = None THEN Widen(priced, bar)
      ELSE [StartBucket(priced, bar) EXCEPT
              !.closes  = Push(@, candle.close, Period),
              !.candles = Push(@, candle, HistoryLen)]

(* warm_up_indicators.                                                     *)
WarmedUp(g, bars) ==
  LET after[i \in 0..Len(bars)] == IF i = 0 THEN g ELSE Feed(after[i - 1], bars[i])
  IN  after[Len(bars)]

(* RollingSMA.value, times Period.                                         *)
SmaSum(g) ==
  IF Len(g.closes) < Period THEN None
  ELSE LET sum[i \in 0..Period] == IF i = 0 THEN 0 ELSE sum[i - 1] + g.closes[i]
       IN  sum[Period]

(* The candle that phase B trails.                                         *)
TrailReference(g) ==
  IF Len(g.candles) < Lookback THEN None ELSE g.candles[Len(g.candles) + 1 - Lookback]
=============================================================================
