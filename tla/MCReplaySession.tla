--------------------------- MODULE MCReplaySession --------------------------
(***************************************************************************)
(* ReplaySession for TLC.  The range is 3..5, the entries rest at 6 and 2  *)
(* and 1R is 4 points: breakeven is at +2, TP1 at +4, the cap at +6.  The  *)
(* shapes are the ways a bar can matter: quiet, through one entry, through *)
(* both, to each R threshold on either side, and back through a stop.      *)
(***************************************************************************)
EXTENDS ReplaySession

Shape(low, high, close) == [low |-> low, high |-> high, close |-> close]

RangeShapes == {Shape(3, 5, 4), Shape(4, 4, 4)}

TradeShapes ==
  {Shape(4, 5, 4), Shape(4, 7, 7), Shape(1, 3, 1), Shape(1, 7, 4),
   Shape(7, 8, 8), Shape(9, 10, 10), Shape(10, 13, 13),
   Shape(0, 1, 0), Shape(-2, -1, -2), Shape(-5, -2, -5)}

BarOf(t, s) == [time |-> t, low |-> s.low, high |-> s.high, close |-> s.close]

MCBars ==
  {BarOf(t, s) : t \in 1..1, s \in RangeShapes} \cup {BarOf(t, s) : t \in 2..4, s \in TradeShapes}

MCCandles ==
  {None,
   [sma |-> 9, close |-> 10, trail |-> None],
   [sma |-> 11, close |-> 8, trail |-> [low |-> 7, high |-> 11]],
   [sma |-> -3, close |-> 0, trail |-> [low |-> -1, high |-> 1]]}
=============================================================================
