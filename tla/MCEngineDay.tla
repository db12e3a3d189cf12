----------------------------- MODULE MCEngineDay ----------------------------
(***************************************************************************)
(* EngineDay for TLC.  The range bar spans 3..5, so the entries rest at 6  *)
(* and 2, 1R is 4 points without slippage, breakeven is at +2, TP1 at +4   *)
(* and the cap at +6 points from the entry.                                *)
(***************************************************************************)
EXTENDS EngineDay

At(c) == [high |-> c, low |-> c, close |-> c]

MCRangeShapes == {[high |-> 5, low |-> 3, close |-> 4], At(4)}

MCBarShapes == {At(c) : c \in {-4, -2, 7, 10, 12}}

Candle(sma, close, low, high) ==
  [sma |-> sma, close |-> close, trail |-> [low |-> low, high |-> high]]

MCCandles ==
  {None,
   [sma |-> 9, close |-> 10, trail |-> None],
   Candle(11, 8, 7, 11),
   Candle(-3, 0, -1, 1)}

=============================================================================
