---------------------------- MODULE MCLiveSession ---------------------------
(***************************************************************************)
(* LiveSession for TLC.  The range is 3..5, the entries rest at 6 and 2    *)
(* for two contracts, and 1R is four points.  A close of 12 is TP1 and the *)
(* cap of a long in one bar, and a losing bar of a short; a close of -2 is *)
(* TP1 of a short, whose runner then stays, meets the average (a candle    *)
(* that closes beyond it) or turns at 12, and a losing bar of a long.      *)
(***************************************************************************)
EXTENDS LiveSession

At(c) == [high |-> c, low |-> c, close |-> c]

MCRangeShapes == {[high |-> 5, low |-> 3, close |-> 4]}
MCBarShapes == {At(12), At(-2)}
MCCandles == {None, [close |-> 4, sma |-> 3, trail |-> None]}
=============================================================================
