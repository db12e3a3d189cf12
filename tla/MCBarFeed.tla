------------------------------ MODULE MCBarFeed -----------------------------
(***************************************************************************)
(* BarFeed for TLC: candles of two minutes, an average over two of them, a *)
(* window of two bars, and prices that rise and fall.                      *)
(***************************************************************************)
EXTENDS BarFeed

MCShape ==
  LET close == <<5, 8, 6, 3, 7, 9, 4>>
  IN  [m \in 1..EndTime |-> [high |-> close[m] + (m % 3), low |-> close[m] - (m % 2),
                             close |-> close[m]]]
=============================================================================
