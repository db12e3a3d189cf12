----------------------------- MODULE MCAppSession ---------------------------
(***************************************************************************)
(* AppSession for TLC: the range is 3..5 and the entries rest at 6 and 2;  *)
(* a later bar is quiet, breaks out on one side, or spans both.            *)
(***************************************************************************)
EXTENDS AppSession

Shape(low, high, close) == [low |-> low, high |-> high, close |-> close]

MCRangeShapes == {Shape(3, 5, 4)}
MCShapes == {Shape(4, 5, 4), Shape(4, 7, 6), Shape(1, 4, 2), Shape(1, 7, 4)}
=============================================================================
