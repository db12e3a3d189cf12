------------------------------ MODULE MCService -----------------------------
(***************************************************************************)
(* Service for TLC: from a Friday over a weekend and a Monday holiday to a *)
(* half day on Tuesday, with two configurations of different length.       *)
(***************************************************************************)
EXTENDS Service

CONSTANTS c1, c2, w1, w2

MCConfigs == {c1, c2}
MCThreads == {w1, w2}
MCOpensAt == [c \in MCConfigs |-> IF c = c1 THEN 2 ELSE 1]
MCHardCloseAt == [c \in MCConfigs |-> IF c = c1 THEN 3 ELSE 4]
MCExceptions == [d \in {7, 8} |-> IF d = 7 THEN "closed" ELSE "early_close"]
=============================================================================
