----------------------------- MODULE OrbConfig -----------------------------
(***************************************************************************)
(* The parameters of one trading day, as config.py validates them, and the *)
(* arithmetic every module shares.  Prices are integers (ticks), times are *)
(* integers (minutes of the trading day), R-multiples are fractions        *)
(* x / RScale, percentages are integers out of 100 and the risk budget is  *)
(* an integer out of 10000 (basis points).                                 *)
(***************************************************************************)
EXTENDS Integers

CONSTANTS
  None,                                    \* Python's None
  OrStart, OrEnd, EntryCutoff, HardClose,  \* SessionConfig
  WhipsawTime,                             \* exits.whipsaw_guard.time
  FomcFlattenTime,                         \* None unless today is an FOMC day
  MinWidth, MaxWidth,                      \* opening_range_filter
  Buffer,                                  \* entry.buffer_points
  SizingMode, FixedContracts, RiskBp, MinContracts, SanityCap,  \* risk
  RScale, BreakevenR, Tp1R, CapR,          \* exits, runner.old.cap_r_multiple
  Tp1ClosePct,                             \* exits.tp1_close_pct
  RunnerMode,                              \* exits.runner.mode
  PointValue,                              \* instrument.point_value
  LossLimitUsd, LossLimitPct               \* safety; None: no percentage limit

(* What the validators of SessionConfig, OpeningRangeFilterConfig,         *)
(* EntryConfig, RiskConfig, ExitsConfig, SafetyConfig and InstrumentConfig *)
(* guarantee of a configuration that loads.                                *)
ASSUME NoneAssumption == None \notin Int /\ None \notin {"long", "short"}

ASSUME SessionAssumption ==
  /\ OrStart \in Nat /\ OrEnd \in Nat /\ EntryCutoff \in Nat /\ HardClose \in Nat
  /\ OrStart < OrEnd /\ OrEnd <= EntryCutoff /\ EntryCutoff <= HardClose
  /\ WhipsawTime \in Nat
  /\ FomcFlattenTime \in Nat \cup {None}

ASSUME RangeAssumption ==
  /\ MinWidth \in Nat \ {0} /\ MaxWidth \in Nat /\ MinWidth < MaxWidth
  /\ Buffer \in Nat

ASSUME RiskAssumption ==
  /\ SizingMode \in {"fixed", "risk_pct"}
  /\ FixedContracts \in (Nat \ {0}) \cup {None}
  /\ RiskBp \in 1..1000
  /\ MinContracts \in Nat \ {0} /\ SanityCap \in Nat \ {0}
  /\ SizingMode = "fixed" => FixedContracts # None /\ FixedContracts <= SanityCap

ASSUME ExitsAssumption ==
  /\ RScale \in Nat \ {0}
  /\ BreakevenR \in Nat \ {0} /\ Tp1R \in Nat /\ CapR \in Nat \ {0}
  /\ BreakevenR < Tp1R
  /\ Tp1ClosePct \in 1..100
  /\ RunnerMode \in {"old", "new"}

ASSUME SafetyAssumption ==
  /\ PointValue \in Nat \ {0}
  /\ LossLimitUsd \in Nat \ {0}
  /\ LossLimitPct \in (1..100) \cup {None}

-----------------------------------------------------------------------------

Sides == {"long", "short"}

Opposite(side) == IF side = "long" THEN "short" ELSE "long"

Greater(a, b) == IF a >= b THEN a ELSE b
Smaller(a, b) == IF a <= b THEN a ELSE b
Magnitude(x)  == IF x >= 0 THEN x ELSE -x

(* Points gained by a position on `side' from `entry' to `price'.          *)
Signed(side, entry, price) == IF side = "long" THEN price - entry ELSE entry - price

(* `a' is a strictly tighter protective stop than `b' for a position on    *)
(* `side'.                                                                 *)
Tighter(side, a, b) == IF side = "long" THEN a > b ELSE a < b
=============================================================================
