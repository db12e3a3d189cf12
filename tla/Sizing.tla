------------------------------- MODULE Sizing -------------------------------
(***************************************************************************)
(* compute_position_size of strategy/sizing.py.  InvalidSizingInput is the *)
(* value Refused; every caller stops the day on it.                        *)
(***************************************************************************)
EXTENDS OrbConfig

Refused == 0

(* The loss of qty contracts at the stop stays within the risk budget.     *)
Affordable(qty, equity, stopDistance) ==
  qty * stopDistance * PointValue * 10000 <= equity * RiskBp

(* Mutant: the configured minimum is not applied.                          *)
ComputePositionSize_NoMinimum(equity, stopDistance) ==
  LET raw == (equity * RiskBp) \div (stopDistance * PointValue * 10000)
      qty == IF SizingMode = "fixed" THEN FixedContracts ELSE raw
  IN  IF \/ stopDistance <= 0
         \/ SizingMode = "risk_pct" /\ equity <= 0
         \/ qty > SanityCap
      THEN Refused
      ELSE qty

(* Mutant: a size above the cap is clamped to it.                          *)
ComputePositionSize_CapClamps(equity, stopDistance) ==
  LET raw == (equity * RiskBp) \div (stopDistance * PointValue * 10000)
      qty == IF SizingMode = "fixed" THEN FixedContracts ELSE Greater(MinContracts, raw)
  IN  IF stopDistance <= 0 \/ (SizingMode = "risk_pct" /\ equity <= 0)
      THEN Refused
      ELSE Smaller(SanityCap, qty)

(* Mutant: the quotient is rounded up.                                     *)
ComputePositionSize_RoundUp(equity, stopDistance) ==
  LET raw == (equity * RiskBp) \div (stopDistance * PointValue * 10000) + 1
      qty == IF SizingMode = "fixed" THEN FixedContracts ELSE Greater(MinContracts, raw)
  IN  IF \/ stopDistance <= 0
         \/ SizingMode = "risk_pct" /\ equity <= 0
         \/ qty > SanityCap
      THEN Refused
      ELSE qty

ComputePositionSize(equity, stopDistance) ==
  LET raw == (equity * RiskBp) \div (stopDistance * PointValue * 10000)
      qty == IF SizingMode = "fixed" THEN FixedContracts ELSE Greater(MinContracts, raw)
  IN  IF \/ stopDistance <= 0
         \/ SizingMode = "risk_pct" /\ equity <= 0
         \/ qty > SanityCap
      THEN Refused
      ELSE qty
=============================================================================
