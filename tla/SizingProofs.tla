----------------------------- MODULE SizingProofs ---------------------------
(***************************************************************************)
(* What compute_position_size returns, for every configuration that loads, *)
(* every equity and every stop distance: the grid of MCSizing may be any   *)
(* sets of integers.                                                       *)
(***************************************************************************)
EXTENDS MCSizing, TLAPS

(* What one contract loses at the stop, in the units of the budget.        *)
Unit(distance) == distance * PointValue * 10000

(* A stop at a positive distance costs something.                          *)
LEMMA UnitPositive ==
  ASSUME NEW d \in Int, d > 0
  PROVE  Unit(d) \in Nat /\ Unit(d) > 0
<1>1. d * PointValue \in Int /\ d * PointValue > 0
  BY SafetyAssumption
<1> QED
  BY <1>1 DEF Unit

(* A product of integers grows with its factor.                            *)
LEMMA TimesMonotone ==
  ASSUME NEW u \in Nat, NEW a \in Int, NEW b \in Int, a <= b
  PROVE  a * u <= b * u
<1>1. PICK k \in Nat : b = a + k
  <2>1. b - a \in Nat /\ b = a + (b - a)
    OBVIOUS
  <2> QED
    BY <2>1
<1>2. b * u = a * u + k * u
  BY <1>1
<1>3. k * u >= 0
  OBVIOUS
<1> QED
  BY <1>2, <1>3

(* The quotient by the unit is the number of affordable contracts.         *)
LEMMA QuotientIsAffordable ==
  ASSUME NEW x \in Int, NEW d \in Int, d > 0, NEW n \in Int
  PROVE  /\ (x * RiskBp) \div Unit(d) \in Int
         /\ Affordable(n, x, d) <=> n <= (x * RiskBp) \div Unit(d)
<1> DEFINE u == Unit(d)
           budget == x * RiskBp
           raw == budget \div u
<1>1. u \in Nat /\ u > 0
  BY UnitPositive
<1>2. budget \in Int
  BY RiskAssumption
<1>3. Affordable(n, x, d) <=> n * u <= budget
  <2>1. n * d * PointValue * 10000 = n * (d * PointValue * 10000)
    BY SafetyAssumption
  <2> QED
    BY <2>1 DEF Affordable, Unit
<1> HIDE DEF u, budget
<1>4. raw \in Int /\ raw * u <= budget /\ budget < raw * u + u
  BY <1>1, <1>2
<1> HIDE DEF raw
<1>5. n <= raw => n * u <= budget
  <2>1. n <= raw => n * u <= raw * u
    BY <1>1, <1>4, TimesMonotone
  <2>2. n * u \in Int /\ raw * u \in Int
    BY <1>1, <1>4
  <2> QED
    BY <1>2, <1>4, <2>1, <2>2
<1>6. n > raw => n * u > budget
  <2>1. n > raw => (raw + 1) * u <= n * u
    BY <1>1, <1>4, TimesMonotone
  <2>2. (raw + 1) * u = raw * u + u /\ n * u \in Int /\ raw * u \in Int
    BY <1>1, <1>4
  <2> QED
    BY <1>1, <1>2, <1>4, <2>1, <2>2
<1>7. n * u \in Int
  BY <1>1
<1> QED
  BY <1>2, <1>3, <1>4, <1>5, <1>6, <1>7 DEF raw, u, budget

(* compute_position_size in terms of what is affordable.                   *)
LEMMA SizeByBudget ==
  ASSUME SizingMode = "risk_pct", NEW x \in Int, NEW d \in Int
  PROVE  LET size == ComputePositionSize(x, d)
         IN  \/ /\ size = Refused
                /\ \/ x <= 0 \/ d <= 0
                   \/ MinContracts > SanityCap \/ Affordable(SanityCap + 1, x, d)
             \/ /\ x > 0 /\ d > 0
                /\ size \in MinContracts..SanityCap
                /\ size > MinContracts => Affordable(size, x, d)
                /\ ~Affordable(size + 1, x, d)
                /\ ~Affordable(SanityCap + 1, x, d)
<1>1. CASE x <= 0 \/ d <= 0
  BY <1>1 DEF ComputePositionSize
<1>2. CASE x > 0 /\ d > 0
  <2> DEFINE raw == (x * RiskBp) \div (d * PointValue * 10000)
  <2>1. raw \in Int /\ \A n \in Int : Affordable(n, x, d) <=> n <= raw
    BY <1>2, QuotientIsAffordable DEF Unit
  <2>2. ComputePositionSize(x, d)
          = IF Greater(MinContracts, raw) > SanityCap THEN Refused ELSE Greater(MinContracts, raw)
    BY <1>2 DEF ComputePositionSize
  <2> HIDE DEF raw
  <2>3. MinContracts \in Nat \ {0} /\ SanityCap \in Nat \ {0}
    BY RiskAssumption
  <2> QED
    BY <1>2, <2>1, <2>2, <2>3 DEF Greater
<1> QED
  BY <1>1, <1>2

-----------------------------------------------------------------------------

GridInv ==
  /\ equity \in Int /\ stopDistance \in Int
  /\ qty = None \/ qty = ComputePositionSize(equity, stopDistance)

(* The size, once computed, is that of the inputs of the grid.             *)
LEMMA GridInvariant == Spec => []GridInv
<1>1. Init => GridInv
  BY GridAssumption DEF Init, GridInv
<1>2. GridInv /\ [Size]_<<equity, stopDistance, qty>> => GridInv'
  BY DEF GridInv, Size
<1> QED
  BY <1>1, <1>2, PTL DEF Spec

(* sizing.py: a size sized by risk is inside both rails.                   *)
THEOREM SizeIsWithinRails ==
  ASSUME SizingMode = "risk_pct"
  PROVE  Spec => []SizeWithinRails
<1>1. GridInv => SizeWithinRails
  BY SizeByBudget DEF GridInv, SizeWithinRails, Sized
<1> QED
  BY <1>1, GridInvariant, PTL

(* sizing.py: it is the largest whose loss at the stop the budget covers.  *)
THEOREM SizeIsLargest ==
  ASSUME SizingMode = "risk_pct"
  PROVE  Spec => []SizeIsLargestAffordable
<1>1. GridInv => SizeIsLargestAffordable
  BY SizeByBudget DEF GridInv, SizeIsLargestAffordable, Sized
<1> QED
  BY <1>1, GridInvariant, PTL

(* sizing.py: a trade is refused for these reasons and no other.           *)
THEOREM RefusalIsExact ==
  ASSUME SizingMode = "risk_pct"
  PROVE  Spec => []RefusedExactlyWhenAbsurd
<1>1. GridInv => RefusedExactlyWhenAbsurd
  BY SizeByBudget, RiskAssumption DEF GridInv, RefusedExactlyWhenAbsurd, Refused
<1> QED
  BY <1>1, GridInvariant, PTL
=============================================================================
