------------------------------- MODULE MCSizing -----------------------------
(***************************************************************************)
(* compute_position_size over a grid of equities and stop distances, each  *)
(* compared with what sizing.py's docstring asks for.                      *)
(***************************************************************************)
EXTENDS Sizing

CONSTANTS Equities, StopDistances

ASSUME GridAssumption == Equities \subseteq Int /\ StopDistances \subseteq Int

VARIABLES equity, stopDistance, qty

Init ==
  /\ equity \in Equities /\ stopDistance \in StopDistances
  /\ qty = None

Size ==
  /\ qty = None
  /\ qty' = ComputePositionSize(equity, stopDistance)
  /\ UNCHANGED <<equity, stopDistance>>

Spec == Init /\ [][Size]_<<equity, stopDistance, qty>>

MCEquities == {-100, 0} \cup {20 * k : k \in 1..120}
MCStopDistances == -1..7

Sized == qty # None /\ qty # Refused

(* A size that is not refused respects both rails, the configured minimum  *)
(* and the sanity cap.                                                     *)
SizeWithinRails == Sized => qty \in MinContracts..SanityCap

(* A size above the minimum is the largest whole number of contracts whose *)
(* loss at the stop stays within the risk budget; at the minimum, no       *)
(* larger size would.                                                      *)
SizeIsLargestAffordable ==
  Sized => /\ qty > MinContracts => Affordable(qty, equity, stopDistance)
           /\ ~Affordable(qty + 1, equity, stopDistance)

(* A trade is refused exactly for a worthless account, a stop that is not  *)
(* beyond the entry, or a budget that would buy more than the cap.         *)
RefusedExactlyWhenAbsurd ==
  qty # None =>
    (qty = Refused <=> \/ equity <= 0 \/ stopDistance <= 0
                       \/ Affordable(SanityCap + 1, equity, stopDistance)
                       \/ MinContracts > SanityCap)
=============================================================================
