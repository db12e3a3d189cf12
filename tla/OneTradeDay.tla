----------------------------- MODULE OneTradeDay ----------------------------
(***************************************************************************)
(* What the strategy promises of an account in one day: nothing is held or *)
(* resting before the entries are armed; at most one of them opens a       *)
(* position, and the other is gone from that moment; while the position is *)
(* open exactly its contracts are covered by a resting stop; it is only    *)
(* ever reduced; and once it is closed nothing is held or resting again.   *)
(***************************************************************************)
EXTENDS Integers

CONSTANT None

VARIABLES
  stage,     \* "waiting", "armed", "inTrade", "over"
  side,      \* of the position held, or None
  held,      \* contracts held
  covered,   \* contracts a resting protective stop would close
  entries    \* sides with a resting entry order

vars == <<stage, side, held, covered, entries>>

Bare == side' = None /\ held' = 0 /\ covered' = 0

Init ==
  /\ stage = "waiting" /\ side = None /\ held = 0 /\ covered = 0 /\ entries = {}

Arm ==
  /\ stage = "waiting" /\ stage' = "armed"
  /\ entries' = {"long", "short"} /\ Bare

Enter ==
  /\ stage = "armed" /\ stage' = "inTrade"
  /\ entries' = {}
  /\ side' \in {"long", "short"}
  /\ held' \in Nat \ {0} /\ covered' = held'

Reduce ==
  /\ stage = "inTrade" /\ stage' = "inTrade"
  /\ held' \in 1..(held - 1) /\ covered' = held'
  /\ UNCHANGED <<side, entries>>

Finish ==
  /\ stage # "over" /\ stage' = "over"
  /\ entries' = {} /\ Bare

Next == Arm \/ Enter \/ Reduce \/ Finish

Spec == Init /\ [][Next]_vars /\ WF_vars(Finish)
=============================================================================
