--------------------------- MODULE TradovateBroker --------------------------
(***************************************************************************)
(* TradovateBroker of broker/tradovate_broker.py: what it remembers of the *)
(* orders it sent, a record t, and one operator per place that changes or  *)
(* reads it.  The calls themselves travel to the exchange; whoever         *)
(* composes the broker says when they arrive and when they are answered.   *)
(*                                                                         *)
(*   t.ids       _ref_to_order_id, None where the dict has no such key     *)
(*   t.names     _order_id_to_ref, as a set of pairs; never shrinks        *)
(*   t.side, t.qty   _position_side and _position_qty, kept from fills     *)
(***************************************************************************)
EXTENDS OrbConfig

OrderRefs == {"entry_long", "entry_short", "stop_loss"}

NewBroker == [ids |-> [ref \in OrderRefs |-> None], names |-> {}, side |-> None, qty |-> 0]

(* Mutant: only the direction needed for cancels is kept.                  *)
Placed_NotNamed(t, ref, id) == [t EXCEPT !.ids[ref] = id]

(* _place_stop_order, once its call is answered with an order id.          *)
Placed(t, ref, id) ==
  [t EXCEPT !.ids[ref] = id, !.names = @ \cup {[id |-> id, ref |-> ref]}]

(* The reference of an order id, None for an id that is not (yet) mapped.  *)
RefOf(t, id) ==
  IF \E n \in t.names : n.id = id
  THEN (CHOOSE n \in t.names : n.id = id).ref
  ELSE None

(* Mutant: a market close is sent on the side of the position.             *)
ClosingSide_SameSide(t) == t.side

(* Mutant: without a record of the side, a long is assumed.                *)
ClosingSide_Guessed(t) == IF t.side = None THEN "short" ELSE Opposite(t.side)

(* The side a market close is sent on, None when it is refused.            *)
ClosingSide(t) == IF t.side = None THEN None ELSE Opposite(t.side)

(* _handle_array_frame, what a fill of a mapped order does to the tracked  *)
(* position before the callback.  No mapped reference is a market close's. *)
TrackFill(t, ref, qty) ==
  IF ref = "stop_loss"
  THEN LET left == Greater(0, t.qty - qty)
       IN  [t EXCEPT !.qty = left, !.side = IF left = 0 THEN None ELSE @]
  ELSE [t EXCEPT !.side = IF ref = "entry_long" THEN "long" ELSE "short", !.qty = qty]
=============================================================================
