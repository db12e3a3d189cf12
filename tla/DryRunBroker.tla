----------------------------- MODULE DryRunBroker ---------------------------
(***************************************************************************)
(* DryRunBroker of broker/dry_run_broker.py: the simulated account.  A     *)
(* broker is a record b, every method an operator from a broker to the     *)
(* broker after the call:                                                  *)
(*                                                                         *)
(*   b.working              the resting stop order of each reference, None *)
(*                          where the dict has no such key                 *)
(*   b.last                 close of the last bar fed, None before any     *)
(*   b.side, entry, qty     the simulated position                         *)
(*   b.equity               the simulated equity                           *)
(*                                                                         *)
(* The callback on_fill belongs to whoever composes the broker, and so     *)
(* does the loop of feed_bar, which calls it between two orders.           *)
(***************************************************************************)
EXTENDS OrbConfig

Refs == {"entry_long", "entry_short", "stop_loss"}

NewBroker(equity) ==
  [working |-> [ref \in Refs |-> None], last |-> None,
   side |-> None, entry |-> None, qty |-> 0, equity |-> equity]

HasPosition(b) == b.side # None /\ b.entry # None

(* _apply_simulated_pnl.                                                   *)
ApplySimulatedPnl(b, price, qty) ==
  [b EXCEPT !.equity = @ + Signed(b.side, b.entry, price) * qty * PointValue]

(* _reduce_position.                                                       *)
ReducePosition(b, qty) ==
  IF b.qty - qty <= 0
  THEN [b EXCEPT !.qty = 0, !.side = None, !.entry = None]
  ELSE [b EXCEPT !.qty = @ - qty]

(* Mutant: a modify changes the price only.                                *)
Execute_ModifySizeIgnored(b, a) ==
  CASE a.type = "place" ->
         [b EXCEPT !.working[a.ref] = [side |-> a.side, price |-> a.price, qty |-> a.qty]]
    [] a.type = "cancel" -> [b EXCEPT !.working[a.ref] = None]
    [] a.type = "modify_price" /\ b.working[a.ref] # None ->
         [b EXCEPT !.working[a.ref].price = a.price]
    [] a.type = "close" /\ b.last # None /\ HasPosition(b) ->
         ReducePosition(ApplySimulatedPnl(b, b.last, a.qty), a.qty)
    [] OTHER -> b

(* Mutant: a market close reduces the position without booking its P&L.    *)
Execute_CloseNotBooked(b, a) ==
  CASE a.type = "place" ->
         [b EXCEPT !.working[a.ref] = [side |-> a.side, price |-> a.price, qty |-> a.qty]]
    [] a.type = "cancel" -> [b EXCEPT !.working[a.ref] = None]
    [] a.type = "modify_price" /\ b.working[a.ref] # None ->
         [b EXCEPT !.working[a.ref].price = a.price]
    [] a.type = "modify_qty" /\ b.working[a.ref] # None ->
         [b EXCEPT !.working[a.ref].qty = a.qty]
    [] a.type = "close" /\ b.last # None /\ HasPosition(b) -> ReducePosition(b, a.qty)
    [] OTHER -> b

Execute(b, a) ==
  CASE a.type = "place" ->
         [b EXCEPT !.working[a.ref] = [side |-> a.side, price |-> a.price, qty |-> a.qty]]
    [] a.type = "cancel" -> [b EXCEPT !.working[a.ref] = None]
    [] a.type = "modify_price" /\ b.working[a.ref] # None ->
         [b EXCEPT !.working[a.ref].price = a.price]
    [] a.type = "modify_qty" /\ b.working[a.ref] # None ->
         [b EXCEPT !.working[a.ref].qty = a.qty]
    [] a.type = "close" /\ b.last # None /\ HasPosition(b) ->
         ReducePosition(ApplySimulatedPnl(b, b.last, a.qty), a.qty)
    [] OTHER -> b

(* feed_bar, before its loop.                                              *)
SeeBar(b, bar) == [b EXCEPT !.last = bar.close]

Triggers(order, bar) ==
  IF order.side = "long" THEN bar.high >= order.price ELSE bar.low <= order.price

(* feed_bar, one triggered order of its loop, up to the callback.          *)
Fill(b, ref) ==
  LET order == b.working[ref]
      gone  == [b EXCEPT !.working[ref] = None]
  IN  IF ref # "stop_loss"
      THEN [gone EXCEPT !.side = order.side, !.entry = order.price, !.qty = order.qty]
      ELSE IF HasPosition(b)
      THEN ReducePosition(ApplySimulatedPnl(gone, order.price, order.qty), order.qty)
      ELSE gone
=============================================================================
