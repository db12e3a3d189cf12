----------------------------- MODULE LiveSession ----------------------------
(***************************************************************************)
(* OrbEngine and TradovateBroker against a live exchange.  Three tasks of  *)
(* the event loop drive them: the session loop of app.py (bars, timers),   *)
(* the socket's reader (fill and order frames) and the operator's /flatten *)
(* command.  Each hands its handler's actions to the broker one by one and *)
(* waits for every call, so the others run in between; within a task       *)
(* nothing overtakes.                                                      *)
(*                                                                         *)
(* Nothing in the repository sets the callbacks of this broker.  They are  *)
(* wired here as base.py defines them and as scripts/replay_backtest.py    *)
(* wires the simulated broker's: the handler runs on the engine, its       *)
(* actions are executed before the callback returns, and a notification    *)
(* goes nowhere.  The loop and the operator dispatch through app.py.       *)
(*                                                                         *)
(* The exchange is external.  It numbers the orders it accepts, fills any  *)
(* working one at any time, and pushes frames in the order of its events.  *)
(* A call and its arrival are one step, since what the exchange does just  *)
(* before the arrival could as well have come before the call; only the    *)
(* answer to a placement, which carries the order's id, is a step apart.   *)
(* A market order fills as it arrives; its frames bear an id the broker    *)
(* never maps and would be skipped, so they are not queued.                *)
(***************************************************************************)
EXTENDS TradovateBroker, Sequences, FiniteSets

CONSTANTS
  RangeShapes,   \* the [high, low, close] of bars before the range's end
  BarShapes,     \* and of the bars after it
  Candles,       \* what the indicators may know after a bar
  Equity,        \* the account equity get_equity reports
  EndTime,       \* bound: no bar or timer carries a later time
  MaxGap,        \* bound: minutes between two turns of the loop
  FillsOvertake, \* an order may fill before its placement is answered
  MaxOrders,     \* bound: orders the exchange has accepted
  MaxRows,       \* bound: rows of the trade log that fail
  MaxMishaps     \* bound: of Mishaps, each once, and failed rows, how many befall a day

ASSUME LiveAssumption ==
  /\ RangeShapes \cup BarShapes \subseteq [high : Int, low : Int, close : Int]
  /\ \A candle \in Candles \ {None} :
       /\ candle.sma \in Int \cup {None} /\ candle.close \in Int
       /\ candle.trail # None => candle.trail.low \in Int /\ candle.trail.high \in Int
  /\ Equity \in Int /\ EndTime \in Nat /\ MaxGap \in Nat /\ FillsOvertake \in BOOLEAN
  /\ MaxOrders \in Nat /\ MaxRows \in Nat /\ MaxMishaps \in Nat

VARIABLES
  e,         \* the engine; its sink is empty between steps
  now,       \* the time of the loop's latest turn
  t,         \* the broker
  todo,      \* per task, the actions it has still to execute
  asked,     \* per task, the order id a placement is about to be answered with
  tries,     \* per task, how often its current cancel has failed
  deaf,      \* whether the reader's task has ended
  saved,     \* the persisted day
  paused,    \* the persisted pause flag
  orders,    \* the exchange: every order it accepted, by id
  net,       \* the exchange: the account's position, negative when short
  frames,    \* pushed and not yet read
  mishaps,   \* which of Mishaps have befallen
  rows,      \* how many rows of the trade log have failed
  missed     \* history: entries that were withdrawn while being placed

exchange == <<orders, net, frames>>
record   == <<rows, missed>>
vars     == <<e, now, t, todo, asked, tries, deaf, saved, paused, exchange, mishaps, record>>

(* A cancel call fails once, a placement is rejected, another call raises, *)
(* the process dies, the operator sends /flatten.                          *)
Mishaps == {"cancel_fails", "rejected", "raises", "restart", "flatten"}

(* A handler's actions, in order.  Alerts and notifications reach no       *)
(* broker; of an exit the application writes a row.                        *)
Collect(calls, a) ==
  IF a.type = "alert" THEN calls
  ELSE IF a.type = "notify" /\ a.event # "exit" THEN calls
  ELSE Append(calls, a)

Eng == INSTANCE OrbEngine WITH Deliver <- Collect

Tasks == {"loop", "reader", "operator"}

Idle(task) == todo[task] = <<>>

Init ==
  /\ e = Eng!NewEngine(Eng!FreshDay, Equity, <<>>)
  /\ now = 0 /\ t = NewBroker /\ saved = None /\ paused = FALSE
  /\ todo = [task \in Tasks |-> <<>>] /\ asked = [task \in Tasks |-> None]
  /\ tries = [task \in Tasks |-> 0] /\ deaf = FALSE
  /\ orders = <<>> /\ net = 0 /\ frames = <<>>
  /\ mishaps = {} /\ rows = 0 /\ missed = {}

Befalls(mishap) ==
  /\ mishap \notin mishaps /\ Cardinality(mishaps) + rows < MaxMishaps
  /\ mishaps' = mishaps \cup {mishap}

-----------------------------------------------------------------------------
(* Handlers: the engine moves at once, its calls are queued for the task.  *)

(* The loop persists the day once it has executed all of a turn's actions. *)
SaveWhenDone(task, rest, engine) ==
  saved' = IF task = "loop" /\ rest = <<>> THEN Eng!DayOf(engine) ELSE saved

(* The entries that the loop has still to place, or has had no answer for. *)
BeingPlaced ==
  {ref \in Eng!EntryRefs : \E i \in DOMAIN todo["loop"] :
     todo["loop"][i].type = "place" /\ todo["loop"][i].ref = ref}

Handled(task, engine) ==
  /\ e' = [engine EXCEPT !.sink = <<>>]
  /\ todo' = [todo EXCEPT ![task] = engine.sink]
  /\ SaveWhenDone(task, engine.sink, engine)
  /\ missed' = IF engine.canceled /\ ~e.canceled THEN missed \cup BeingPlaced ELSE missed

Times == {m \in now..(now + MaxGap) : m <= EndTime}

Bar ==
  /\ Idle("loop")
  /\ \E m \in Times, candle \in Candles :
      \E shape \in IF m < OrEnd THEN RangeShapes ELSE BarShapes :
       LET bar == [time |-> m, high |-> shape.high, low |-> shape.low, close |-> shape.close]
       IN  Handled("loop", Eng!OnBar(e, bar, candle)) /\ now' = m
  /\ UNCHANGED <<t, asked, tries, deaf, paused, exchange, mishaps, rows>>

WallClock ==
  /\ Idle("loop")
  /\ \E m \in Times : Handled("loop", Eng!OnWallClock(e, m)) /\ now' = m
  /\ UNCHANGED <<t, asked, tries, deaf, paused, exchange, mishaps, rows>>

(* _handle_array_frame on one payload; a frame of an id without a          *)
(* reference is skipped.                                                   *)
ReadFrame ==
  /\ ~deaf /\ Idle("reader") /\ frames # <<>>
  /\ LET frame == Head(frames)
         ref   == RefOf(t, frame.id)
     IN  IF ref = None
         THEN UNCHANGED <<e, t, todo, saved, missed>>
         ELSE IF frame.type = "fill"
         THEN /\ t' = TrackFill(t, ref, frame.qty)
              /\ Handled("reader", Eng!OnFill(e, [ref |-> ref, price |-> frame.price,
                                                  qty |-> frame.qty]))
         ELSE /\ Handled("reader", Eng!OnOrderWorking(e, ref))
              /\ UNCHANGED t
  /\ frames' = Tail(frames)
  /\ UNCHANGED <<now, asked, tries, deaf, paused, orders, net, mishaps, rows>>

(* _emergency_flatten: without a position it only pauses.                  *)
Flatten ==
  /\ Idle("operator") /\ Befalls("flatten")
  /\ IF e.pos = None
     THEN paused' = TRUE /\ UNCHANGED <<e, todo, saved, missed>>
     ELSE Handled("operator", Eng!ManualFlatten(e)) /\ UNCHANGED paused
  /\ UNCHANGED <<now, t, asked, tries, deaf, exchange, rows>>

-----------------------------------------------------------------------------
(* execute, action by action.                                              *)

Next1(task) == Head(todo[task])

(* _emergency_flatten pauses once its actions are executed.                *)
Finished(task) ==
  /\ todo' = [todo EXCEPT ![task] = Tail(@)]
  /\ SaveWhenDone(task, Tail(todo[task]), e)
  /\ paused' = (paused \/ (task = "operator" /\ Tail(todo[task]) = <<>>))

Ready(task, type) == ~Idle(task) /\ asked[task] = None /\ Next1(task).type = type

(* dispatch_actions skips a new entry order while trading is paused.       *)
HeldByPause(task) == paused /\ Next1(task).ref \in Eng!EntryRefs

SkipPlace(task) ==
  /\ Ready(task, "place") /\ HeldByPause(task)
  /\ Finished(task)
  /\ UNCHANGED <<e, now, t, asked, tries, deaf, exchange, mishaps, record>>

SendPlace(task) ==
  /\ Ready(task, "place") /\ ~HeldByPause(task) /\ Len(orders) < MaxOrders
  /\ LET a == Next1(task)
     IN  orders' = Append(orders, [ref |-> a.ref, side |-> a.side, price |-> a.price,
                                   qty |-> a.qty, state |-> "working"])
  /\ asked' = [asked EXCEPT ![task] = Len(orders')]
  /\ frames' = Append(frames, [type |-> "order", id |-> Len(orders')])
  /\ UNCHANGED <<e, now, t, todo, tries, deaf, saved, paused, net, mishaps, record>>

PlaceAnswered(task) ==
  /\ asked[task] # None
  /\ t' = Placed(t, Next1(task).ref, asked[task])
  /\ asked' = [asked EXCEPT ![task] = None]
  /\ Finished(task)
  /\ UNCHANGED <<e, now, tries, deaf, exchange, mishaps, record>>

(* The answer has no order id: the placement is logged and forgotten.      *)
PlaceRejected(task) ==
  /\ Ready(task, "place") /\ ~HeldByPause(task) /\ Befalls("rejected")
  /\ Finished(task)
  /\ UNCHANGED <<e, now, t, asked, tries, deaf, exchange, record>>

Withdrawn(os, id) ==
  IF os[id].state = "working" THEN [os EXCEPT ![id].state = "cancelled"] ELSE os

(* An unknown reference is taken for an order that is already gone.        *)
Cancel(task) ==
  /\ Ready(task, "cancel")
  /\ LET id == t.ids[Next1(task).ref]
     IN  orders' = IF id = None THEN orders ELSE Withdrawn(orders, id)
  /\ tries' = [tries EXCEPT ![task] = 0]
  /\ Finished(task)
  /\ UNCHANGED <<e, now, t, asked, deaf, net, frames, mishaps, record>>

(* Mutant: a cancel that fails is not tried again.                         *)
TryAgain_Never(n) == FALSE

TryAgain(n) == n < 2

CancelFails(task) ==
  /\ Ready(task, "cancel") /\ t.ids[Next1(task).ref] # None
  /\ Befalls("cancel_fails")
  /\ IF TryAgain(tries[task] + 1)
     THEN tries' = [tries EXCEPT ![task] = @ + 1] /\ UNCHANGED <<todo, saved, paused>>
     ELSE tries' = [tries EXCEPT ![task] = 0] /\ Finished(task)
  /\ UNCHANGED <<e, now, t, asked, deaf, exchange, record>>

Changed(o, a) ==
  IF o.state # "working" THEN o
  ELSE IF a.type = "modify_price" THEN [o EXCEPT !.price = a.price]
  ELSE [o EXCEPT !.qty = a.qty]

ModifyArrives(task) ==
  /\ Ready(task, "modify_price") \/ Ready(task, "modify_qty")
  /\ LET id == t.ids[Next1(task).ref]
     IN  orders' = IF id = None THEN orders
                   ELSE [orders EXCEPT ![id] = Changed(@, Next1(task))]
  /\ UNCHANGED <<net, frames>>

Modify(task) ==
  /\ ModifyArrives(task)
  /\ Finished(task)
  /\ UNCHANGED <<e, now, t, asked, tries, deaf, mishaps, record>>

SignedQty(side, qty) == IF side = "long" THEN qty ELSE -qty

(* Without a tracked side the close is refused.                            *)
CloseArrives(task) ==
  /\ Ready(task, "close")
  /\ net' = IF ClosingSide(t) = None THEN net
            ELSE net + SignedQty(ClosingSide(t), Next1(task).qty)
  /\ UNCHANGED <<orders, frames>>

CloseMarket(task) ==
  /\ CloseArrives(task)
  /\ Finished(task)
  /\ UNCHANGED <<e, now, t, asked, tries, deaf, mishaps, record>>

(* What the reader's callback is told of an exit goes nowhere.             *)
ExitPrinted(task) ==
  /\ Ready(task, "notify") /\ task = "reader"
  /\ Finished(task)
  /\ UNCHANGED <<e, now, t, asked, tries, deaf, exchange, mishaps, record>>

-----------------------------------------------------------------------------
(* The exchange and the process.                                           *)

ExchangeFill ==
  \E id \in DOMAIN orders :
    /\ orders[id].state = "working"
    /\ FillsOvertake \/ \A task \in Tasks : asked[task] # id
    /\ orders' = [orders EXCEPT ![id].state = "filled"]
    /\ net' = net + SignedQty(orders[id].side, orders[id].qty)
    /\ frames' = Append(frames, [type |-> "fill", id |-> id, price |-> orders[id].price,
                                 qty |-> orders[id].qty])
    /\ UNCHANGED <<e, now, t, todo, asked, tries, deaf, saved, paused, mishaps, record>>

(* The engine a session starts with: on the persisted day, if there is one *)
Resumed == Eng!NewEngine(IF saved = None THEN Eng!FreshDay ELSE saved, Equity, <<>>)

(* A call is under way that may raise; a cancel catches what it raises.    *)
MayRaise(task) ==
  \/ asked[task] # None
  \/ Ready(task, "place") /\ ~HeldByPause(task)
  \/ Ready(task, "close") /\ ClosingSide(t) # None
  \/ /\ Ready(task, "modify_price") \/ Ready(task, "modify_qty")
     /\ t.ids[Next1(task).ref] # None

(* The rest of the task's actions are never executed.  run_forever catches *)
(* what ends the session and resumes the day as it was last persisted;     *)
(* what ends the reader's task is not caught, and nothing starts it again. *)
Aborted(task) ==
  /\ todo' = [todo EXCEPT ![task] = <<>>] /\ asked' = [asked EXCEPT ![task] = None]
  /\ e' = IF task = "loop" THEN Resumed ELSE e
  /\ deaf' = (deaf \/ task = "reader")
  /\ UNCHANGED <<now, t, tries, saved, paused>>

(* The call never arrived, or it did and its answer was lost.              *)
CallRaises(task) ==
  /\ MayRaise(task) /\ Befalls("raises")
  /\ UNCHANGED exchange \/ CloseArrives(task) \/ ModifyArrives(task)
  /\ Aborted(task) /\ UNCHANGED record

(* The row of _track_trade_context has no trading_date and no side, which  *)
(* record_trade binds by name: an exit that app.py dispatches always       *)
(* raises, after its close and before what follows it.                     *)
RowFails(task) ==
  /\ Ready(task, "notify") /\ task # "reader" /\ rows < MaxRows
  /\ rows' = rows + 1
  /\ Aborted(task) /\ UNCHANGED <<exchange, mishaps, missed>>

(* The process dies and systemd starts it again: the day is resumed, the   *)
(* broker's maps are empty, and what was pushed in between is not pushed   *)
(* again.  The orders at the exchange live on.                             *)
Restart ==
  /\ Befalls("restart")
  /\ e' = Resumed
  /\ t' = NewBroker /\ frames' = <<>>
  /\ todo' = [task \in Tasks |-> <<>>] /\ asked' = [task \in Tasks |-> None]
  /\ tries' = [task \in Tasks |-> 0] /\ deaf' = FALSE
  /\ UNCHANGED <<now, saved, paused, orders, net, record>>

Step(task) ==
  \/ SkipPlace(task) \/ SendPlace(task) \/ PlaceAnswered(task) \/ PlaceRejected(task)
  \/ Cancel(task) \/ CancelFails(task) \/ Modify(task) \/ CloseMarket(task)
  \/ ExitPrinted(task) \/ CallRaises(task) \/ RowFails(task)

Next ==
  \/ Bar \/ WallClock \/ ReadFrame \/ Flatten \/ ExchangeFill \/ Restart
  \/ \E task \in Tasks : Step(task)

Spec == Init /\ [][Next]_vars

-----------------------------------------------------------------------------

EntriesFilled ==
  {id \in DOMAIN orders : orders[id].ref \in Eng!EntryRefs /\ orders[id].state = "filled"}

Working(ref) == \E id \in DOMAIN orders : orders[id].ref = ref /\ orders[id].state = "working"

Filled(ref) == \E id \in DOMAIN orders : orders[id].ref = ref /\ orders[id].state = "filled"

Quiet == frames = <<>> /\ \A task \in Tasks : Idle(task)

(* No call and no row of the trade log has raised, and the process has not *)
(* been restarted.                                                         *)
Unbroken == mishaps \cap {"raises", "restart"} = {} /\ rows = 0

(* Nor was a placement rejected, and one entry at most has filled.         *)
OneEntry == Cardinality(EntriesFilled) <= 1 /\ "rejected" \notin mishaps /\ Unbroken

Position ==
  [side : Sides, entry : Int, qty : Nat, initialStop : Int, rUnit : Int, stop : Int,
   beMoved : BOOLEAN, whipsaw : BOOLEAN, tp1 : BOOLEAN, runnerQty : Nat,
   mode : {"old", "new"}, phase : {"none", "A", "B"}]

Day ==
  [orHigh : Int \cup {None}, orLow : Int \cup {None}, orFinal : BOOLEAN, entryQty : Nat,
   placed : BOOLEAN, pos : Position \cup {None}, done : BOOLEAN, halted : BOOLEAN, pnl : Int]

(* None is not a number, a position, a day or a reference.                 *)
ASSUME OptionalAssumption ==
  None \notin Nat /\ None \notin Position /\ None \notin Day /\ None \notin OrderRefs

(* The type invariant.                                                     *)
TypeOK ==
  /\ now \in 0..EndTime /\ e.sink = <<>>
  /\ \A id \in DOMAIN orders : orders[id].state \in {"working", "filled", "cancelled"}
  /\ t.side \in Sides \cup {None} /\ t.qty \in Nat
  /\ \A n \in t.names : n.id \in DOMAIN orders /\ orders[n.id].ref = n.ref
  /\ \A ref \in OrderRefs : t.ids[ref] # None => RefOf(t, t.ids[ref]) = ref
  /\ \A task \in Tasks : asked[task] \in DOMAIN orders \cup {None} /\ tries[task] \in 0..1
  /\ net \in Int
  /\ mishaps \subseteq Mishaps /\ Cardinality(mishaps) <= MaxMishaps
  /\ rows \in 0..MaxRows /\ missed \subseteq Eng!EntryRefs

(* While the engine holds a position, a protective stop for at least what  *)
(* is left of it works at the exchange on the closing side, or the reader  *)
(* is about to place it, or it has filled and the engine is about to be    *)
(* told: whatever the other tasks do at the same time.                     *)
OpenIsProtected ==
  OneEntry /\ e.pos # None =>
    \/ \E id \in DOMAIN orders :
         /\ orders[id].ref = "stop_loss" /\ orders[id].side = Opposite(e.pos.side)
         /\ orders[id].qty >= e.pos.runnerQty
         /\ \/ orders[id].state = "working"
            \/ \E i \in DOMAIN frames : frames[i].type = "fill" /\ frames[i].id = id
    \/ \E i \in DOMAIN todo["reader"] :
         todo["reader"][i].type = "place" /\ todo["reader"][i].ref = "stop_loss"

(* Every fill has been read and no market close is still to be sent.       *)
Settled ==
  /\ \A i \in DOMAIN frames : frames[i].type # "fill"
  /\ \A task \in Tasks : \A i \in DOMAIN todo[task] : todo[task][i].type # "close"

(* Whenever all is settled, the broker has taken note of the entry and the *)
(* stop has not filled, the account holds exactly the engine's position,   *)
(* whatever else is under way: through TP1, and through the close of the   *)
(* cap, the average, the hard close and /flatten up to the row that then   *)
(* fails.  An entry's fill that the broker could not map is left out by    *)
(* t.side: nothing tells the engine of it.                                 *)
SettledBooksAgree ==
  OneEntry /\ Settled /\ t.side # None /\ ~Filled("stop_loss") =>
    net = IF e.pos = None THEN 0 ELSE SignedQty(e.pos.side, e.pos.runnerQty)

(* tradovate_broker.py:66, "rather than guessing": a market close goes out *)
(* against the entry that filled or not at all, also after a restart and   *)
(* with fills still unread.                                                *)
ClosesOpposeTheEntry ==
  [][Cardinality(EntriesFilled) <= 1 /\ orders' = orders /\ net' # net
       => \E id \in EntriesFilled :
            net' - net \in IF orders[id].side = "long" THEN -orders[id].qty..-1
                           ELSE 1..orders[id].qty]_vars

(* From the turn at the hard close on, once nothing is under way, no entry *)
(* works at the exchange on a day on which nothing has raised: a cancel    *)
(* that came too early or failed once has been made good, on halted days   *)
(* too.  There is one exception, and TLC finds it: an entry that the       *)
(* engine gave up, for the loss limit, while the loop was still placing    *)
(* it.  Its cancels find no id, and _entries_canceled keeps the hard close *)
(* from sending them again.                                                *)
EntriesGoneAtHardClose ==
  Quiet /\ now >= HardClose /\ Unbroken =>
    \A ref \in Eng!EntryRefs \ missed : ~Working(ref)

(* tradovate_broker.py:64-67: the side is tracked from fills so that a     *)
(* market close goes out on the opposite side of the position, since a     *)
(* wrong direction "would add to the position instead of closing it".      *)
(* Stated for closes sent when every fill has been read; the run also lets *)
(* no fill overtake the answer that maps its order.                        *)
ClosesNeverAdd ==
  [][frames = <<>> /\ orders' = orders /\ net' # net /\ net # 0
       => (net > 0 <=> net' < net)]_vars
=============================================================================
