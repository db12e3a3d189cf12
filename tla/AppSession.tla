------------------------------ MODULE AppSession ----------------------------
(***************************************************************************)
(* app.py in its default mode: run_forever and run_trading_session drive   *)
(* one OrbEngine and one DryRunBroker through a trading date, dispatch the *)
(* engine's actions one at a time, and persist the day after every         *)
(* iteration.  Nothing in app.py sets broker.on_fill, so the broker fills  *)
(* orders without telling the engine.                                      *)
(*                                                                         *)
(* Everything in the process runs on one event loop.  Telegram commands    *)
(* run where a coroutine awaits: between sessions, while the next bar is   *)
(* awaited, and while a notification is being sent.  A crash can come      *)
(* anywhere; it loses everything but the SQLite store.                     *)
(***************************************************************************)
EXTENDS DryRunBroker, Sequences

CONSTANTS
  Shapes,          \* the [high, low, close] of a bar
  RangeEnd,        \* bars before this time have a shape of RangeShapes
  RangeShapes,
  Prices,          \* closes that a warm-up may leave as the last price
  DefaultEquity,   \* DEFAULT_STARTING_EQUITY
  SessionEnd,      \* hard close plus WIND_DOWN_BUFFER_MINUTES
  MaxLag,          \* bound: how many minutes old a polled bar may be
  MaxCrashes,      \* bound: process crashes in the day
  MaxErrors,       \* bound: exceptions out of next_bar in the day
  Commands         \* the Telegram commands the operator uses

ASSUME AppAssumption ==
  /\ Shapes \cup RangeShapes \subseteq [high : Int, low : Int, close : Int]
  /\ Prices \subseteq Int /\ DefaultEquity \in Int
  /\ SessionEnd \in Nat /\ HardClose < SessionEnd
  /\ MaxLag \in Nat /\ MaxCrashes \in Nat /\ MaxErrors \in Nat
  /\ Commands \subseteq {"pause", "resume", "flatten"}

VARIABLES
  now,       \* the wall clock
  pc,        \* "down", "idle" between sessions, "wait" for a bar, "dispatch"
  e,         \* the running session's engine, None outside one; its sink is the
             \* list of actions still to be dispatched
  broker,    \* ctx.broker, None when the process is down
  lastSeen,  \* the bar source's _last_seen
  told,      \* the latest time this session told its engine, by bar or by clock
  store,     \* the SQLite store: [day, paused, lastEquity]
  crashes, errors

vars == <<now, pc, e, broker, lastSeen, told, store, crashes, errors>>

Eng == INSTANCE OrbEngine WITH Deliver <- Append

(* Mutant: the default is not fallen back on.                              *)
SavedEquity_NoDefault == store.lastEquity

(* The equity a simulated broker starts from.                              *)
SavedEquity == IF store.lastEquity = None THEN DefaultEquity ELSE store.lastEquity

Init ==
  /\ now = 0 /\ pc = "idle" /\ e = None /\ lastSeen = None /\ told = None
  /\ broker = NewBroker(DefaultEquity)
  /\ store = [day |-> None, paused |-> FALSE, lastEquity |-> None]
  /\ crashes = 0 /\ errors = 0

-----------------------------------------------------------------------------
(* run_forever and the ends of run_trading_session.                        *)

(* Mutant: a resumed session starts from a fresh DayState.                 *)
SessionDay_AlwaysFresh == Eng!FreshDay

(* load_day_state, or a new day.                                           *)
SessionDay == IF store.day = None THEN Eng!FreshDay ELSE store.day

(* Warm-up bars are asked for when the range is already final; there may   *)
(* be none.                                                                *)
StartSession ==
  /\ pc = "idle" /\ now < SessionEnd
  /\ LET engine == Eng!NewEngine(SessionDay, broker.equity, <<>>)
     IN  \E last \in IF SessionDay.orFinal THEN Prices \cup {None} ELSE {None} :
           e' = [engine EXCEPT !.lastPrice = last]
  /\ pc' = "wait" /\ lastSeen' = None /\ told' = None
  /\ UNCHANGED <<now, broker, store, crashes, errors>>

EndSession ==
  /\ pc = "wait" /\ now >= SessionEnd
  /\ store' = [store EXCEPT !.lastEquity = broker.equity]
  /\ e' = None /\ pc' = "idle"
  /\ UNCHANGED <<now, broker, lastSeen, told, crashes, errors>>

(* next_bar raises (a failed poll): run_forever logs it and starts over.   *)
SessionError ==
  /\ pc = "wait" /\ now < SessionEnd /\ errors < MaxErrors
  /\ e' = None /\ pc' = "idle"
  /\ errors' = errors + 1
  /\ UNCHANGED <<now, broker, lastSeen, told, store, crashes>>

Crash ==
  /\ pc # "down" /\ crashes < MaxCrashes
  /\ e' = None /\ broker' = None /\ pc' = "down"
  /\ crashes' = crashes + 1
  /\ UNCHANGED <<now, lastSeen, told, store, errors>>

(* build_app_context.                                                      *)
Restart ==
  /\ pc = "down"
  /\ broker' = NewBroker(SavedEquity) /\ pc' = "idle"
  /\ UNCHANGED <<now, e, lastSeen, told, store, crashes, errors>>

(* A minute passes.  Before it does, a running session has told its engine *)
(* the time: bars come once a minute, and the wait for one times out after *)
(* 30 seconds.                                                             *)
Tick ==
  /\ now < SessionEnd
  /\ pc = "down" \/ (pc = "wait" /\ told = now)
  /\ now' = now + 1
  /\ UNCHANGED <<pc, e, broker, lastSeen, told, store, crashes, errors>>

-----------------------------------------------------------------------------
(* The loop of run_trading_session.                                        *)

FeedOrder(b, ref, bar) ==
  IF b.working[ref] = None THEN b
  ELSE IF Triggers(b.working[ref], bar) THEN Fill(b, ref) ELSE b

(* feed_bar without a callback.                                            *)
FeedBar(b, bar) ==
  FeedOrder(FeedOrder(FeedOrder(SeeBar(b, bar), "entry_long", bar),
                      "entry_short", bar), "stop_loss", bar)

(* The candle is of no consequence to an engine that is never in a         *)
(* position.                                                               *)
NewBar ==
  /\ pc = "wait" /\ now < SessionEnd
  /\ \E t \in {m \in (now - MaxLag)..now : lastSeen = None \/ m > lastSeen} :
     \E shape \in IF t < RangeEnd THEN RangeShapes ELSE Shapes :
       LET bar == [time |-> t, high |-> shape.high, low |-> shape.low, close |-> shape.close]
       IN  /\ broker' = FeedBar(broker, bar)
           /\ e' = Eng!OnBar(e, bar, None)
           /\ lastSeen' = t /\ told' = t
  /\ pc' = "dispatch"
  /\ UNCHANGED <<now, store, crashes, errors>>

NoBar ==
  /\ pc = "wait" /\ now < SessionEnd
  /\ e' = Eng!OnWallClock(e, now)
  /\ pc' = "dispatch" /\ told' = now
  /\ UNCHANGED <<now, broker, lastSeen, store, crashes, errors>>

(* Mutant: a pause does not reach the dispatcher.                          *)
Dispatched_PauseIgnored(b, a) == Execute(b, a)

(* One action of dispatch_actions; alerts and notifications go to          *)
(* Telegram.                                                               *)
Dispatched(b, a) ==
  IF a.type = "place" /\ a.ref \in Eng!EntryRefs /\ store.paused
  THEN b
  ELSE Execute(b, a)

Dispatch ==
  /\ pc = "dispatch" /\ e.sink # <<>>
  /\ broker' = Dispatched(broker, Head(e.sink))
  /\ e' = [e EXCEPT !.sink = Tail(@)]
  /\ UNCHANGED <<now, pc, lastSeen, told, store, crashes, errors>>

(* Mutant: the day is not written back.                                    *)
Saved_Lost(day) == store

Saved(day) == [store EXCEPT !.day = day]

Save ==
  /\ pc = "dispatch" /\ e.sink = <<>>
  /\ store' = Saved(Eng!DayOf(e))
  /\ pc' = "wait"
  /\ UNCHANGED <<now, e, broker, lastSeen, told, crashes, errors>>

-----------------------------------------------------------------------------
(* Telegram.                                                               *)

Sending == pc = "dispatch" /\ e.sink # <<>> /\ Head(e.sink).type \in {"alert", "notify"}

(* A command runs and sets the pause flag.                                 *)
SetPaused(command, p) ==
  /\ command \in Commands
  /\ pc \in {"idle", "wait"} \/ Sending
  /\ store' = [store EXCEPT !.paused = p]
  /\ UNCHANGED <<now, pc, e, broker, lastSeen, told, crashes, errors>>

Pause == ~store.paused /\ SetPaused("pause", TRUE)

Resume == store.paused /\ SetPaused("resume", FALSE)

(* _emergency_flatten without a position, which is the only branch taken   *)
(* here: no fill reaches the engine.                                       *)
Flatten ==
  /\ e # None => e.pos = None
  /\ SetPaused("flatten", TRUE)

Next ==
  \/ StartSession \/ EndSession \/ SessionError \/ Crash \/ Restart \/ Tick
  \/ NewBar \/ NoBar \/ Dispatch \/ Save
  \/ Pause \/ Resume \/ Flatten

(* The loop turns: NewBar or NoBar, whichever comes first.                 *)
Turn == pc = "wait" /\ now < SessionEnd /\ pc' = "dispatch"

(* systemd restarts the process, an awaited call returns, and the clock    *)
(* advances: the guard of Tick only bounds how late the loop may turn, so  *)
(* that it is now and then disabled does not hold time back.               *)
Spec ==
  /\ Init /\ [][Next]_vars
  /\ WF_vars(StartSession) /\ WF_vars(EndSession) /\ WF_vars(Restart) /\ SF_vars(Tick)
  /\ WF_pc(Turn) /\ WF_vars(Dispatch) /\ WF_vars(Save)

-----------------------------------------------------------------------------

EntriesResting ==
  IF broker = None THEN {} ELSE {ref \in Eng!EntryRefs : broker.working[ref] # None}

(* What an engine that hears of no fill can be and emit.                   *)
Action ==
  [type : {"place"}, ref : Eng!EntryRefs, side : Sides, price : Int, qty : Nat \ {0}]
    \cup [type : {"cancel"}, ref : Eng!EntryRefs]
    \cup [type : {"alert"}]
    \cup [type : {"notify"}, event : {"no_trade", "entry_orders_placed"}]

Day ==
  [orHigh : Int \cup {None}, orLow : Int \cup {None}, orFinal : BOOLEAN,
   entryQty : 0..SanityCap, placed : BOOLEAN, pos : {None},
   done : BOOLEAN, halted : BOOLEAN, pnl : {0}]

Engine ==
  [orHigh : Int \cup {None}, orLow : Int \cup {None}, orFinal : BOOLEAN,
   entryQty : 0..SanityCap, placed : BOOLEAN, pos : {None},
   done : BOOLEAN, halted : BOOLEAN, pnl : {0}, equity : Int,
   lastPrice : Int \cup {None}, canceled : BOOLEAN, sink : Seq(Action)]

StopOrder == [side : Sides, price : Int, qty : Nat \ {0}]

Account ==
  [working : [Refs -> StopOrder \cup {None}], last : Int \cup {None},
   side : Sides \cup {None}, entry : Int \cup {None}, qty : Nat, equity : Int]

Store == [day : Day \cup {None}, paused : BOOLEAN, lastEquity : Int \cup {None}]

(* None is none of these.                                                  *)
ASSUME OptionalAssumption == None \notin Day /\ None \notin Engine /\ None \notin Account

(* The type invariant.                                                     *)
TypeOK ==
  /\ now \in 0..SessionEnd
  /\ pc \in {"down", "idle", "wait", "dispatch"}
  /\ e \in IF pc \in {"wait", "dispatch"} THEN Engine ELSE {None}
  /\ broker \in IF pc = "down" THEN {None} ELSE Account
  /\ told = None \/ (told \in Int /\ told <= now)
  /\ lastSeen = None \/ (lastSeen \in Int /\ lastSeen <= now)
  /\ store \in Store
  /\ crashes \in 0..MaxCrashes /\ errors \in 0..MaxErrors

(* Once a saved day says that the entries were placed, it keeps saying so  *)
(* and no entry order is placed on that date again, across crashes, errors *)
(* and late bars.                                                          *)
SavedEntriesNotRepeated ==
  [][store.day # None /\ store.day.placed
       => store'.day.placed /\ EntriesResting' \subseteq EntriesResting]_vars

(* While trading is paused no entry order is placed, also when the pause   *)
(* arrives between two actions of one dispatch.                            *)
PauseHoldsEntries ==
  [][store.paused => EntriesResting' \subseteq EntriesResting]_vars

(* A day that was saved as done is done in every session resumed on it.    *)
DoneSurvives ==
  store.day # None /\ store.day.done /\ e # None => e.done

(* Between two turns of the loop, entry orders rest at the broker only     *)
(* while the engine knows it placed them and has not cancelled them, so    *)
(* that the hard close will; resumed sessions included.                    *)
RestingEntriesAreTracked ==
  pc = "wait" /\ EntriesResting # {} => e.placed /\ ~e.canceled

(* Entry orders do not rest for ever: they fill, or the cutoff or the hard *)
(* close withdraws them, whatever crashes and feed gaps come in between.   *)
EntriesEventuallyGone == EntriesResting # {} ~> EntriesResting = {}

(* config.yaml, hard_close: "force-flatten any open position, no           *)
(* exceptions".  After a turn of the loop at the hard close the account is *)
(* flat.                                                                   *)
HardCloseLeavesNothing ==
  pc = "wait" /\ told # None /\ told >= HardClose => broker.side = None
=============================================================================
