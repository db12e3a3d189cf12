# A verification model of the ORB bot

The bot trades one opening-range breakout a day: it measures the range of the first minutes, rests a buy stop
above it and a sell stop below it, takes whichever fills first, protects the position with a stop, closes a part at
TP1 and trails the rest. This directory holds a TLA+ model of its core, the TLC runs that check it and the proofs
that TLAPS checks. Line references are to the repository at this commit.

    tlasany M.tla                            parse a module
    tlc -workers 2 -config X.cfg MCModule    check a run (table below)
    tlapm ReplaySessionProofs.tla            check proofs (some minutes); also EngineDayProofs,
                                             AppSessionProofs, BarFeedProofs, ServiceProofs,
                                             SizingProofs (LiveEngineProofs and LiveSessionProofs
                                             are the longest)

## 1. The system

| component | state it keeps | operations | what makes it correct |
|---|---|---|---|
| `strategy/state_machine.py` OrbEngine, with `strategy/models.py` | DayState (range, entry orders, position, done/halted, P&L), equity, last price, `_entries_canceled`, aggregators | `on_bar`, `on_wall_clock`, `on_fill`, `on_order_status`, `on_equity_update`, `manual_flatten`, `warm_up_indicators` | a position is always protected at the price and size the engine believes; stops do not loosen; a day ends with its entries withdrawn; one trade a day; the loss limit and the hard close hold |
| `strategy/sizing.py` | none | `compute_position_size` | the largest size inside the budget and both rails, or a refusal |
| `strategy/indicators.py` | current candle, last closes | `add_bar`, `update` | the completed candles and averages of the bars seen |
| `config.py` | none | validators | every loaded configuration satisfies the assumptions of `OrbConfig` |
| `broker/dry_run_broker.py` | working orders, last bar, simulated position and equity | `feed_bar`, `execute` | the simulated account is the one the engine thinks it has |
| `broker/tradovate_broker.py`, `tradovate_client.py` | order-id maps, tracked side and size, pending requests, token | `execute`, frame handlers | references and ids stay paired; a close has the right side; a late reply harms nothing |
| `scripts/replay_backtest.py` | an engine and a dry-run broker | `run` | the replayed day is one trade, fully accounted for |
| `app.py` | broker, bar source, current engine | `run_forever`, `run_trading_session`, `dispatch_actions`, `_emergency_flatten` | entries are placed once a day, held by a pause, and do not rest for ever, across crashes and gaps |
| `persistence/store.py` | day_state, control and trades tables | save/load, set/get, `record_trade` | a resumed day is the saved day |
| `broker/bar_source.py` | `_last_seen`, queue | `next_bar` | bars in order, each once |
| `scheduler.py`, `timeutils.py` | none | `next_session_start`, `session_status` | every open day gets its session |
| `notify/telegram_bot.py` | none (the pause flag is in the store) | `/status /pause /resume /flatten` | a command takes effect when it is acknowledged |
| `webui.py`, `fomc.py`, `logging_setup.py`, `notify/formatting.py`, `deploy/` | files | read, write, format | outside the trading logic |

**How they interact.** The engine is pure: each handler returns a list of actions, which its driver executes in order
on a broker (place, cancel, modify, close) or sends to Telegram (alert, notify). A broker calls back with fills.
`app.py` and the replay script are the two drivers. One asyncio loop runs everything; a coroutine is only
interrupted where it really suspends, which for the simulated broker is never.

**What is hard.** A fill that arrives after a cancel was sent; partial fills; several rules that move the same stop
in one bar; a broker whose loop re-enters the engine; timers racing bars; a pause or a flatten between two actions
of one dispatch; a crash between placing orders and saving the day; a restart that restores the day but not the
broker; a feed that falls silent and then delivers an old bar; sizes and percentages at their rounding boundaries.
`PROJECT.json` lists each at its line, with the properties that cover it.

## 2. Modules

| module | models |
|---|---|
| `OrbConfig` | the parameters of a day, with what the validators of `config.py` guarantee as named assumptions; shared arithmetic |
| `Sizing` | `compute_position_size`; a refusal is the value `Refused` |
| `OrbEngine` | the engine: a record `e`, and one operator per method from an engine to the engine after the call |
| `EngineDay`, `MCEngineDay` | one engine and an external venue that keeps the contract of `broker/base.py` |
| `DryRunBroker` | the simulated account: a record `b`, one operator per method |
| `OneTradeDay` | the abstract specification: what an account goes through in a day |
| `ReplaySession`, `MCReplaySession` | engine and simulated broker under `scripts/replay_backtest.py` |
| `AppSession`, `MCAppSession` | engine, simulated broker, store and operator under `app.py` |
| `TradovateBroker` | the live broker's memory: a record `t`, one operator per place that changes or reads it |
| `LiveSession`, `MCLiveSession` | engine, live broker, exchange, and the three tasks of the event loop that drive them |
| `Indicators` | aggregator, moving average, candle history and warm-up: a record `g` |
| `BarFeed`, `MCBarFeed` | the polling bar source under the session loop, feeding `Indicators` |
| `Service`, `MCService` | `run_forever`, the scheduler and calendar, and the settings UI that saves the file both share |
| `MCSizing` | the sizing function over a grid |
| `EngineDayProofs`, `ReplaySessionProofs`, `AppSessionProofs`, `LiveSessionProofs`, `BarFeedProofs`, `ServiceProofs`, `SizingProofs` | the proofs about the module each is named for |
| `LiveEngineProofs` | what one handler of the engine may queue, for `LiveSessionProofs` |

The state of the engine is `DayState` field by field (`e.placed` is `entry_orders_placed`, `e.done` is
`trade_done_for_day`, and so on; the header of `OrbEngine` has the list) and the three fields that are never
persisted, `equity`, `lastPrice`, `canceled`. `filter_passed` and `stop_distance_points` are written and never read
by the logic, and are left out.

**Delivery of actions.** A handler appends actions and its driver executes them after it returns. The engine never
reads the broker, so each action can as well be handed on where it is appended: `OrbEngine` takes an operator
constant `Deliver(sink, action)`, and `e.sink` is whatever receives actions. `ReplaySession` delivers straight into
the broker, because nothing runs between the return of the handler and the last `execute`. `EngineDay` delivers to
the venue, where a cancelled order is "cancelling" and may still fill, so that the delay between a decision and
its effect is in the model. `AppSession` and `LiveSession` deliver into a list, and dispatching its head is a step of its own: there a
pause or a crash can come in between.

**Abstractions.** Prices are integers (ticks) and times minutes. Conditions on R-multiples are multiplied out, so
there is no rounding; floats are the one thing this loses (`int(qty * pct)` may floor one lower than the exact
product). In the modules that contain the engine the indicators are an input of `OnBar`: a "candle" says whether a candle of the runner's timeframe
completed, its close, the average, and the candle `candle_lookback` completions ago. Any combination may
occur, which is more than the aggregators can produce; `BarFeed` has the aggregators themselves. Texts, reasons and log lines are left out.

**Steps.** `ReplaySession` has one step per call of the script (`feed_bar` with all its callbacks, `on_bar` with the
execution of its actions, the closing `on_wall_clock`), since its coroutine never suspends between them.
`EngineDay` has one step per event. `AppSession` has one step per iteration's engine call, one per dispatched
action, one for the save, and steps for crash, restart, failed poll, clock and operator.

**LiveSession.** `e`, `t` and `saved` are the engine, the broker and the persisted day; `todo[task]` is the rest of
the action list a task (`"loop"`, `"reader"`, `"operator"`) is executing, `asked[task]` the order id its placement is
about to be answered with. `orders`, `net` and `frames` are the exchange. A call and its arrival are one step; the
answer to a placement is a step of its own, since the id it carries is what the broker's maps depend on. *The wiring is
hypothetical*: nothing in the repository sets this broker's callbacks. Here the reader's callback is the one of the
replay script, which executes what the handler returns and prints what it notifies, while the loop and the operator
dispatch through `app.py` as it stands; the runs say how the code would behave under that wiring and no other.
`Mishaps` lists the faults: a cancel fails once, a placement is rejected, a call raises, the process restarts, the
operator flattens. A call that raises may never have arrived, or have arrived and lost its answer (a close that executed, a
stop that moved). `rows` counts a fault that is none of chance: of every exit that `app.py` dispatches, `record_trade`
raises on the row (`app.py:220`), after the close was sent and before the rest of the list (`RowFails`). Whatever raises ends
the reader's task for good (`deaf`), drops the rest of the operator's list, or makes the loop resume the day as it was last saved.
`missed` is a history variable: the entries that the engine gave up while the loop was still placing them. An exchange order
fills at its own price.

**BarFeed.** `lastSeen` and `queue` are the source's, `call` says where `next_bar` is suspended, `g` is the engine's
indicators, `warm` and `delivered` record what a session's engine was given. A time-out may hit any point of a poll; an
exception ends the session, and the next one has a new source and a new engine with or without warm-up bars.

**Service.** `pc` is where `run_forever` is; `config`, `wake` and `date` are its variables. A file is an inode of
`contents`; `path` and `tmp` are the inodes that `config.yaml` and `config.yaml.tmp` name, and `saver[w]` is where a
thread of the settings UI is in `_dump_yaml_atomic`. A thread keeps writing to the inode it opened, wherever that
has been renamed to. A mixture of two texts may or may not load.

**Branches no run can reach.** The exit inside `_check_daily_loss_limit` runs only if a loss is booked while the
position stays open: TP1 books a gain, and an exit or stop fill clears the position first; a racing entry books
nothing. The branch is modelled all the same. `_exit_position_market` there calls the limit check again, which
returns at once because `halted` is set, so `CheckDailyLossLimit` is not recursive.

## 3. Runs

| run | configuration | result |
|---|---|---|
| `engine_old` | `EngineDay_old.cfg` | passes, 18 666 states |
| `engine_new` | `EngineDay_new.cfg` | passes, 13 978 states |
| `replay` | `ReplaySession.cfg` | passes, 17 845 states |
| `app_resume` | `AppSession_resume.cfg` | passes, 10 568 states |
| `sizing_grid` | `Sizing_grid.cfg` | passes, 2 196 states |
| `live_session` | `LiveSession.cfg` | passes, 1 341 066 states |
| `bar_feed` | `BarFeed.cfg` | passes, 86 082 states |
| `service` | `Service.cfg` | passes, 853 834 states |
| `engine_one_trade` | `EngineDay_one_trade.cfg` | violated: see Findings |
| `app_hard_close` | `AppSession_hard_close.cfg` | violated: see Findings |
| `live_wrong_side` | `LiveSession_wrong_side.cfg` | violated: see Findings |
| `service_config` | `Service_config.cfg` | violated: see Findings |

**engine_old, engine_new.** Can any order of bars, timers, fills, order statuses, equity updates and flattens
leave a position unprotected, a stop loosened, an entry behind, a trade unreported, a loss limit or a hard close
unheeded? `engine_old` has the SMA runner; `engine_new` has the two-phase runner, an FOMC flatten, a TP1
share that floors to nothing and a limit in percent, and checks what these can change, the stop. *Bounds:* one range bar of two shapes (one too narrow to
trade), five closes that reach every R threshold, a loss and a return from each; four minutes, each one a boundary
of the session; gaps up to two minutes, so a boundary may be jumped. Slippage is 0 in the runs (the operator
allows more), and orders fill whole.

**replay.** Do the two sets of books agree between any two calls, and does the day implement
`OneTradeDay`? The refinement maps the *broker's* state, not the engine's flags: what is held, what is covered by
a resting stop, which entries rest. *Bounds:* seven rows, at minutes 1 to 4 and possibly several at one minute; ten
shapes of a bar (quiet, through either entry or both, at each R threshold on either side, back through a stop), so
entries, stops and closes can meet in one bar. The run has the SMA runner, whose exits are the most varied; the
two-phase runner, fixed sizing and the FOMC flatten are covered by the proofs, except for the refinement.

**app_resume.** One trading date of `app.py` with at most one crash, one failed poll, bars up to one minute late,
gaps, and any sequence of `/pause`, `/resume`, `/flatten`. Two sessions after the first are enough for each of
its properties to be broken by a mutant of the resume code.

**live_session.** Do the engine, the broker's maps and the exchange stay together while three tasks send calls at the same
time, fills overtake the answers that map their orders, and one thing goes wrong? *Bounds:* one range (3 to 5, so entries at
6 and 2 and 1R of 4), closes of 12 and -2, a candle that may complete with its average at 3, four minutes, three orders
(both entries and a stop), and one failure or one `/flatten` a day. A close of 12 is TP1 and, in the same bar, the 1.5R cap
of a long; -2 is TP1 of a short but not its cap (-4), so the short's runner stays and meets the average, the hard close,
`/flatten` or its stop; each close is a losing bar of the other side. A stop-out loses 8, more than the limit of 5. With
these closes the whipsaw guard moves no stop, and no minute is skipped: both are questions for the `engine_*` runs, where
nothing interleaves. Three orders are what one trade needs, and every failure meets every interleaving of it; a second trade
needs a fourth, which `live_wrong_side` has. A failing row counts as the day's failure (`MaxRows` and `MaxMishaps` are 1),
so each exit of the loop or the operator is followed by its consequences, and by no second one.

*What each property leaves out*, because there the code does otherwise:

| property | holds | leaves out |
|---|---|---|
| `ClosesOpposeTheEntry` | through every failure, with fills unread and after restarts | days on which both entries fill (finding 3) |
| `OpenIsProtected` | from the reading of the entry's fill, through failed cancels, pauses, `/flatten` and TP1 | days with a rejected placement, a call or row that raises, a restart or a second filled entry; a position that only the account has, because the entry's fill was not mapped |
| `SettledBooksAgree` | the same days, whenever every fill has been read and no close is still to be sent, other calls or not: in particular right after the close of TP1, the cap, the average, the hard close or `/flatten` | what follows the row that fails after an exit; a stop that fills while a close is on its way (the account ends on the other side); an entry whose fill the broker could not map (`t.side`) |
| `EntriesGoneAtHardClose` | on days on which nothing raises or restarts, halted or not, through failed cancels, rejections and second fills | the entries of `missed` (section 4, known behaviours) |

**bar_feed.** Does the engine get the market's bars in order and once, and are its averages those of the bars? Each
minute may or may not have a bar, so every subset of seven minutes occurs. *Bounds:* a window of two bars instead of
five, candles of two minutes, an average and a history of two: gaps longer than a window, several completed candles,
a full average and a bounded history all occur in seven minutes. One time-out and one exception, at any point.
`IndicatorsMatch` compares with a reference definition over the *set* of bars (`CandlesOf`, `IndicatorsOf`) in every
session except where the first bar delivered is one of the warm-up; there it is false (section 4, known behaviours).

**service.** Does every open day get its session, inside its window, and is the file whole when someone reads it? From a
Friday over a weekend and a Monday holiday to a half day on Tuesday, two configurations with different windows, two
saves by two threads, and two faults (a session that raises, a bot or UI that dies). *Bounds:* days of six minutes
with one-minute buffers: before, start, inside, end and after a window are distinct minutes; the run goes past
the first midnight after the half day.

**sizing_grid.** All equities up to 2400 in steps of 20, with worthless ones, and stop distances -1 to 7, against the
statement of `sizing.py`: largest affordable size, both rails, refusal exactly when absurd.

Every property of a passing run has a mutant: an operator next to the original that differs from it as a plausible
bug would, under which TLC finds the property violated (`PROJECT.json`, "mutants").

CHECK_DEADLOCK is off where the system really stops: the replay script ends, the application's trading date ends,
a size has been computed, and the modelled time of `LiveSession`, `BarFeed` and `Service` is over.

### Fairness

`ReplaySession`: the script runs to its end, a loop over a finite list. Every step of `Next` changes `phase`, so
weak fairness of the script is stated as `WF_phase(Advance)`.

`AppSession`: systemd restarts a dead process (`Restart=on-failure` in `deploy/orb-bot.service`), an awaited call
returns, the loop turns because the wait for a bar times out after 30 seconds (`app.py:252`), and the wall clock
advances. `Tick` has strong fairness because its guard, that a running session has turned since the last minute,
only bounds how far the loop may fall behind; it would be wrong to let that bound stop time. Nothing is assumed
about the operator, about bars, or about crashes beyond their bound.

`BarFeed`: time passes, the endpoint answers and the loop runs what it can (`WF` of each). Time-outs and errors are
bounded: a source whose every poll times out delivers nothing, and the code promises nothing then. `Service`: time passes,
the event loop runs what is due, systemd restarts a dead process. Nothing is assumed about the UI's threads.
`EngineDay` and `LiveSession` state no liveness.

## 4. Findings

Each is shown by a run that TLC violates; `PROJECT.json` quotes the sentence it contradicts.

1. **A second trade** (`engine_one_trade`). A fill of the opposite entry that arrives after the first trade was
   closed goes to `_handle_entry_fill`, which checks neither `trade_done_for_day` nor `halted`.
2. **Fills are not wired** (`app_hard_close`). Nothing in `app.py` sets `broker.on_fill`, so under `app.py` the engine
   never learns of a fill: there is no protective stop and no hard close. In `AppSession` the engine is
   therefore never in a position, which is part of its type invariant.
3. **The tracked side flips** (`live_wrong_side`). A racing fill of the opposite entry overwrites `_position_side`. The
   close that flattens the racing fill is right; the next close of the engine's own position adds to it. The run
   lets no fill overtake its mapping and needs no fault.
4. **A new configuration in mid-trade** (`service_config`). A date that is resumed after an exception or a restart runs
   with whatever has been saved in between.

**Known behaviours without a run.** Met while modelling, most of them confirmed by TLC on these models:

- The second part of an entry that fills in parts is flattened as a race (`state_machine.py:133`).
- With `tp1_close_pct: 1.0` a trade ends at TP1 without the notification the trade log is written from
  (`state_machine.py:418`).
- `/flatten` before an entry fills only pauses; the entries rest until the cutoff (`app.py:160`).
- After a restart the restored day counts on simulated entry orders that died with the process
  (`dry_run_broker.py:38`).
- A late bar finalizes the range of a day that timers have ended and places entries, which the next turn at the hard
  close withdraws (`state_machine.py:202`).
- A cancel of an order whose placement is not answered yet is dropped (`tradovate_broker.py:155`). If it was one of the
  cancels that set `_entries_canceled`, it is never sent again: the first entry fills and is stopped out at the loss limit
  while the loop still waits for the answer to the second placement, and the second entry works past the hard close. TLC
  finds the day in a trace of 22 states, without a fault; `missed` is what `EntriesGoneAtHardClose` excepts of it.
- With fills wired, each exit that `app.py` dispatches raises on its row (`app.py:220`). The day is not saved; the session is
  resumed on a day that still has the position, and the hard close or the next exit sends a second close, which takes the account to
  the other side (17 states in TLC). After `/flatten` the bot is neither paused nor does it answer.
- A market close that was executed and whose answer was lost is sent again in the same way by the resumed session.
- A call that raises in the middle of a dispatch discards the unsaved day, and the resumed session places its
  entries again (`app.py:263`); one that raises inside the fill callback ends the socket's reader (`tradovate_client.py:241`).
- After a restart the engine is warmed up with the newest 120 bars, and the new source, which has seen none, delivers the
  newest five again. A bar of an older candle completes the open one, so unfinished and repeated candles enter the
  average and the trail (`app.py:237`, `indicators.py:45`), where `state_machine.py:80-84` promises "indicator continuity".
  Where the source starts after the warm-up the indicators are right (`IndicatorsAgree`).
- Early-close days do not move the hard close; `fomc_dates` is read only at start-up; the environment check of
  `config.py:220` is the converse of the one README.md describes.

## 5. Proofs

Eight modules hold theorems; `tlapm` checks every step of them. Each inductive invariant was an invariant of a TLC run
before it was proved.

### EngineDayProofs

For every configuration that satisfies `OrbConfig`'s assumptions, any shapes of bars, any values of the indicators, any
slippage, any equities and any gaps between events:

| theorem | says |
|---|---|
| `Invariance` | `Spec => []Inv` |
| `TypeCorrect` | `Spec => []TypeOK` |
| `RunnerNeverRisks` | `Spec => []RunnerIsRiskFree` |
| `PositionsAreProtected` | `Spec => []ProtectiveStopRests` |
| `EntriesAreWithdrawn` | `Spec => []EntriesWithdrawn` |
| `TradesAreReported` | `Tp1ClosePct < 100` implies `Spec => []TradesReported` |
| `HardCloseIsFinal` | `Spec => HardCloseFlattens` |
| `LossLimitIsImmediate` | `Spec => LossLimitHalts` |
| `StopNeverLoosens` | `Spec => StopOnlyTightens` |

**The invariant.** `Inv` is `Core`, `Tidy` and a fact about time. `Core` holds even between two calls that a handler
makes: an open position is protected by a working stop for what is left of it (`Protected`), breakeven came before TP1
(`RiskFree`), the entries at the venue are at most one of each reference at the edges of the range the engine remembers
(`EntriesKnown`), none is sent before the range is fixed, and entry and exit notifications balance (`Reported`). Without `EntriesKnown`
an entry filled with slippage could lie on the far side of its stop. `Tidy` says that a done day is withdrawn; it is
not in `Core` because a handler sets `done` before it cancels. The fact about time (`EndedEarly`): a day that is done
with its range not final was ended by the hard close, so a late bar that finalizes the range is itself past the hard close
and the same call cancels what it placed.

**The argument.** A handler is a chain of calls, and what the action properties say must hold of the chain.
`Managed(x, y)` says what a part of a handler may make of an engine: it keeps `Core`, does not loosen the stop, ends halted
whenever it books a loss at the limit, and a halt leaves nothing open. It is transitive (`ManagedTransitive`), and there is
one lemma per method saying that the method is `Managed`. `Settled` is the same between the booking of an exit and the look at
the limit that follows it; `Observed` covers the part of a bar that builds and finalizes the range. `NextInv` and the lemmas
per event then give the invariant and the three action properties together.

**`Tp1ClosePct < 100`.** The schema accepts `tp1_close_pct: 1.0`. Then TP1 closes the last contract through a path that
sends no exit notification (`state_machine.py:418`, "Known behaviours"), so the hypothesis is necessary, not a convenience.

### ReplaySessionProofs

For **every** configuration that satisfies the assumptions of `OrbConfig`, every set of bars and every number of
rows:

| theorem | says |
|---|---|
| `ReplayInvariant` | `Spec => []ReplayInv` |
| `ReplayTypeOK` | `Spec => []TypeOK` |
| `ReplayMirrors` | `Spec => []AccountMirrorsEngine` |
| `ReplayEntries` | `Spec => []EntriesRestWhileArmed` |
| `ReplayEquity` | `Spec => []EquityMatchesPnl` |
| `ReplayLossLimit` | `Spec => []LossLimitEnforced` |
| `ReplayIsOneTrade` | `Spec => OneTrade!Init /\ [][OneTrade!Next]_(OneTrade!vars)` |

**The invariant.** None of the four properties is inductive alone. That the account mirrors the engine after a fill
needs the opposite entry to be gone before the loop of `feed_bar` reaches it, which needs the entries to rest
exactly while the day is armed, which needs the bookkeeping of `placed`, `canceled`, `done` and `orFinal`
(`Core`); that the two sides book the same P&L needs the same entry price and size on both sides and, when the
engine decides on a price, that its last price is the broker's (`Priced`); that a loss limit is honoured
needs all of them, since the exit it forces is booked too. `ReplayInv` is their conjunction with the types, and with
the fact that a day is done only once its range is final, before which nothing rests (`DoneAfterRange`).

**The argument.** One lemma per method of the engine and of the broker says what the method preserves
(`Sound`: types, mirrored books, entries, equity, limit) and what it leaves alone (`SameFrame`,
`SameFlags`). The lemmas are composed as the methods are: ratchet, breakeven, TP1, runners, the four time
checks, the range, `on_bar`, `on_fill`, the three turns of `feed_bar`. The three actions then each follow from a
few of them.

**The refinement.** The mapping reads the broker's books only, so the first step is that they show the stage of the engine's
day (`AccountShowsDay`, from the invariant). What a step may do to that stage is then said of the engine: `Enters` of a fill of an entry,
`Reduces` (part of `Managed`) of everything that manages a trade, which may only shrink it or end it. Both compose: the day is done from the
entry on, so whatever meets in one bar of `feed_bar`, that call begins a trade of an armed day, shrinks one, ends one or does nothing
(`CallsEnter`), which is at most one step of `OneTradeDay`; an entry whose stop fills in the same bar is its `Finish`.

**Assumptions** beyond the validators: `OptionalAssumption`, that `None` is neither a position nor an order, and
`StartEquity # 0`: with a limit in percent, an account of exactly zero has a limit of zero, which is reached before
anything was booked, and the code compares only when it books. TLC evaluates all of them on each run.

### AppSessionProofs

For every configuration, any bars, lags, crashes, errors, commands and any length of the session:

| theorem | says |
|---|---|
| `Invariance` | `Spec => []Inv` |
| `TypeCorrect` | `Spec => []TypeOK`, in particular that no engine under `app.py` ever holds a position |
| `DoneDaysStayDone` | `Spec => []DoneSurvives` |
| `EntriesAreTracked` | `Spec => []RestingEntriesAreTracked` |
| `PausedPlacesNothing` | `Spec => PauseHoldsEntries` |
| `EntriesArePlacedOnce` | `Spec => SavedEntriesNotRepeated` |

**The invariant.** An engine only decides; what it decided is partly at the broker and partly in the list that is being dispatched, and a
crash, a pause or an error separates them. `Tracked(b, x)` relates the three: if the engine has not placed, nothing of either
entry rests or is going to; if it has cancelled, each entry is gone or has its cancel still to come, with no placement after it.
`StoreHonoured` ties a running engine to the saved day, `NoOrphans` the broker to the next session's engine while
none runs (an exception comes only where everything has been saved), and `DaySound` says a saved day with entries has a
final range, which is why a resumed engine cannot place them again.

**The argument.** `Follows(b, x, y)` is what any event may make of a session's engine, and composes; one lemma per method an engine
that holds nothing can reach, and then one per action. A dispatched action only removes orders or adds the one it names
(`DispatchedAccount`), from which both action properties follow.

**Assumptions.** `EnvironmentAssumption` and `AppAssumption` give the types of the events, `OptionalAssumption` of each module
says that `None` is not a record. TLC evaluates them on the runs.

### LiveEngineProofs and LiveSessionProofs

For every configuration, any candles and bars, any number of orders, and any order of the calls of the three
tasks, the fills (each at its order's price), the frames, the mishaps and the rows that fail:

| theorem | says |
|---|---|
| `Invariant` | `Spec => []Inv` |
| `Typed` | `Spec => []TypeOK`, with the two maps of the broker agreeing on every order |
| `ClosesOppose` | `Spec => ClosesOpposeTheEntry` |
| `EntriesStayInOrder` | `Spec => []Orderly` |
| `EntriesGone` | `Spec => []EntriesGoneAtHardClose` |
| `OneTradeStays` | `Spec => []OneTrade` |
| `Protected` | `Spec => []OpenIsProtected` |
| `BooksAgree` | `Spec => []SettledBooksAgree` |

**The invariant.** A market close is decided by a handler, queued, and sent when other tasks have run in between, on the side
that the broker tracked when a fill was read. `ClosesOpposeTheEntry` therefore needs, for the time in between: every close
in a list, every position, the saved one too, and the broker's side are backed by an entry that filled (`Brackets`, `Backings`);
a fill's frame says what filled, and says it once (`FramesTrue`); the id of a frame gives the reference of that order
(`Paired`); an entry has the side of its reference and the size that the range gives, before and after a restart (`Bracket`,
`RangeSaved`); and before the end of the range, when the range still changes, nothing rests on it (`Early`).

**The argument.** A handler of the engine is a chain of methods, and its list is executed later. `Manages(B, o, x)` in
`LiveEngineProofs` says what any part of a handler may make of the engine `o` it was called on: only entries of the range are placed,
once per reference and only by the bar that fixes the range; a close is for no more than the contracts in `B`; the stop is
cancelled only with the position gone; a position keeps its side and size; an engine that has cancelled its entries has both cancels
in its list. `Balanced` adds that the closes of the list make up what the position lost. Each method has one lemma, and
`OnBarManages`, `HandleEntryFillIs` and the others give the answer of a whole call. In `LiveSessionProofs` a lemma per action says that it
keeps `Inv`: `GrownKeeps` covers what exchange steps do to the orders, `ShorterKeeps` what a call does to its list,
`HandledKeeps` what a handler's answer does to everything else.

**The entries at the hard close.** A cancel finds the order only if the broker has been told its id, and it is told after the
exchange has the order. `Orderly` says, of a day on which nothing raises and nothing restarts, why no cancel comes too early
but those of `missed`. All placements are calls of the loop: an entry is placed once, and when a cancel of it is at the head
of the loop's list, the answer to its placement has been read (`Tracked`). An engine that has withdrawn its entries has each of
them cancelled, filled, ahead in that list, or about to be cancelled by the reader or the operator with no placement left
in the loop's list (`Gone`). Those two cancel while the loop may be placing, and an entry for which the last conjunct fails
at that moment is in `missed`. The reader and the exchange only take orders away (`Withers`); a failed cancel
stays at the head of its list and is tried again, because one mishap of its kind is all that happens (`TriesSeen`). After a day
on which something raised, the invariant says nothing more of the entries.

**The trade.** `OpenIsProtected` and `SettledBooksAgree` speak of days on which one entry at most fills, every placement is accepted, no
call and no row raises and nothing restarts; failed cancels, a pause and `/flatten` may come, and every exit, up to its row:
the step that fails on the row ends the day as far as the two properties and `OneTrade` go. `OneTrade` says where such a day is. Until the
engine is told of the entry's fill (`BeforeTrade`) no task has more than entries to place or cancel, and the account holds what
the entry brought. The fill puts the stop in the reader's list, and from then on the day is `InTrade`. Then the fill of no entry
is unread; every stop at the exchange is known to the broker by name or about to be, so its fill cannot be skipped
(`StopsNamed`); an open position has a stop that covers it, working, filled and still to be told, or ahead in the reader's
list, and no task has a call in its list that cancels it or makes it too small (`Guarded`); and as long as the stop has not filled, the
account is the engine's position and what the three lists still have to close (`BooksBalance`), which is nothing for a
list without a close; hence the books agree as soon as no close is left to send, with other calls still under way. `Guarded` must speak of
all three lists: a close of the loop and the `/flatten` of the operator run between the reader's calls. Three arguments carry the
steps: `HandledTrades` for a handler whose answer is `Manages` and `Balanced`, `CallTrades` for a call at the head of a list, and
`EntryFillTrades` for the one step that begins the trade.

*Assumptions*: `LiveAssumption` and `SessionAssumption` (types, bars of the range before `OrEnd`); `OptionalAssumption` says that
`None` is not a record, a number or a reference.

### BarFeedProofs

For every length of the day, any market, any window of the endpoint and any number of time-outs and errors:

| theorem | says |
|---|---|
| `Invariance` | `Spec => []Inv` |
| `TypeCorrect` | `Spec => []TypeOK`, with the deques of the indicators inside their `maxlen` |
| `BarsInOrder` | `Spec => []FedInOrder` |
| `OnlyGapsLoseBars` | `Spec => []OnlyLongGapsLoseBars` |
| `IndicatorsAgree` | `Spec => []IndicatorsMatch`, for candles of any length, averages over any number of them and any trailing candle the deque holds |

**The invariant.** `InTimeOrder` says of all pairs of bars what `FedInOrder` says of neighbours. What a poll leaves out is
decided when the endpoint answers, but shows only when the answer is received, with any number of minutes and time-outs in
between; `AnswerIsNewest` carries it across: an answer under way is in order, and leaves out only what is older than a full window of
its own bars. `OnePoll` says that a poll runs only while nothing is queued, so an answer is never put behind bars that an
earlier one left.

**The argument.** The step that matters is `ReceiveNew`: the source appends the bars after `_last_seen`. A bar that is now passed
over was either passed over before, with its window already full, or is missing from the answer, and then a full window of
newer bars is in it, all of them past `_last_seen` or handed on earlier. Both filters of the code, of the newest `Window` bars and of
the new ones, are sorted lists of a set; `Ranks` and `InOrderSorts` say that `InOrder` lists a finite set once and increasing,
by counting the members before each. `WarmedUp` is a recursive function, and the library's induction theorems cannot be used
here; `WarmedUpBounded` argues with a least counterexample instead, which a set of naturals has (`LeastExists`).

**The indicators.** `IndicatorsMatch` compares what the strategy reads, the average, the trailing candle and the last
price, with a definition over the *set* of bars. It is not inductive: what the next bar does depends on the open candle and on the
rest of the deques. `Knows` says all of it: the aggregator holds the latest candle of the set as far as it goes,
and the deques the newest complete candles and their closes; `KnowsBars` is the invariant, on top of `Inv`. `CandlesGrow` is the step of
the reference definition (a later minute widens the latest candle or completes it, and then the candles are those
before with it appended), `PushKeepsNewest` the step of a bounded deque, and `FeedKnows` puts the two beside
`_feed_aggregators`; a warm-up is that step once for each bar (`WarmedUpKnows`). It needs each bar to be later than the ones before,
which is `InTimeOrder`, and after a warm-up the first bar delivered to be later than its last (`StartsAfterWarmUp`; `KnowsBars` also says that the
warm-up is in order). Without that the statement is false: see the known behaviours in section 4. Last, `RollingSMA` adds up a list and the definition adds up a set, one member at a
time in an unknown order. `Sums` describes a function on the sets of places that does not depend on the
order, together with the partial sums of the list; one exists for every length (`SumsExist`), and both ways
of adding agree with it (`SumOfSet`, `SumOfList`), again by least counterexamples.

*Assumptions* (`FeedAssumption`, `IndicatorsAssumption`): the window, the counts and the periods are positive naturals, a bar has
integer prices, the candle deque is at least as long as the look-back (`max(20, lookback + 5)` in the code), and `None`
is neither a number nor a candle.

### ServiceProofs

For every calendar, every set of configurations, any number of threads, saves and faults, and any length of time:

| theorem | says |
|---|---|
| `SchedulerInvariant` | `Spec => []SchedulerInv` |
| `ServiceFollowsTheCalendar` | `Spec => []SessionsFollowTheCalendar` |
| `ServiceTypeOK` | `Spec => []TypeOK` |
| `ServiceFileIsWhole` | `Spec => []FileIsWhole` |

`SessionsFollowTheCalendar` is not inductive: that a day does not pass without a session needs to know, at every minute
of it, where its session still is. `SchedulerInv` says so: a sleeping bot wakes inside an open window and passes
none over (`SleepsUntilWindow`), a running session is today's and on record (`TradesInWindow`), and an open day without
a session on which the bot was never down is still before its window (`SessionAhead`). The arithmetic is in four
lemmas about windows and dates and one, `NextSessionStartCorrect`, about `next_session_start`: what it returns lies in
an open window, and no open window ends between now and then. `FilesInv` says the same for the file: without overlap
at most one thread saves, its file is the temporary one, empty until written and whole when moved (`SavesApart`).

*Assumptions* (`ServiceAssumption`): the windows of a day, with the scheduler's buffers, stay inside the day. The
validator of `config.py:70-79` does not guarantee it for times around midnight.

### SizingProofs

`SizeIsWithinRails`, `SizeIsLargest` and `RefusalIsExact` prove the three invariants of `sizing_grid` in `risk_pct`
mode for every configuration and any grid of integers. The one fact behind them is that the quotient of the budget by
the loss of one contract is the number of affordable contracts (`QuotientIsAffordable`).

### Only model-checked

The liveness of `OneTradeDay` (its fairness conjunct), `EntriesEventuallyGone`, `FeedCatchesUp` and `BotComesBack`: liveness under
fairness and statements about ENABLED are outside what the provers handle. Every invariant and every safety action property
that a passing run checks is also a theorem.

## 6. Plan

1. `WiredSession`: `AppSession` with `on_fill` set the way the replay sets it, the equity of the next session and
   position recovery. Its exits would fail on the row as those of `LiveSession` do.
2. Longer live days: a second trade with every mishap, two mishaps at once.
3. The token lifecycle of `TradovateRestClient`.

## 7. Not modelled

`TradovateBroker.connect`, `close` and `get_equity`, the REST client's authentication and token lifecycle, and the frames
of the wire (the socket's pending table holds one request, its socket is closed after it). The contents of the trades
table: no fill reaches the engine under `app.py`, and if one did, its row would fail. The read-only endpoints and the authentication of the settings UI. Formatting,
logging, CSV and YAML parsing, environment variables and deployment scripts (input, output and wording). Floats are
modelled as exact numbers throughout, and a trading day has no change of the clocks.
