------------------------------- MODULE BarFeed ------------------------------
(***************************************************************************)
(* PollingTradovateBarSource of broker/bar_source.py under the session     *)
(* loop of app.py, and the indicators its bars end up in.  next_bar polls  *)
(* the chart endpoint, one request at a time; the loop gives up on it      *)
(* after thirty seconds, wherever it is, and calls it again.  An exception *)
(* out of a request ends the session; the next one has a new source and a  *)
(* new engine, whose indicators are warmed up from the chart endpoint if   *)
(* the opening range is final.                                             *)
(*                                                                         *)
(* The chart endpoint is external: it answers with the newest completed    *)
(* bars, oldest first.  A minute without a trade has no bar.               *)
(***************************************************************************)
EXTENDS Indicators, FiniteSets, SequencesExt

CONSTANTS
  Window,       \* bars a poll asks for, 5 in the code
  WarmUp,       \* bars a warm-up asks for, 120 in the code
  Shape,        \* Shape[m] is the [high, low, close] of the bar of minute m
  EndTime,      \* bound: the last minute
  MaxTimeouts,  \* bound: waits for a bar that time out
  MaxErrors     \* bound: requests that raise

ASSUME FeedAssumption ==
  /\ Window \in Nat \ {0} /\ WarmUp \in Nat \ {0} /\ EndTime \in Nat
  /\ MaxTimeouts \in Nat /\ MaxErrors \in Nat
  /\ Shape \in [1..EndTime -> [high : Int, low : Int, close : Int]]

VARIABLES
  clock,      \* the minutes that are over
  traded,     \* those of them that have a bar
  lastSeen,   \* the source's _last_seen and _queue, by minute
  queue,
  call,       \* next_bar: "idle" not running, "asked", "answered" or "asleep"
  answer,     \* the bars the endpoint answered a running request with
  g,          \* the engine's indicators
  warm,       \* history of the session: the bars of its warm-up,
  delivered,  \*   and the bars given to on_bar
  timeouts, errors

source == <<lastSeen, queue>>
vars == <<clock, traded, source, call, answer, g, warm, delivered, timeouts, errors>>

BarOf(m) == [time |-> m, high |-> Shape[m].high, low |-> Shape[m].low, close |-> Shape[m].close]
BarsOf(minutes) == [i \in DOMAIN minutes |-> BarOf(minutes[i])]

(* SetToSortSeq of SequencesExt, without its search for a permutation.     *)
InOrder(minutes) ==
  [i \in 1..Cardinality(minutes) |->
     CHOOSE m \in minutes : Cardinality({k \in minutes : k < m}) = i - 1]

(* get_recent_bars(n).                                                     *)
Recent(n) ==
  LET all == InOrder(traded)
  IN  IF Len(all) <= n THEN all ELSE SubSeq(all, Len(all) + 1 - n, Len(all))

Init ==
  /\ clock = 0 /\ traded = {} /\ lastSeen = None /\ queue = <<>>
  /\ call = "idle" /\ answer = <<>>
  /\ g = NewIndicators /\ warm = <<>> /\ delivered = <<>>
  /\ timeouts = 0 /\ errors = 0

-----------------------------------------------------------------------------

(* A minute ends, with or without a bar.                                   *)
Minute ==
  /\ clock < EndTime
  /\ clock' = clock + 1
  /\ traded' \in {traded, traded \cup {clock'}}
  /\ UNCHANGED <<source, call, answer, g, warm, delivered, timeouts, errors>>

OnBar(m) ==
  /\ g' = Feed(g, BarOf(m))
  /\ delivered' = Append(delivered, m)

(* next_bar with bars in hand returns without waiting.                     *)
TakeQueued ==
  /\ call = "idle" /\ queue # <<>>
  /\ OnBar(Head(queue))
  /\ queue' = Tail(queue)
  /\ UNCHANGED <<clock, traded, lastSeen, call, answer, warm, timeouts, errors>>

Ask ==
  /\ call \in {"idle", "asleep"} /\ queue = <<>>
  /\ call' = "asked"
  /\ UNCHANGED <<clock, traded, source, answer, g, warm, delivered, timeouts, errors>>

Answer ==
  /\ call = "asked"
  /\ call' = "answered" /\ answer' = Recent(Window)
  /\ UNCHANGED <<clock, traded, source, g, warm, delivered, timeouts, errors>>

(* Mutant: a bar is new unless it is older than the last one.              *)
NewBars_Inclusive(bars) == InOrder({m \in Range(bars) : lastSeen = None \/ m >= lastSeen})

(* Mutant: only the newest of the new bars is kept.                        *)
NewBars_NewestOnly(bars) ==
  InOrder({m \in Range(bars) : (lastSeen = None \/ m > lastSeen) /\ m = Last(bars)})

(* Mutant: after the first bars, none is new.                              *)
NewBars_FirstPollOnly(bars) == InOrder({m \in Range(bars) : lastSeen = None})

(* Those of the answer after _last_seen, sorted by time.                   *)
NewBars(bars) == InOrder({m \in Range(bars) : lastSeen = None \/ m > lastSeen})

(* The answer reaches next_bar.  From here to the bar's delivery nothing   *)
(* is awaited.                                                             *)
Receive ==
  /\ call = "answered"
  /\ LET new == NewBars(answer)
     IN  IF new = <<>>
         THEN call' = "asleep" /\ UNCHANGED <<source, g, delivered>>
         ELSE /\ lastSeen' = Last(new) /\ queue' = Tail(new)
              /\ OnBar(Head(new))
              /\ call' = "idle"
  /\ answer' = <<>>
  /\ UNCHANGED <<clock, traded, warm, timeouts, errors>>

(* asyncio.wait_for cancels next_bar, or the request's own timeout comes   *)
(* first: both are a TimeoutError to the loop, which runs the engine's     *)
(* timers and waits anew.                                                  *)
TimeOut ==
  /\ call # "idle" /\ timeouts < MaxTimeouts
  /\ timeouts' = timeouts + 1
  /\ call' = "idle" /\ answer' = <<>>
  /\ UNCHANGED <<clock, traded, source, g, warm, delivered, errors>>

(* The session ends with the exception and the next one of the day starts. *)
SessionError ==
  /\ call = "asked" /\ errors < MaxErrors
  /\ errors' = errors + 1
  /\ warm' \in {<<>>, Recent(WarmUp)}
  /\ g' = WarmedUp(NewIndicators, BarsOf(warm'))
  /\ lastSeen' = None /\ queue' = <<>> /\ call' = "idle" /\ answer' = <<>>
  /\ delivered' = <<>>
  /\ UNCHANGED <<clock, traded, timeouts>>

Next == Minute \/ TakeQueued \/ Ask \/ Answer \/ Receive \/ TimeOut \/ SessionError

(* Time passes, the endpoint answers, and the loop runs whenever it can.   *)
Fairness ==
  WF_vars(Minute) /\ WF_vars(TakeQueued) /\ WF_vars(Ask) /\ WF_vars(Answer) /\ WF_vars(Receive)

Spec == Init /\ [][Next]_vars /\ Fairness

-----------------------------------------------------------------------------
(* What the indicators should know, from the set of bars alone.            *)

MaxOf(S) == CHOOSE x \in S : \A y \in S : x >= y
MinOf(S) == CHOOSE x \in S : \A y \in S : x <= y

CandleOf(minutes) ==
  [time  |-> MaxOf(minutes),
   high  |-> MaxOf({Shape[m].high : m \in minutes}),
   low   |-> MinOf({Shape[m].low : m \in minutes}),
   close |-> Shape[MaxOf(minutes)].close]

(* The completed candles of a set of bars: minute m closes within candle   *)
(* number (m + Timeframe - 1) \div Timeframe, and the latest is still open.*)
CandlesOf(minutes) ==
  LET number(m) == (m + Timeframe - 1) \div Timeframe
      numbers   == {number(m) : m \in minutes}
      complete  == InOrder(numbers \ {MaxOf(numbers)})
  IN  [i \in DOMAIN complete |-> CandleOf({m \in minutes : number(m) = complete[i]})]

LastOf(s, n) == IF Len(s) <= n THEN s ELSE SubSeq(s, Len(s) + 1 - n, Len(s))

IndicatorsOf(minutes) ==
  LET candles == IF minutes = {} THEN <<>> ELSE CandlesOf(minutes)
      recent  == LastOf(candles, Period)
  IN  [sum   |-> IF Len(candles) < Period THEN None
                 ELSE MapThenSumSet(LAMBDA i : recent[i].close, DOMAIN recent),
       trail |-> IF Len(candles) < Lookback THEN None ELSE LastOf(candles, Lookback)[1],
       last  |-> IF minutes = {} THEN None ELSE Shape[MaxOf(minutes)].close]

Known == [sum |-> SmaSum(g), trail |-> TrailReference(g), last |-> g.last]

-----------------------------------------------------------------------------

(* The type invariant.                                                     *)
TypeOK ==
  /\ clock \in 0..EndTime /\ traded \subseteq 1..clock
  /\ lastSeen \in traded \cup {None}
  /\ call \in {"idle", "asked", "answered", "asleep"} /\ (answer # <<>> => call = "answered")
  /\ Len(g.closes) <= Period /\ Len(g.candles) <= HistoryLen
  /\ timeouts \in 0..MaxTimeouts /\ errors \in 0..MaxErrors

(* bar_source.py, "dedup by timestamp": what a session's engine has been   *)
(* given and is about to be given is in order, without repetition, up to   *)
(* _last_seen, through time-outs at any point of a poll.                   *)
FedInOrder ==
  LET bars == delivered \o queue
  IN  /\ \A i \in 2..Len(bars) : bars[i - 1] < bars[i]
      /\ lastSeen = IF bars = <<>> THEN None ELSE Last(bars)

(* A bar the source has passed over is older than a full window of bars it *)
(* has handed on: only a gap between two answered polls longer than the    *)
(* window loses bars, a time-out never does.                               *)
OnlyLongGapsLoseBars ==
  \A m \in traded :
    lastSeen # None /\ m < lastSeen /\ m \notin Range(delivered \o queue) =>
      Cardinality({k \in Range(delivered \o queue) : k > m}) >= Window

(* In a session that polls from its first bar, right after a warm-up, and  *)
(* for as long as the source starts after the warm-up, the moving average, *)
(* the trailing candle and the last price are those of the set of bars     *)
(* seen, with minutes missing or not.  It is false where the new source   *)
(* delivers bars of the warm-up again: an older bar completes the candle.  *)
IndicatorsMatch ==
  warm = <<>> \/ delivered = <<>> \/ delivered[1] > Last(warm) =>
    Known = IndicatorsOf(Range(warm \o delivered))

(* Every bar is passed on, or passed over, in the end.                     *)
FeedCatchesUp ==
  \A m \in 1..EndTime :
    m \in traded ~> (lastSeen # None /\ lastSeen >= m /\ queue = <<>>)
=============================================================================
