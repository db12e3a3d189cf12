------------------------- MODULE ReplaySessionProofs ------------------------
(***************************************************************************)
(* The replay keeps the engine and the simulated account in step, for      *)
(* every configuration that loads, every CSV and every behaviour of the    *)
(* indicators.                                                             *)
(*                                                                         *)
(* The four safety properties are proved together because none is          *)
(* inductive alone: the books agree only if every close finds the position *)
(* the engine had in mind, the position agrees only if no second entry     *)
(* rests, and the entries are gone only if trading ended for the day.      *)
(* Core is what holds even between the steps of one method; Orderly adds   *)
(* what a method may rely on; Sound adds the loss limit, which holds       *)
(* between calls.  Each method of the engine has one lemma: from a sound   *)
(* engine it returns a sound engine.                                       *)
(***************************************************************************)
EXTENDS ReplaySession, TLAPS

(* A product of positive integers is a positive integer.                   *)
LEMMA ProductPositive ==
  ASSUME NEW a \in Int, NEW b \in Int, a > 0, b > 0
  PROVE  a * b \in Int /\ a * b > 0
  OBVIOUS

(* compute_position_size yields a count of contracts, or its refusal.      *)
LEMMA SizeIsNat ==
  ASSUME NEW equity \in Int, NEW d \in Int
  PROVE  Eng!ComputePositionSize(equity, d) \in Nat
<1>1. CASE d <= 0
  BY <1>1 DEF Eng!ComputePositionSize, Eng!Refused
<1>2. CASE d > 0
  <2>1. d * PointValue \in Int /\ d * PointValue > 0
    BY <1>2, ProductPositive, SafetyAssumption
  <2>2. equity * RiskBp \in Int
    BY RiskAssumption
  <2> DEFINE raw == (equity * RiskBp) \div (d * PointValue * 10000)
  <2>3. raw \in Int
    BY <2>1, <2>2
  <2> HIDE DEF raw
  <2>4. Eng!Greater(MinContracts, raw) \in Nat
    BY <2>3, RiskAssumption DEF Eng!Greater
  <2>5. SizingMode = "fixed" => FixedContracts \in Nat
    BY RiskAssumption, NoneAssumption
  <2> QED
    BY <2>4, <2>5 DEF Eng!ComputePositionSize, Eng!Refused, raw
<1> QED
  BY <1>1, <1>2

-----------------------------------------------------------------------------

(* No entry order rests.                                                   *)
NoEntries(x) ==
  /\ x.sink.working["entry_long"] = None
  /\ x.sink.working["entry_short"] = None

(* What holds of the engine and its broker even inside a method.           *)
Core(x) ==
  /\ x \in Engine
  /\ Mirrors(x)
  /\ BooksAgree(x)
  /\ x.equity = StartEquity
  /\ x.placed => /\ x.orFinal
                 /\ x.orHigh \in Int /\ x.orLow \in Int
                 /\ x.orHigh > x.orLow
                 /\ x.entryQty \in Nat \ {0}
  /\ x.pos # None => x.placed /\ x.pos.runnerQty > 0 /\ (~x.pos.tp1 => x.pos.runnerQty = x.pos.qty)
  /\ x.canceled \/ ~x.placed => NoEntries(x)
  /\ x.canceled => x.placed

(* What a method may rely on: a position, a halt or withdrawn entries mean *)
(* that trading has ended for the day.                                     *)
Orderly(x) ==
  /\ Core(x)
  /\ EntriesRest(x)
  /\ x.canceled => x.done
  /\ x.halted => x.done
  /\ x.pos # None => x.done

(* What holds between any two calls.                                       *)
Sound(x) == Orderly(x) /\ LimitEnforced(x)

-----------------------------------------------------------------------------
(* What the broker does with one action.                                   *)

SameAccount(b, c) ==
  /\ c.last = b.last /\ c.side = b.side /\ c.entry = b.entry
  /\ c.qty = b.qty /\ c.equity = b.equity

(* The broker ignores an Alert and a Notify.                               *)
LEMMA BrokerNeutral ==
  ASSUME NEW b \in Broker, NEW a, a.type \in {"alert", "notify"}
  PROVE  Execute(b, a) = b
BY DEF Execute

(* A cancel removes one resting order and touches nothing else.            *)
LEMMA BrokerCancel ==
  ASSUME NEW b \in Broker, NEW ref \in Refs
  PROVE  LET c == Execute(b, Eng!Cancel(ref)) IN
         /\ c \in Broker
         /\ SameAccount(b, c)
         /\ c.working[ref] = None
         /\ \A r \in Refs \ {ref} : c.working[r] = b.working[r]
BY DEF Execute, Eng!Cancel, Broker, SameAccount

(* A placement rests one order and touches nothing else.                   *)
LEMMA BrokerPlace ==
  ASSUME NEW b \in Broker, NEW ref \in Refs, NEW side \in Sides, NEW price \in Int,
         NEW qty \in Nat \ {0}
  PROVE  LET c == Execute(b, Eng!Place(ref, side, price, qty)) IN
         /\ c \in Broker
         /\ SameAccount(b, c)
         /\ c.working[ref] = [side |-> side, price |-> price, qty |-> qty]
         /\ \A r \in Refs \ {ref} : c.working[r] = b.working[r]
BY DEF Execute, Eng!Place, Broker, StopOrder, SameAccount

(* A modify of the price keeps the rest of the stop.                       *)
LEMMA BrokerModifyPrice ==
  ASSUME NEW b \in Broker, NEW price \in Int, b.working["stop_loss"] # None
  PROVE  LET c == Execute(b, Eng!ModifyPrice(price)) IN
         /\ c \in Broker
         /\ SameAccount(b, c)
         /\ c.working["stop_loss"] = [b.working["stop_loss"] EXCEPT !.price = price]
         /\ \A r \in Refs \ {"stop_loss"} : c.working[r] = b.working[r]
BY DEF Execute, Eng!ModifyPrice, Eng!StopLoss, Broker, StopOrder, SameAccount, Refs

(* A modify of the size keeps the rest of the stop.                        *)
LEMMA BrokerModifyQty ==
  ASSUME NEW b \in Broker, NEW qty \in Nat \ {0}, b.working["stop_loss"] # None
  PROVE  LET c == Execute(b, Eng!ModifyQty(qty)) IN
         /\ c \in Broker
         /\ SameAccount(b, c)
         /\ c.working["stop_loss"] = [b.working["stop_loss"] EXCEPT !.qty = qty]
         /\ \A r \in Refs \ {"stop_loss"} : c.working[r] = b.working[r]
BY DEF Execute, Eng!ModifyQty, Eng!StopLoss, Broker, StopOrder, SameAccount, Refs

(* The instance's Signed is the one of OrbConfig, and an integer.          *)
LEMMA SignedIsInt ==
  ASSUME NEW side, NEW a \in Int, NEW b \in Int
  PROVE  Signed(side, a, b) \in Int /\ Eng!Signed(side, a, b) = Signed(side, a, b)
BY DEF Signed, Eng!Signed

(* Reducing the simulated position closes it or leaves the rest.           *)
LEMMA BrokerReduce ==
  ASSUME NEW b \in Broker, NEW qty \in Nat
  PROVE  LET c == ReducePosition(b, qty) IN
         /\ c \in Broker
         /\ c.last = b.last /\ c.working = b.working /\ c.equity = b.equity
         /\ IF b.qty - qty <= 0
            THEN c.qty = 0 /\ c.side = None /\ c.entry = None
            ELSE c.qty = b.qty - qty /\ c.side = b.side /\ c.entry = b.entry
<1>1. CASE b.qty - qty <= 0
  BY <1>1 DEF ReducePosition, Broker
<1>2. CASE ~(b.qty - qty <= 0)
  <2>1. b.qty - qty \in Nat
    BY <1>2 DEF Broker
  <2> QED
    BY <1>2, <2>1 DEF ReducePosition, Broker
<1> QED
  BY <1>1, <1>2

(* A market close books the P&L at the last price and reduces.             *)
LEMMA BrokerClose ==
  ASSUME NEW b \in Broker, NEW qty \in Nat, b.side # None, b.entry # None, b.last # None
  PROVE  LET c == Execute(b, Eng!CloseMarket(qty)) IN
         /\ c \in Broker
         /\ c.last = b.last /\ c.working = b.working
         /\ c.equity = b.equity + Signed(b.side, b.entry, b.last) * qty * PointValue
         /\ IF b.qty - qty <= 0
            THEN c.qty = 0 /\ c.side = None /\ c.entry = None
            ELSE c.qty = b.qty - qty /\ c.side = b.side /\ c.entry = b.entry
<1> DEFINE gain == Signed(b.side, b.entry, b.last) * qty * PointValue
           booked == [b EXCEPT !.equity = @ + gain]
<1>1. Execute(b, Eng!CloseMarket(qty)) = ReducePosition(booked, qty)
  BY DEF Execute, Eng!CloseMarket, HasPosition, ApplySimulatedPnl
<1>2. gain \in Int
  BY SignedIsInt, SafetyAssumption DEF Broker
<1> HIDE DEF gain
<1>3. booked \in Broker
  BY <1>2 DEF Broker
<1>4. /\ booked.last = b.last /\ booked.working = b.working /\ booked.equity = b.equity + gain
      /\ booked.qty = b.qty /\ booked.side = b.side /\ booked.entry = b.entry
  BY DEF Broker
<1> HIDE DEF booked
<1>5. LET c == ReducePosition(booked, qty) IN
      /\ c \in Broker
      /\ c.last = booked.last /\ c.working = booked.working /\ c.equity = booked.equity
      /\ IF booked.qty - qty <= 0
         THEN c.qty = 0 /\ c.side = None /\ c.entry = None
         ELSE c.qty = booked.qty - qty /\ c.side = booked.side /\ c.entry = booked.entry
  BY <1>3, BrokerReduce
<1>6. b.equity + gain = b.equity + Signed(b.side, b.entry, b.last) * qty * PointValue
  BY DEF gain
<1> QED
  BY <1>1, <1>4, <1>5, <1>6

-----------------------------------------------------------------------------
(* An emission changes the engine's sink and nothing else.                 *)

SameEngine(x, y) ==
  /\ y.orHigh = x.orHigh /\ y.orLow = x.orLow /\ y.orFinal = x.orFinal
  /\ y.entryQty = x.entryQty /\ y.placed = x.placed /\ y.pos = x.pos
  /\ y.done = x.done /\ y.halted = x.halted /\ y.pnl = x.pnl
  /\ y.equity = x.equity /\ y.lastPrice = x.lastPrice /\ y.canceled = x.canceled

(* Emitting changes the sink as the broker says and nothing else.          *)
LEMMA EmitFrame ==
  ASSUME NEW x \in Engine, NEW a, Execute(x.sink, a) \in Broker
  PROVE  /\ Eng!Emit(x, a) \in Engine
         /\ Eng!Emit(x, a).sink = Execute(x.sink, a)
         /\ SameEngine(x, Eng!Emit(x, a))
BY DEF Eng!Emit, Engine, SameEngine

(* Emitting an Alert or a Notify changes nothing.                          *)
LEMMA NeutralEmit ==
  ASSUME NEW x \in Engine, NEW a, a.type \in {"alert", "notify"}
  PROVE  Eng!Emit(x, a) = x
<1>1. Execute(x.sink, a) = x.sink
  BY BrokerNeutral DEF Engine
<1> QED
  BY <1>1 DEF Eng!Emit, Engine

-----------------------------------------------------------------------------
(* Withdrawing the entries.                                                *)

(* Everything of the day but the flag that the entries were cancelled.     *)
SameDay(x, y) ==
  /\ y.orHigh = x.orHigh /\ y.orLow = x.orLow /\ y.orFinal = x.orFinal
  /\ y.entryQty = x.entryQty /\ y.placed = x.placed /\ y.pos = x.pos
  /\ y.done = x.done /\ y.halted = x.halted /\ y.pnl = x.pnl
  /\ y.equity = x.equity /\ y.lastPrice = x.lastPrice

(* Emitting a cancel removes one resting order.                            *)
LEMMA EmitCancel ==
  ASSUME NEW x \in Engine, NEW ref \in Refs
  PROVE  LET y == Eng!Emit(x, Eng!Cancel(ref)) IN
         /\ y \in Engine
         /\ SameEngine(x, y)
         /\ SameAccount(x.sink, y.sink)
         /\ y.sink.working[ref] = None
         /\ \A r \in Refs \ {ref} : y.sink.working[r] = x.sink.working[r]
<1>1. x.sink \in Broker
  BY DEF Engine
<1> QED
  BY <1>1, BrokerCancel, EmitFrame

(* _cancel_unfilled_entries leaves no entry resting.                       *)
LEMMA CancelEntriesCore ==
  ASSUME NEW x, Core(x)
  PROVE  LET y == Eng!CancelEntries(x) IN
         /\ Core(y) /\ NoEntries(y)
         /\ SameDay(x, y)
         /\ y.canceled <=> x.canceled \/ x.placed
         /\ y.sink.last = x.sink.last
<1> x \in Engine
  BY DEF Core
<1>1. CASE x.placed /\ ~x.canceled
  <2> DEFINE x1 == [x EXCEPT !.canceled = TRUE]
             x2 == Eng!Emit(x1, Eng!Cancel("entry_long"))
             y  == Eng!Emit(x2, Eng!Cancel("entry_short"))
  <2>1. /\ x1 \in Engine /\ x1.sink = x.sink
        /\ SameDay(x, x1) /\ x1.canceled
    BY DEF Engine, SameDay
  <2>2. Eng!CancelEntries(x) = y
    BY <1>1 DEF Eng!CancelEntries, Eng!LongEntry, Eng!ShortEntry
  <2> HIDE DEF x1
  <2>3. /\ x2 \in Engine /\ SameEngine(x1, x2) /\ SameAccount(x1.sink, x2.sink)
        /\ x2.sink.working["entry_long"] = None
        /\ x2.sink.working["stop_loss"] = x1.sink.working["stop_loss"]
    BY <2>1, EmitCancel DEF Refs
  <2> HIDE DEF x2
  <2>4. /\ y \in Engine /\ SameEngine(x2, y) /\ SameAccount(x2.sink, y.sink)
        /\ y.sink.working["entry_short"] = None
        /\ y.sink.working["entry_long"] = x2.sink.working["entry_long"]
        /\ y.sink.working["stop_loss"] = x2.sink.working["stop_loss"]
    BY <2>3, EmitCancel DEF Refs
  <2> HIDE DEF y
  <2>5. /\ SameDay(x, y) /\ y.canceled /\ SameAccount(x.sink, y.sink)
        /\ y.sink.working["stop_loss"] = x.sink.working["stop_loss"]
        /\ NoEntries(y)
    BY <2>1, <2>3, <2>4 DEF SameDay, SameEngine, SameAccount, NoEntries
  <2>6. Core(y)
    BY <1>1, <2>4, <2>5 DEF Core, Mirrors, MirrorsWhenFlat, MirrorsWhenOpen, BooksAgree,
       SameDay, SameAccount
  <2> QED
    BY <1>1, <2>2, <2>5, <2>6 DEF SameAccount
<1>2. CASE ~(x.placed /\ ~x.canceled)
  <2>1. Eng!CancelEntries(x) = x
    BY <1>2 DEF Eng!CancelEntries
  <2> QED
    BY <1>2, <2>1 DEF Core, SameDay, Engine
<1> QED
  BY <1>1, <1>2

-----------------------------------------------------------------------------
(* Leaving the market.                                                     *)

SameFrame(x, y) ==
  /\ y.orHigh = x.orHigh /\ y.orLow = x.orLow /\ y.orFinal = x.orFinal
  /\ y.entryQty = x.entryQty /\ y.placed = x.placed
  /\ y.equity = x.equity /\ y.lastPrice = x.lastPrice
  /\ y.sink.last = x.sink.last

SameFlags(x, y) ==
  y.done = x.done /\ y.halted = x.halted /\ y.canceled = x.canceled

SameEntryOrders(x, y) ==
  /\ y.sink.working["entry_long"] = x.sink.working["entry_long"]
  /\ y.sink.working["entry_short"] = x.sink.working["entry_short"]

(* The engine and the broker compute the same P&L.                         *)
LEMMA PnlIsInt ==
  ASSUME NEW p \in Position, NEW price \in Int, NEW qty \in Nat
  PROVE  /\ Eng!PnlUsd(p, price, qty) \in Int
         /\ Eng!PnlUsd(p, price, qty) = Signed(p.side, p.entry, price) * qty * PointValue
<1>1. /\ Signed(p.side, p.entry, price) \in Int
      /\ Eng!Signed(p.side, p.entry, price) = Signed(p.side, p.entry, price)
  BY SignedIsInt DEF Position
<1> QED
  BY <1>1, SafetyAssumption DEF Eng!PnlUsd

(* Closing out at the last price leaves a flat account and agreeing books. *)
LEMMA CloseOutCore ==
  ASSUME NEW x, Core(x), x.pos # None, x.sink.last # None
  PROVE  LET y == Eng!CloseOut(x, x.sink.last) IN
         /\ Core(y) /\ y.pos = None
         /\ SameFrame(x, y) /\ SameFlags(x, y) /\ SameEntryOrders(x, y)
<1> DEFINE q  == x.pos.runnerQty
           g  == Eng!PnlUsd(x.pos, x.sink.last, q)
           x1 == [x EXCEPT !.pnl = @ + g]
           x2 == Eng!Emit(x1, Eng!CloseMarket(q))
           x3 == Eng!Emit(x2, Eng!Cancel("stop_loss"))
           y  == [x3 EXCEPT !.pos = None]
<1>1. /\ x \in Engine /\ x.pos \in Position /\ q \in Nat
      /\ x.sink \in Broker /\ x.sink.last \in Int /\ x.pnl \in Int
      /\ MirrorsWhenOpen(x)
  BY DEF Core, Engine, Broker, Position, Mirrors
<1>2. g \in Int /\ g = Signed(x.pos.side, x.pos.entry, x.sink.last) * q * PointValue
  BY <1>1, PnlIsInt
<1>3. /\ x1 \in Engine /\ x1.pnl = x.pnl + g /\ x1.sink = x.sink /\ x1.pos = x.pos
      /\ SameFrame(x, x1) /\ SameFlags(x, x1)
  BY <1>1, <1>2 DEF Engine, SameFrame, SameFlags
<1>4. Eng!CloseOut(x, x.sink.last) = [Eng!Emit(x3, Eng!Notify("exit")) EXCEPT !.pos = None]
  BY DEF Eng!CloseOut, Eng!StopLoss
<1> HIDE DEF x1
<1>5. /\ x1.sink.side # None /\ x1.sink.entry # None /\ x1.sink.last # None
      /\ x1.sink.side = x.pos.side /\ x1.sink.entry = x.pos.entry /\ x1.sink.qty = q
  BY <1>1, <1>3, NoneAssumption DEF MirrorsWhenOpen, Position, Sides
<1>6. /\ x2 \in Engine /\ SameEngine(x1, x2)
      /\ x2.sink.last = x1.sink.last /\ x2.sink.working = x1.sink.working
      /\ x2.sink.equity = x1.sink.equity + g
      /\ x2.sink.qty = 0 /\ x2.sink.side = None /\ x2.sink.entry = None
  <2>1. LET c == Execute(x1.sink, Eng!CloseMarket(q)) IN
        /\ c \in Broker
        /\ c.last = x1.sink.last /\ c.working = x1.sink.working
        /\ c.equity = x1.sink.equity + g
        /\ c.qty = 0 /\ c.side = None /\ c.entry = None
    BY <1>1, <1>2, <1>3, <1>5, BrokerClose
  <2> QED
    BY <1>3, <2>1, EmitFrame
<1> HIDE DEF x2
<1>7. /\ x3 \in Engine /\ SameEngine(x2, x3) /\ SameAccount(x2.sink, x3.sink)
      /\ x3.sink.working["stop_loss"] = None
      /\ SameEntryOrders(x2, x3)
  BY <1>6, EmitCancel DEF Refs, SameEntryOrders
<1> HIDE DEF x3
<1>8. Eng!CloseOut(x, x.sink.last) = y
  BY <1>4, <1>7, NeutralEmit DEF Eng!Notify
<1>9. /\ y \in Engine /\ y.pos = None /\ y.sink = x3.sink
      /\ y.pnl = x3.pnl /\ SameFrame(x3, y) /\ SameFlags(x3, y)
  BY <1>7 DEF Engine, SameFrame, SameFlags
<1> HIDE DEF y
<1>10. /\ SameFrame(x, y) /\ SameFlags(x, y) /\ SameEntryOrders(x, y)
       /\ y.pnl = x.pnl + g /\ y.sink.equity = x.sink.equity + g
       /\ MirrorsWhenFlat(y)
  BY <1>3, <1>6, <1>7, <1>9 DEF SameFrame, SameFlags, SameEntryOrders, SameEngine,
     SameAccount, MirrorsWhenFlat
<1> HIDE DEF g
<1>11. BooksAgree(y)
  BY <1>1, <1>2, <1>10, ReplayAssumption DEF Core, BooksAgree
<1>12. Core(y)
  BY <1>9, <1>10, <1>11 DEF Core, Mirrors, SameFrame, SameFlags, SameEntryOrders, NoEntries
<1> QED
  BY <1>8, <1>9, <1>10, <1>12

-----------------------------------------------------------------------------
(* The loss limit.                                                         *)

(* Whatever the engine closes at, it closes at the broker's last price.    *)
Priced(x) == x.pos # None => x.lastPrice # None /\ x.lastPrice = x.sink.last

(* The loss limit looks at the P&L and the equity only.                    *)
LEMMA SameMoney ==
  ASSUME NEW x, NEW y, y.pnl = x.pnl, y.equity = x.equity
  PROVE  Eng!LossLimitReached(y) = Eng!LossLimitReached(x)
BY DEF Eng!LossLimitReached

(* _check_daily_loss_limit restores the limit, whatever it closes.         *)
LEMMA CheckDailyLossLimitSound ==
  ASSUME NEW x, Orderly(x), Priced(x)
  PROVE  LET y == Eng!CheckDailyLossLimit(x) IN
         /\ Sound(y) /\ SameFrame(x, y)
         /\ x.done => y.done
         /\ y.pos # None => y.pos = x.pos
<1>1. CASE x.halted \/ ~Eng!LossLimitReached(x)
  <2>1. Eng!CheckDailyLossLimit(x) = x
    BY <1>1 DEF Eng!CheckDailyLossLimit
  <2> QED
    BY <1>1, <2>1 DEF Sound, Orderly, LimitEnforced, SameFrame
<1>2. CASE ~(x.halted \/ ~Eng!LossLimitReached(x))
  <2> DEFINE x1 == [x EXCEPT !.halted = TRUE, !.done = TRUE]
             x2 == IF x.pos # None THEN Eng!CloseOut(x1, x1.sink.last) ELSE x1
             y  == Eng!CancelEntries(x2)
  <2>1. /\ Core(x1) /\ x1.halted /\ x1.done /\ x1.pos = x.pos /\ x1.sink = x.sink
        /\ SameFrame(x, x1) /\ x1 \in Engine
    <3>1. x \in Engine /\ Core(x)
      BY DEF Orderly, Core
    <3>2. /\ x1 \in Engine /\ SameFrame(x, x1) /\ x1.halted /\ x1.done
          /\ x1.pos = x.pos /\ x1.sink = x.sink /\ x1.pnl = x.pnl /\ x1.canceled = x.canceled
      BY <3>1 DEF Engine, SameFrame
    <3> HIDE DEF x1
    <3>3. Core(x1)
      BY <3>1, <3>2 DEF Core, Mirrors, MirrorsWhenFlat, MirrorsWhenOpen, BooksAgree,
         NoEntries, SameFrame
    <3> QED
      BY <3>2, <3>3
  <2>2. Eng!Emit(x1, Eng!Alert) = x1
    BY <2>1, NeutralEmit DEF Eng!Alert
  <2>3. x.pos # None => Eng!RefPrice(x) = x1.sink.last
    BY <2>1 DEF Priced, Eng!RefPrice
  <2>4. Eng!CheckDailyLossLimit(x) = Eng!Emit(y, Eng!Notify("halt"))
    BY <1>2, <2>2, <2>3 DEF Eng!CheckDailyLossLimit
  <2> HIDE DEF x1
  <2>5. /\ Core(x2) /\ x2.pos = None /\ x2.halted /\ x2.done
        /\ SameFrame(x1, x2)
    <3>1. CASE x.pos = None
      BY <3>1, <2>1 DEF SameFrame
    <3>2. CASE x.pos # None
      BY <3>2, <2>1, CloseOutCore DEF Priced, SameFlags
    <3> QED
      BY <3>1, <3>2
  <2> HIDE DEF x2
  <2>6. /\ Core(y) /\ NoEntries(y) /\ SameDay(x2, y) /\ y.sink.last = x2.sink.last
    BY <2>5, CancelEntriesCore
  <2> HIDE DEF y
  <2>7. Eng!CheckDailyLossLimit(x) = y
    BY <2>4, <2>6, NeutralEmit DEF Eng!Notify, Core
  <2>8. y.done /\ y.halted /\ y.pos = None /\ SameFrame(x, y)
    BY <2>1, <2>5, <2>6 DEF SameFrame, SameDay
  <2>9. Sound(y)
    BY <2>6, <2>8 DEF Sound, Orderly, LimitEnforced, EntriesRest, NoEntries
  <2> QED
    BY <2>7, <2>8, <2>9
<1> QED
  BY <1>1, <1>2

(* _exit_position_market ends flat and within the limit.                   *)
LEMMA ExitPositionMarketSound ==
  ASSUME NEW x, Orderly(x), x.pos # None, Priced(x)
  PROVE  LET y == Eng!ExitPositionMarket(x, x.sink.last) IN
         Sound(y) /\ SameFrame(x, y) /\ y.pos = None /\ y.done
<1> DEFINE c == Eng!CloseOut(x, x.sink.last)
<1>1. /\ Core(c) /\ c.pos = None
      /\ SameFrame(x, c) /\ SameFlags(x, c) /\ SameEntryOrders(x, c)
  BY CloseOutCore DEF Orderly, Priced
<1>2. Eng!ExitPositionMarket(x, x.sink.last) = Eng!CheckDailyLossLimit(c)
  BY DEF Eng!ExitPositionMarket
<1> HIDE DEF c
<1>3. Orderly(c) /\ Priced(c) /\ c.done
  BY <1>1 DEF Orderly, Priced, SameFrame, SameFlags, SameEntryOrders, EntriesRest,
     LongOrder, ShortOrder
<1>4. LET y == Eng!CheckDailyLossLimit(c) IN
      Sound(y) /\ SameFrame(c, y) /\ (y.pos # None => y.pos = c.pos) /\ y.done
  BY <1>3, CheckDailyLossLimitSound
<1> QED
  BY <1>1, <1>2, <1>4 DEF SameFrame

-----------------------------------------------------------------------------
(* Moving the stop and the flags of the position.                          *)

(* Of the trade, y holds what x held or less of it, and a day that is over *)
(* is not begun again.                                                     *)
Reduces(x, y) ==
  /\ x.done => y.done
  /\ y.pos # None => /\ x.pos # None /\ y.pos.side = x.pos.side
                     /\ y.pos.runnerQty <= x.pos.runnerQty

(* y is sound, differs from x in its position and flags only, and whatever *)
(* it closes at is still the broker's price.                               *)
Managed(x, y) == Sound(y) /\ SameFrame(x, y) /\ Priced(y) /\ Reduces(x, y)

(* A reduced trade that is reduced again is reduced.                       *)
LEMMA ReducesTransitive ==
  ASSUME NEW x, NEW y, NEW z, Sound(x), Sound(y), Sound(z), Reduces(x, y), Reduces(y, z)
  PROVE  Reduces(x, z)
<1>1. /\ x.pos # None => x.pos.runnerQty \in Nat
      /\ y.pos # None => y.pos.runnerQty \in Nat
      /\ z.pos # None => z.pos.runnerQty \in Nat
  BY DEF Sound, Orderly, Core, Engine, Position
<1> QED
  BY <1>1 DEF Reduces

(* What did not change is reduced.                                         *)
LEMMA ReducesReflexive ==
  ASSUME NEW x, Sound(x)
  PROVE  Reduces(x, x)
<1>1. x.pos # None => x.pos.runnerQty \in Nat
  BY DEF Sound, Orderly, Core, Engine, Position
<1> QED
  BY <1>1 DEF Reduces

(* Managed steps compose.                                                  *)
LEMMA ManagedTransitive ==
  ASSUME NEW x, NEW y, NEW z, Sound(x), Managed(x, y), Managed(y, z)
  PROVE  Managed(x, z)
<1>1. Reduces(x, z)
  BY ReducesTransitive DEF Managed
<1> QED
  BY <1>1 DEF Managed, SameFrame

(* Doing nothing is a managed step.                                        *)
LEMMA ManagedReflexive ==
  ASSUME NEW x, Sound(x), Priced(x)
  PROVE  Managed(x, x)
BY ReducesReflexive DEF Managed, SameFrame

(* A position is replaced by one with the same side, entry, size and stop. *)
LEMMA RemarkPosition ==
  ASSUME NEW x, Sound(x), Priced(x), x.pos # None,
         NEW p \in Position, p.side = x.pos.side, p.entry = x.pos.entry, p.stop = x.pos.stop,
         p.runnerQty = x.pos.runnerQty, ~p.tp1 => p.runnerQty = p.qty
  PROVE  LET y == [x EXCEPT !.pos = p] IN Managed(x, y) /\ y.pos # None
<1> DEFINE y == [x EXCEPT !.pos = p]
<1>1. x \in Engine /\ p # None
  BY OptionalAssumption DEF Sound, Orderly, Core
<1>2. /\ y \in Engine /\ y.pos = p /\ y.sink = x.sink /\ y.pnl = x.pnl
      /\ SameFrame(x, y) /\ SameFlags(x, y)
  BY <1>1 DEF Engine, SameFrame, SameFlags
<1> HIDE DEF y
<1>3. MirrorsWhenOpen(x)
  BY DEF Sound, Orderly, Core, Mirrors
<1>4. Mirrors(y)
  BY <1>1, <1>2, <1>3 DEF Mirrors, MirrorsWhenOpen
<1>5. Core(y)
  BY <1>1, <1>2, <1>4 DEF Sound, Orderly, Core, BooksAgree, SameFrame, SameFlags, NoEntries
<1>6. Orderly(y)
  BY <1>2, <1>5 DEF Sound, Orderly, SameFrame, SameFlags, EntriesRest, LongOrder, ShortOrder
<1>7. LimitEnforced(y)
  BY <1>2, SameMoney DEF Sound, LimitEnforced, SameFrame, SameFlags
<1>8. Reduces(x, y)
  BY <1>2 DEF Reduces, SameFlags, Position
<1> QED
  BY <1>1, <1>2, <1>6, <1>7, <1>8 DEF Managed, Sound, Priced, SameFrame, y

(* Moving the stop moves the resting order with it.                        *)
LEMMA MoveStopSound ==
  ASSUME NEW x, Sound(x), Priced(x), x.pos # None, NEW c \in Int
  PROVE  LET y == Eng!Emit([x EXCEPT !.pos.stop = c], Eng!ModifyPrice(c)) IN
         Managed(x, y) /\ y.pos # None
<1> DEFINE p  == [x.pos EXCEPT !.stop = c]
           x1 == [x EXCEPT !.pos.stop = c]
           y  == Eng!Emit(x1, Eng!ModifyPrice(c))
<1>1. /\ x \in Engine /\ x.pos \in Position /\ MirrorsWhenOpen(x) /\ x.sink \in Broker
      /\ x.pos.runnerQty > 0
  BY DEF Sound, Orderly, Core, Engine, Mirrors
<1>2. /\ p \in Position /\ p # None /\ p.stop = c
      /\ p.side = x.pos.side /\ p.entry = x.pos.entry /\ p.runnerQty = x.pos.runnerQty
      /\ p.qty = x.pos.qty /\ p.tp1 = x.pos.tp1
  BY <1>1, OptionalAssumption DEF Position
<1>3. /\ x1 \in Engine /\ x1.pos = p /\ x1.sink = x.sink /\ x1.pnl = x.pnl
      /\ SameFrame(x, x1) /\ SameFlags(x, x1)
  BY <1>1, <1>2 DEF Engine, SameFrame, SameFlags
<1> HIDE DEF p, x1
<1>4. x1.sink.working["stop_loss"] \in StopOrder
  <2>1. [side |-> Opposite(x.pos.side), price |-> x.pos.stop, qty |-> x.pos.runnerQty]
          \in StopOrder
    BY <1>1 DEF StopOrder, Position, Sides, Opposite
  <2> QED
    BY <1>1, <1>3, <2>1 DEF MirrorsWhenOpen
<1>5. LET d == Execute(x1.sink, Eng!ModifyPrice(c)) IN
      /\ d \in Broker
      /\ SameAccount(x1.sink, d)
      /\ d.working["stop_loss"] = [x1.sink.working["stop_loss"] EXCEPT !.price = c]
      /\ \A r \in Refs \ {"stop_loss"} : d.working[r] = x1.sink.working[r]
  BY <1>1, <1>3, <1>4, BrokerModifyPrice, OptionalAssumption
<1>6. /\ y \in Engine /\ SameEngine(x1, y) /\ SameAccount(x1.sink, y.sink)
      /\ y.sink.working["stop_loss"] = [x1.sink.working["stop_loss"] EXCEPT !.price = c]
      /\ SameEntryOrders(x1, y)
  BY <1>3, <1>5, EmitFrame DEF Refs, SameEntryOrders
<1> HIDE DEF y
<1>7. /\ y.pos = p /\ y.pnl = x.pnl
      /\ SameFrame(x, y) /\ SameFlags(x, y) /\ SameEntryOrders(x, y)
      /\ SameAccount(x.sink, y.sink)
  BY <1>3, <1>6 DEF SameFrame, SameFlags, SameEngine, SameAccount, SameEntryOrders
<1>8. Mirrors(y)
  BY <1>1, <1>2, <1>3, <1>6, <1>7 DEF Mirrors, MirrorsWhenOpen, SameAccount
<1>9. Core(y)
  BY <1>2, <1>6, <1>7, <1>8 DEF Sound, Orderly, Core, BooksAgree, SameFrame, SameFlags,
     SameEntryOrders, SameAccount, NoEntries
<1>10. Orderly(y)
  BY <1>7, <1>9 DEF Sound, Orderly, SameFrame, SameFlags, SameEntryOrders, EntriesRest,
     LongOrder, ShortOrder
<1>11. LimitEnforced(y)
  BY <1>7, SameMoney DEF Sound, LimitEnforced, SameFrame, SameFlags
<1>12. Reduces(x, y)
  BY <1>1, <1>2, <1>7 DEF Reduces, SameFlags, Position
<1> QED
  BY <1>2, <1>7, <1>10, <1>11, <1>12 DEF Managed, Sound, Priced, SameFrame, y, x1

(* _ratchet_stop keeps the account in step.                                *)
LEMMA RatchetStopSound ==
  ASSUME NEW x, Sound(x), Priced(x), x.pos # None, NEW c \in Int
  PROVE  LET y == Eng!RatchetStop(x, c) IN Managed(x, y) /\ y.pos # None
BY MoveStopSound, ManagedReflexive DEF Eng!RatchetStop

(* The breakeven move keeps the account in step.                           *)
LEMMA MoveToBreakevenSound ==
  ASSUME NEW x, Sound(x), Priced(x), x.pos # None, NEW price
  PROVE  LET y == Eng!MoveToBreakeven(x, price) IN Managed(x, y) /\ y.pos # None
<1> DEFINE p  == [x.pos EXCEPT !.beMoved = TRUE]
           x1 == [x EXCEPT !.pos.beMoved = TRUE]
<1>1. x \in Engine /\ x.pos \in Position
  BY DEF Sound, Orderly, Core, Engine
<1>2. /\ p \in Position /\ p.side = x.pos.side /\ p.entry = x.pos.entry /\ p.stop = x.pos.stop
      /\ p.runnerQty = x.pos.runnerQty /\ p.qty = x.pos.qty /\ p.tp1 = x.pos.tp1
  BY <1>1 DEF Position
<1>3. x1 = [x EXCEPT !.pos = p]
  BY <1>1 DEF Engine
<1>4. Managed(x, x1) /\ x1.pos # None
  <2> HIDE DEF p, x1
  <2>1. ~p.tp1 => p.runnerQty = p.qty
    BY <1>2 DEF Sound, Orderly, Core
  <2> QED
    BY <1>2, <1>3, <2>1, RemarkPosition
<1>5. x.pos.entry \in Int
  BY <1>1 DEF Position
<1> HIDE DEF x1
<1>6. LET y == Eng!RatchetStop(x1, x.pos.entry) IN Managed(x, y) /\ y.pos # None
  BY <1>4, <1>5, RatchetStopSound, ManagedTransitive DEF Managed
<1> QED
  BY <1>6, ManagedReflexive DEF Eng!MoveToBreakeven, x1

-----------------------------------------------------------------------------
(* TP1.                                                                    *)

(* TP1 closes between none and all of the contracts.                       *)
LEMMA Tp1CloseQtyBounds ==
  ASSUME NEW p \in Position
  PROVE  Eng!Tp1CloseQty(p) \in Nat /\ Eng!Tp1CloseQty(p) <= p.qty
<1> DEFINE n == p.qty * Tp1ClosePct
<1>1. n \in Nat /\ n <= p.qty * 100
  BY ExitsAssumption DEF Position
<1>2. Eng!Tp1CloseQty(p) = n \div 100
  BY DEF Eng!Tp1CloseQty
<1> HIDE DEF n
<1> QED
  BY <1>1, <1>2 DEF Position

(* The engine after TP1 is marked on its position.                         *)
Marked(x) ==
  [x EXCEPT !.pos.tp1 = TRUE, !.pos.runnerQty = x.pos.qty - Eng!Tp1CloseQty(x.pos)]

(* ... and, when contracts are closed, after their P&L is booked.          *)
Booked(x) ==
  [Marked(x) EXCEPT !.pnl = @ + Eng!PnlUsd(x.pos, x.sink.last, Eng!Tp1CloseQty(x.pos))]

(* TP1's market close, before the stop is sized down or cancelled.         *)
LEMMA Tp1Closed ==
  ASSUME NEW x, Sound(x), Priced(x), x.pos # None, ~x.pos.tp1
  PROVE  LET q    == Eng!Tp1CloseQty(x.pos)
             left == x.pos.qty - q
             g    == Eng!PnlUsd(x.pos, x.sink.last, q)
             y    == Eng!Emit(Booked(x), Eng!CloseMarket(q)) IN
         /\ y \in Engine /\ SameFrame(x, y) /\ SameFlags(x, y)
         /\ y.pnl = x.pnl + g /\ y.sink.equity = x.sink.equity + g /\ g \in Int
         /\ y.pos # None /\ y.pos.tp1 /\ y.pos.runnerQty = left
         /\ y.pos.side = x.pos.side /\ y.pos.entry = x.pos.entry /\ y.pos.stop = x.pos.stop
         /\ y.sink.working = x.sink.working
         /\ IF left = 0
            THEN y.sink.qty = 0 /\ y.sink.side = None /\ y.sink.entry = None
            ELSE y.sink.qty = left /\ y.sink.side = x.pos.side /\ y.sink.entry = x.pos.entry
<1> DEFINE q    == Eng!Tp1CloseQty(x.pos)
           left == x.pos.qty - q
           g    == Eng!PnlUsd(x.pos, x.sink.last, q)
           p    == [x.pos EXCEPT !.tp1 = TRUE, !.runnerQty = left]
           x0   == [x EXCEPT !.pos = p]
           x1   == Booked(x)
           y    == Eng!Emit(x1, Eng!CloseMarket(q))
<1>1. /\ x \in Engine /\ x.pos \in Position /\ x.sink \in Broker /\ x.pnl \in Int
      /\ MirrorsWhenOpen(x) /\ x.pos.runnerQty = x.pos.qty
      /\ x.sink.last # None /\ x.sink.last \in Int
  BY DEF Sound, Orderly, Core, Engine, Broker, Mirrors, Priced
<1>2. q \in Nat /\ left \in Nat
  BY <1>1, Tp1CloseQtyBounds DEF Position
<1>3. g \in Int /\ g = Signed(x.pos.side, x.pos.entry, x.sink.last) * q * PointValue
  BY <1>1, <1>2, PnlIsInt
<1> HIDE DEF q, left, g
<1>4. /\ p \in Position /\ p # None /\ p.tp1 /\ p.runnerQty = left
      /\ p.side = x.pos.side /\ p.entry = x.pos.entry /\ p.stop = x.pos.stop
  <2>1. x.pos \in Position /\ left \in Nat
    BY <1>1, <1>2
  <2>2. /\ p \in Position /\ p.tp1 /\ p.runnerQty = left
        /\ p.side = x.pos.side /\ p.entry = x.pos.entry /\ p.stop = x.pos.stop
    BY <2>1 DEF Position
  <2> QED
    BY <2>2, OptionalAssumption
<1>5. x1 = [x0 EXCEPT !.pnl = x.pnl + g]
  <2>1. Marked(x) = x0
    <3>1. x.pos \in Position /\ x \in Engine
      BY <1>1
    <3> QED
      BY <3>1 DEF Marked, left, q
  <2>2. Marked(x).pnl = x.pnl
    BY <1>1, <2>1 DEF Engine
  <2> QED
    BY <2>1, <2>2 DEF Booked, g, q
<1> HIDE DEF p, x1
<1>5a. x0 \in Engine /\ x0.pos = p /\ x0.sink = x.sink /\ SameFrame(x, x0) /\ SameFlags(x, x0)
  BY <1>1, <1>4 DEF Engine, SameFrame, SameFlags
<1> HIDE DEF x0
<1>6. /\ x1 \in Engine /\ x1.pos = p /\ x1.pnl = x.pnl + g /\ x1.sink = x.sink
      /\ SameFrame(x, x1) /\ SameFlags(x, x1)
  <2>1. x.pnl + g \in Int
    BY <1>1, <1>3
  <2> QED
    BY <1>5, <1>5a, <2>1 DEF Engine, SameFrame, SameFlags
<1>7. /\ x.sink.side # None /\ x.sink.entry # None
      /\ x.sink.side = x.pos.side /\ x.sink.entry = x.pos.entry /\ x.sink.qty = x.pos.qty
  BY <1>1, NoneAssumption DEF MirrorsWhenOpen, Position, Sides
<1>8. LET c == Execute(x.sink, Eng!CloseMarket(q)) IN
      /\ c \in Broker
      /\ c.last = x.sink.last /\ c.working = x.sink.working /\ c.equity = x.sink.equity + g
      /\ IF left = 0
         THEN c.qty = 0 /\ c.side = None /\ c.entry = None
         ELSE c.qty = left /\ c.side = x.pos.side /\ c.entry = x.pos.entry
  BY <1>1, <1>2, <1>3, <1>7, BrokerClose DEF left
<1>9. y \in Engine /\ y.sink = Execute(x.sink, Eng!CloseMarket(q)) /\ SameEngine(x1, y)
  BY <1>6, <1>8, EmitFrame
<1> HIDE DEF y
<1>10. SameFrame(x, y) /\ SameFlags(x, y) /\ y.pos = p /\ y.pnl = x.pnl + g
  BY <1>6, <1>8, <1>9 DEF SameFrame, SameFlags, SameEngine
<1>11. /\ y.sink.working = x.sink.working /\ y.sink.equity = x.sink.equity + g
       /\ IF left = 0
          THEN y.sink.qty = 0 /\ y.sink.side = None /\ y.sink.entry = None
          ELSE y.sink.qty = left /\ y.sink.side = x.pos.side /\ y.sink.entry = x.pos.entry
  BY <1>8, <1>9
<1> QED
  BY <1>3, <1>4, <1>9, <1>10, <1>11 DEF y, x1, q, left, g

(* Nothing is closed: the position is only marked.                         *)
LEMMA Tp1WithoutClose ==
  ASSUME NEW x, Sound(x), Priced(x), x.pos # None, ~x.pos.tp1, Eng!Tp1CloseQty(x.pos) = 0
  PROVE  Managed(x, Eng!HandleTp1(x, x.sink.last))
<1> DEFINE p == [x.pos EXCEPT !.tp1 = TRUE]
           y == [x EXCEPT !.pos = p]
<1>1. /\ x \in Engine /\ x.pos \in Position /\ x.pos.runnerQty = x.pos.qty /\ x.pos.qty > 0
  BY DEF Sound, Orderly, Core, Engine
<1>2. /\ p \in Position /\ p.tp1 /\ p.side = x.pos.side /\ p.entry = x.pos.entry
      /\ p.stop = x.pos.stop /\ p.runnerQty = x.pos.runnerQty
  BY <1>1 DEF Position
<1>3. Marked(x) = y
  <2>1. x.pos.qty - Eng!Tp1CloseQty(x.pos) = x.pos.runnerQty
    BY <1>1 DEF Position
  <2>2. [x.pos EXCEPT !.tp1 = TRUE, !.runnerQty = x.pos.runnerQty] = p
    BY <1>1 DEF Position
  <2> QED
    BY <1>1, <2>1, <2>2 DEF Marked, Engine
<1> HIDE DEF p
<1>4. Managed(x, y) /\ y.pos # None /\ y \in Engine
  <2>1. Managed(x, y) /\ y.pos # None
    BY <1>2, RemarkPosition
  <2> QED
    BY <2>1 DEF Managed, Sound, Orderly, Core
<1>5. Eng!HandleTp1(x, x.sink.last) =
        Eng!CheckDailyLossLimit(Eng!Emit(Eng!Emit(Marked(x), Eng!Alert), Eng!Notify("tp1")))
  BY <1>1 DEF Eng!HandleTp1, Marked, Position
<1> HIDE DEF y
<1>6. Eng!HandleTp1(x, x.sink.last) = Eng!CheckDailyLossLimit(y)
  BY <1>3, <1>4, <1>5, NeutralEmit DEF Eng!Alert, Eng!Notify
<1>7. LET z == Eng!CheckDailyLossLimit(y) IN
      Sound(z) /\ SameFrame(y, z) /\ (y.done => z.done) /\ (z.pos # None => z.pos = y.pos)
  BY <1>4, CheckDailyLossLimitSound DEF Managed, Sound
<1>8. Managed(y, Eng!CheckDailyLossLimit(y))
  <2>1. Reduces(y, y)
    BY <1>4, ReducesReflexive DEF Managed
  <2> QED
    BY <1>4, <1>7, <2>1 DEF Managed, Priced, SameFrame, Reduces
<1> QED
  BY <1>4, <1>6, <1>8, ManagedTransitive

(* Some contracts are closed and the stop is sized down to the rest.       *)
LEMMA Tp1Partial ==
  ASSUME NEW x, Sound(x), Priced(x), x.pos # None, ~x.pos.tp1,
         Eng!Tp1CloseQty(x.pos) > 0, Eng!Tp1CloseQty(x.pos) < x.pos.qty
  PROVE  Managed(x, Eng!HandleTp1(x, x.sink.last))
<1> DEFINE q    == Eng!Tp1CloseQty(x.pos)
           left == x.pos.qty - q
           g    == Eng!PnlUsd(x.pos, x.sink.last, q)
           x2   == Eng!Emit(Booked(x), Eng!CloseMarket(q))
           y    == Eng!Emit(x2, Eng!ModifyQty(left))
<1>1. /\ x \in Engine /\ x.pos \in Position /\ x.sink \in Broker /\ x.pnl \in Int
      /\ MirrorsWhenOpen(x) /\ x.placed /\ x.done /\ x.pos.runnerQty > 0
  BY DEF Sound, Orderly, Core, Engine, Mirrors
<1>2. q \in Nat /\ left \in Nat \ {0}
  BY <1>1, Tp1CloseQtyBounds DEF Position
<1>3. /\ x2 \in Engine /\ SameFrame(x, x2) /\ SameFlags(x, x2)
      /\ x2.pnl = x.pnl + g /\ x2.sink.equity = x.sink.equity + g /\ g \in Int
      /\ x2.pos # None /\ x2.pos.tp1 /\ x2.pos.runnerQty = left
      /\ x2.pos.side = x.pos.side /\ x2.pos.entry = x.pos.entry /\ x2.pos.stop = x.pos.stop
      /\ x2.sink.working = x.sink.working
      /\ x2.sink.qty = left /\ x2.sink.side = x.pos.side /\ x2.sink.entry = x.pos.entry
  BY <1>2, Tp1Closed
<1>4. Eng!HandleTp1(x, x.sink.last) =
        Eng!CheckDailyLossLimit(Eng!Emit(y, Eng!Notify("tp1")))
  BY <1>2 DEF Eng!HandleTp1, Booked, Marked
<1> HIDE DEF q, left, g, x2
<1>5. x2.sink.working["stop_loss"] =
        [side |-> Opposite(x.pos.side), price |-> x.pos.stop, qty |-> x.pos.runnerQty]
  BY <1>1, <1>3 DEF MirrorsWhenOpen
<1>6. x2.sink.working["stop_loss"] \in StopOrder
  BY <1>1, <1>5 DEF StopOrder, Position, Sides, Opposite
<1>7. LET d == Execute(x2.sink, Eng!ModifyQty(left)) IN
      /\ d \in Broker
      /\ SameAccount(x2.sink, d)
      /\ d.working["stop_loss"] = [x2.sink.working["stop_loss"] EXCEPT !.qty = left]
      /\ \A r \in Refs \ {"stop_loss"} : d.working[r] = x2.sink.working[r]
  <2>1. x2.sink \in Broker
    BY <1>3 DEF Engine
  <2> QED
    BY <1>2, <1>6, <2>1, BrokerModifyQty, OptionalAssumption
<1>8. /\ y \in Engine /\ SameEngine(x2, y) /\ SameAccount(x2.sink, y.sink)
      /\ y.sink.working["stop_loss"] = [x2.sink.working["stop_loss"] EXCEPT !.qty = left]
      /\ SameEntryOrders(x2, y)
  BY <1>3, <1>7, EmitFrame DEF Refs, SameEntryOrders
<1> HIDE DEF y
<1>9. /\ y.sink.working["stop_loss"] =
           [side |-> Opposite(x.pos.side), price |-> x.pos.stop, qty |-> left]
      /\ SameEntryOrders(x, y) /\ SameFrame(x, y) /\ SameFlags(x, y)
      /\ y.pos = x2.pos /\ y.pnl = x.pnl + g /\ y.sink.equity = x.sink.equity + g
  BY <1>3, <1>5, <1>8 DEF SameEntryOrders, SameFrame, SameFlags, SameEngine, SameAccount
<1>10. Mirrors(y)
  BY <1>3, <1>8, <1>9 DEF Mirrors, MirrorsWhenOpen, SameAccount
<1>11. BooksAgree(y)
  BY <1>1, <1>3, <1>9, ReplayAssumption DEF Sound, Orderly, Core, BooksAgree, Broker
<1>12. Core(y)
  BY <1>1, <1>2, <1>3, <1>8, <1>9, <1>10, <1>11 DEF Sound, Orderly, Core, SameFrame, SameFlags,
     SameEntryOrders, NoEntries
<1>13. Orderly(y) /\ Priced(y)
  BY <1>1, <1>9, <1>12 DEF Sound, Orderly, Priced, SameFrame, SameFlags, SameEntryOrders,
     EntriesRest, LongOrder, ShortOrder
<1>14. Eng!HandleTp1(x, x.sink.last) = Eng!CheckDailyLossLimit(y)
  BY <1>4, <1>8, NeutralEmit DEF Eng!Notify
<1>15. LET z == Eng!CheckDailyLossLimit(y) IN
       Sound(z) /\ SameFrame(y, z) /\ (y.done => z.done) /\ (z.pos # None => z.pos = y.pos)
  BY <1>13, CheckDailyLossLimitSound
<1>16. Reduces(x, Eng!CheckDailyLossLimit(y))
  <2>1. left <= x.pos.runnerQty
    BY <1>1, <1>2 DEF left, q, Sound, Orderly, Core, Position
  <2>2. y.done /\ y.pos.side = x.pos.side /\ y.pos.runnerQty = left
    BY <1>1, <1>3, <1>9 DEF SameFlags
  <2> QED
    BY <1>15, <2>1, <2>2 DEF Reduces
<1> QED
  BY <1>9, <1>13, <1>14, <1>15, <1>16 DEF Managed, Priced, SameFrame

(* Every contract is closed: the stop is cancelled and the day is flat.    *)
LEMMA Tp1Full ==
  ASSUME NEW x, Sound(x), Priced(x), x.pos # None, ~x.pos.tp1,
         Eng!Tp1CloseQty(x.pos) = x.pos.qty
  PROVE  Managed(x, Eng!HandleTp1(x, x.sink.last))
<1> DEFINE q    == Eng!Tp1CloseQty(x.pos)
           left == x.pos.qty - q
           g    == Eng!PnlUsd(x.pos, x.sink.last, q)
           x2   == Eng!Emit(Booked(x), Eng!CloseMarket(q))
           x3   == Eng!Emit(x2, Eng!Cancel("stop_loss"))
           y    == [x3 EXCEPT !.pos = None]
<1>1. /\ x \in Engine /\ x.pos \in Position /\ x.sink \in Broker /\ x.pnl \in Int
      /\ x.placed /\ x.done /\ x.pos.runnerQty > 0
  BY DEF Sound, Orderly, Core, Engine
<1>2. q \in Nat /\ q > 0 /\ left = 0
  BY <1>1, Tp1CloseQtyBounds DEF Position
<1>3. /\ x2 \in Engine /\ SameFrame(x, x2) /\ SameFlags(x, x2)
      /\ x2.pnl = x.pnl + g /\ x2.sink.equity = x.sink.equity + g /\ g \in Int
      /\ x2.sink.working = x.sink.working
      /\ x2.sink.qty = 0 /\ x2.sink.side = None /\ x2.sink.entry = None
  BY <1>2, Tp1Closed
<1>4. Eng!HandleTp1(x, x.sink.last) =
        Eng!CheckDailyLossLimit([Eng!Emit(x3, Eng!Notify("tp1")) EXCEPT !.pos = None])
  BY <1>2 DEF Eng!HandleTp1, Booked, Marked, Eng!StopLoss
<1> HIDE DEF q, left, g, x2
<1>5. /\ x3 \in Engine /\ SameEngine(x2, x3) /\ SameAccount(x2.sink, x3.sink)
      /\ x3.sink.working["stop_loss"] = None /\ SameEntryOrders(x2, x3)
  BY <1>3, EmitCancel DEF Refs, SameEntryOrders
<1> HIDE DEF x3
<1>6. /\ y \in Engine /\ y.pos = None /\ y.sink = x3.sink /\ y.pnl = x3.pnl
      /\ SameFrame(x3, y) /\ SameFlags(x3, y)
  BY <1>5 DEF Engine, SameFrame, SameFlags
<1>7. Eng!HandleTp1(x, x.sink.last) = Eng!CheckDailyLossLimit(y)
  BY <1>4, <1>5, NeutralEmit DEF Eng!Notify
<1> HIDE DEF y
<1>8. /\ SameEntryOrders(x, y) /\ SameFrame(x, y) /\ SameFlags(x, y)
      /\ y.pnl = x.pnl + g /\ y.sink.equity = x.sink.equity + g /\ MirrorsWhenFlat(y)
  BY <1>3, <1>5, <1>6 DEF SameEntryOrders, SameFrame, SameFlags, SameEngine, SameAccount,
     MirrorsWhenFlat
<1>9. BooksAgree(y)
  BY <1>1, <1>3, <1>8, ReplayAssumption DEF Sound, Orderly, Core, BooksAgree, Broker
<1>10. Core(y)
  BY <1>6, <1>8, <1>9 DEF Sound, Orderly, Core, Mirrors, SameFrame, SameFlags,
     SameEntryOrders, NoEntries
<1>11. Orderly(y) /\ Priced(y)
  BY <1>6, <1>8, <1>10 DEF Sound, Orderly, Priced, SameFrame, SameFlags, SameEntryOrders,
     EntriesRest, LongOrder, ShortOrder
<1>12. LET z == Eng!CheckDailyLossLimit(y) IN
       Sound(z) /\ SameFrame(y, z) /\ (y.done => z.done) /\ (z.pos # None => z.pos = y.pos)
  BY <1>11, CheckDailyLossLimitSound
<1>13. Reduces(x, Eng!CheckDailyLossLimit(y))
  BY <1>1, <1>6, <1>8, <1>12 DEF Reduces, SameFlags
<1> QED
  BY <1>7, <1>8, <1>11, <1>12, <1>13 DEF Managed, Priced, SameFrame

(* _handle_tp1 keeps the account in step, whatever it closes.              *)
LEMMA HandleTp1Sound ==
  ASSUME NEW x, Sound(x), Priced(x), x.pos # None, ~x.pos.tp1
  PROVE  Managed(x, Eng!HandleTp1(x, x.sink.last))
<1>1. /\ x.pos \in Position
      /\ Eng!Tp1CloseQty(x.pos) \in Nat /\ Eng!Tp1CloseQty(x.pos) <= x.pos.qty
  BY Tp1CloseQtyBounds DEF Sound, Orderly, Core, Engine
<1>2. \/ Eng!Tp1CloseQty(x.pos) = 0
      \/ Eng!Tp1CloseQty(x.pos) > 0 /\ Eng!Tp1CloseQty(x.pos) < x.pos.qty
      \/ Eng!Tp1CloseQty(x.pos) = x.pos.qty
  BY <1>1 DEF Position
<1> QED
  BY <1>2, Tp1WithoutClose, Tp1Partial, Tp1Full

-----------------------------------------------------------------------------
(* The runner and the whole of _manage_position_on_bar.                    *)

(* What a candle holds once it is known.                                   *)
LEMMA CandleType ==
  ASSUME NEW candle \in Candles, candle # None
  PROVE  /\ candle.sma # None => candle.sma \in Int
         /\ candle.trail # None => candle.trail.low \in Int /\ candle.trail.high \in Int
BY ReplayAssumption

(* _manage_runner_old keeps the account in step.                           *)
LEMMA ManageRunnerOldSound ==
  ASSUME NEW x, Sound(x), Priced(x), x.pos # None, NEW candle \in Candles
  PROVE  Managed(x, Eng!ManageRunnerOld(x, x.sink.last, candle))
<1> DEFINE y == Eng!ManageRunnerOld(x, x.sink.last, candle)
<1>1. CASE Eng!RAtLeast(x.pos, x.sink.last, CapR)
  <2>1. y = Eng!ExitPositionMarket(x, x.sink.last)
    BY <1>1 DEF Eng!ManageRunnerOld
  <2> QED
    BY <2>1, ExitPositionMarketSound DEF Managed, Priced, Sound, Reduces
<1>2. CASE ~Eng!RAtLeast(x.pos, x.sink.last, CapR) /\ (candle = None \/ candle.sma = None)
  <2>1. y = x
    BY <1>2 DEF Eng!ManageRunnerOld
  <2> QED
    BY <2>1, ManagedReflexive
<1>3. CASE ~Eng!RAtLeast(x.pos, x.sink.last, CapR) /\ candle # None /\ candle.sma # None
  <2> DEFINE t == Eng!RatchetStop(x, candle.sma)
  <2>1. Managed(x, t) /\ t.pos # None /\ t.sink.last = x.sink.last
    BY <1>3, CandleType, RatchetStopSound DEF Managed, SameFrame
  <2>2. y = t \/ y = Eng!ExitPositionMarket(t, x.sink.last)
    BY <1>3 DEF Eng!ManageRunnerOld
  <2> HIDE DEF t
  <2>3. Managed(t, Eng!ExitPositionMarket(t, x.sink.last))
    BY <2>1, ExitPositionMarketSound DEF Managed, Priced, Sound, Reduces
  <2> QED
    BY <2>1, <2>2, <2>3, ManagedTransitive
<1> QED
  BY <1>1, <1>2, <1>3

(* _manage_runner_new_phase_b keeps the account in step.                   *)
LEMMA TrailCandleSound ==
  ASSUME NEW x, Sound(x), Priced(x), x.pos # None, NEW candle \in Candles, candle # None
  PROVE  Managed(x, Eng!TrailCandle(x, candle))
<1>1. CASE candle.trail = None
  BY <1>1, ManagedReflexive DEF Eng!TrailCandle
<1>2. CASE candle.trail # None
  <2>1. candle.trail.low \in Int /\ candle.trail.high \in Int
    BY <1>2, CandleType
  <2> QED
    BY <1>2, <2>1, RatchetStopSound DEF Eng!TrailCandle
<1> QED
  BY <1>1, <1>2

(* Phase A of the new runner keeps the account in step.                    *)
LEMMA FollowAverageSound ==
  ASSUME NEW x, Sound(x), Priced(x), x.pos # None, NEW sma \in Int
  PROVE  LET y == Eng!FollowAverage(x, sma) IN Managed(x, y) /\ y.pos # None
<1> DEFINE c == IF x.pos.side = "long" THEN Eng!Greater(x.pos.entry, sma)
                ELSE Eng!Smaller(x.pos.entry, sma)
<1>1. x.pos.entry \in Int
  BY DEF Sound, Orderly, Core, Engine, Position
<1>2. c \in Int
  BY <1>1 DEF Eng!Greater, Eng!Smaller
<1>3. Eng!FollowAverage(x, sma) =
        IF c # x.pos.stop THEN Eng!Emit([x EXCEPT !.pos.stop = c], Eng!ModifyPrice(c)) ELSE x
  BY DEF Eng!FollowAverage
<1> HIDE DEF c
<1> QED
  BY <1>2, <1>3, MoveStopSound, ManagedReflexive

(* The step from phase A to phase B keeps the account in step.             *)
LEMMA CrossedSound ==
  ASSUME NEW x, Sound(x), Priced(x), x.pos # None
  PROVE  LET y == Eng!Emit([x EXCEPT !.pos.phase = "B"], Eng!Notify("runner_phase_change")) IN
         Managed(x, y) /\ y.pos # None
<1> DEFINE p  == [x.pos EXCEPT !.phase = "B"]
           x1 == [x EXCEPT !.pos.phase = "B"]
<1>1. x \in Engine /\ x.pos \in Position
  BY DEF Sound, Orderly, Core, Engine
<1>2. /\ p \in Position /\ p.side = x.pos.side /\ p.entry = x.pos.entry /\ p.stop = x.pos.stop
      /\ p.runnerQty = x.pos.runnerQty /\ p.qty = x.pos.qty /\ p.tp1 = x.pos.tp1
  BY <1>1 DEF Position
<1>3. x1 = [x EXCEPT !.pos = p]
  BY <1>1 DEF Engine
<1> HIDE DEF p, x1
<1>4. ~p.tp1 => p.runnerQty = p.qty
  BY <1>2 DEF Sound, Orderly, Core
<1>5. Managed(x, x1) /\ x1.pos # None
  BY <1>2, <1>3, <1>4, RemarkPosition
<1>6. Eng!Emit(x1, Eng!Notify("runner_phase_change")) = x1
  BY <1>5, NeutralEmit DEF Managed, Sound, Orderly, Core, Eng!Notify
<1> QED
  BY <1>5, <1>6 DEF x1

(* _manage_runner_new keeps the account in step.                           *)
LEMMA ManageRunnerNewSound ==
  ASSUME NEW x, Sound(x), Priced(x), x.pos # None, NEW candle \in Candles
  PROVE  Managed(x, Eng!ManageRunnerNew(x, candle))
<1> DEFINE y == Eng!ManageRunnerNew(x, candle)
<1>1. CASE candle = None \/ candle.sma = None
  BY <1>1, ManagedReflexive DEF Eng!ManageRunnerNew
<1>2. CASE candle # None /\ candle.sma # None /\ x.pos.phase # "A"
  BY <1>2, TrailCandleSound DEF Eng!ManageRunnerNew
<1>3. CASE candle # None /\ candle.sma # None /\ x.pos.phase = "A"
  <2> DEFINE f == Eng!FollowAverage(x, candle.sma)
             c == Eng!Emit([f EXCEPT !.pos.phase = "B"], Eng!Notify("runner_phase_change"))
  <2>1. Managed(x, f) /\ f.pos # None
    BY <1>3, CandleType, FollowAverageSound
  <2>2. y = f \/ y = Eng!TrailCandle(c, candle)
    BY <1>3 DEF Eng!ManageRunnerNew
  <2> HIDE DEF f
  <2>3. Managed(f, c) /\ c.pos # None
    BY <2>1, CrossedSound DEF Managed
  <2> HIDE DEF c
  <2>4. Managed(c, Eng!TrailCandle(c, candle))
    BY <1>3, <2>3, TrailCandleSound DEF Managed
  <2> QED
    BY <2>1, <2>2, <2>3, <2>4, ManagedTransitive
<1> QED
  BY <1>1, <1>2, <1>3

(* _manage_position_on_bar keeps the account in step.                      *)
LEMMA ManagePositionOnBarSound ==
  ASSUME NEW x, Sound(x), Priced(x), x.pos # None, NEW candle \in Candles
  PROVE  Managed(x, Eng!ManagePositionOnBar(x, x.sink.last, candle))
<1> DEFINE s == Eng!MoveToBreakeven(x, x.sink.last)
           t == IF ~s.pos.tp1 /\ Eng!RAtLeast(s.pos, x.sink.last, Tp1R)
                THEN Eng!HandleTp1(s, x.sink.last) ELSE s
           y == Eng!ManagePositionOnBar(x, x.sink.last, candle)
<1>1. Managed(x, s) /\ s.pos # None /\ s.sink.last = x.sink.last
  BY MoveToBreakevenSound DEF Managed, SameFrame
<1>2. y = t \/ (t.pos # None /\ y = Eng!ManageRunner(t, x.sink.last, candle))
  BY DEF Eng!ManagePositionOnBar
<1> HIDE DEF s, y
<1>3. Managed(x, t) /\ t.sink.last = x.sink.last
  <2>1. ~s.pos.tp1 => Managed(s, Eng!HandleTp1(s, x.sink.last))
    BY <1>1, HandleTp1Sound DEF Managed
  <2>2. Managed(x, t)
    BY <1>1, <2>1, ManagedTransitive
  <2> QED
    BY <2>2 DEF Managed, SameFrame
<1> HIDE DEF t
<1>4. t.pos # None => Managed(t, Eng!ManageRunner(t, x.sink.last, candle))
  BY <1>3, ManageRunnerOldSound, ManageRunnerNewSound DEF Eng!ManageRunner, Managed
<1> QED
  BY <1>2, <1>3, <1>4, ManagedTransitive DEF y

-----------------------------------------------------------------------------
(* The time-based actions.                                                 *)

(* The entry cutoff withdraws the entries and ends trading.                *)
LEMMA EntryCutoffSound ==
  ASSUME NEW x, Sound(x), Priced(x), NEW now
  PROVE  Managed(x, Eng!EntryCutoffCheck(x, now))
<1> DEFINE c == Eng!CancelEntries(x)
           y == [c EXCEPT !.done = TRUE]
<1>1. CASE /\ now >= EntryCutoff /\ x.placed /\ x.pos = None
           /\ ~x.canceled /\ ~x.done
  <2>1. /\ Core(c) /\ NoEntries(c) /\ SameDay(x, c) /\ c.sink.last = x.sink.last
    BY CancelEntriesCore DEF Sound, Orderly
  <2>2. Eng!EntryCutoffCheck(x, now) = Eng!Emit(y, Eng!Notify("no_trade"))
    BY <1>1 DEF Eng!EntryCutoffCheck
  <2> HIDE DEF c
  <2>3. /\ y \in Engine /\ y.done /\ y.pos = None /\ y.pnl = x.pnl /\ y.halted = x.halted
        /\ SameFrame(x, y) /\ y.sink = c.sink /\ y.canceled = c.canceled
    BY <1>1, <2>1 DEF Core, Engine, SameDay, SameFrame
  <2> HIDE DEF y
  <2>4. Core(y) /\ NoEntries(y)
    BY <1>1, <2>1, <2>3 DEF Core, Mirrors, MirrorsWhenFlat, BooksAgree, NoEntries, SameDay, SameFrame
  <2>5. LimitEnforced(y)
    BY <2>3, SameMoney DEF Sound, LimitEnforced, SameFrame
  <2>6. Managed(x, y)
    BY <2>3, <2>4, <2>5 DEF Managed, Sound, Orderly, EntriesRest, NoEntries, Priced, Reduces
  <2> QED
    BY <2>2, <2>3, <2>6, NeutralEmit DEF Eng!Notify
<1>2. CASE ~(/\ now >= EntryCutoff /\ x.placed /\ x.pos = None
             /\ ~x.canceled /\ ~x.done)
  BY <1>2, ManagedReflexive DEF Eng!EntryCutoffCheck
<1> QED
  BY <1>1, <1>2

(* The whipsaw guard keeps the account in step.                            *)
LEMMA WhipsawSound ==
  ASSUME NEW x, Sound(x), Priced(x), NEW now
  PROVE  Managed(x, Eng!WhipsawCheck(x, now))
<1> DEFINE p  == [x.pos EXCEPT !.whipsaw = TRUE]
           x1 == [x EXCEPT !.pos.whipsaw = TRUE]
           y  == Eng!WhipsawCheck(x, now)
<1>1. y = x \/ (x.pos # None /\ (y = x1 \/ y = Eng!RatchetStop(x1, x.pos.entry)))
  BY DEF Eng!WhipsawCheck
<1>2. CASE x.pos # None
  <2>1. x \in Engine /\ x.pos \in Position /\ x.pos.entry \in Int
    BY <1>2 DEF Sound, Orderly, Core, Engine, Position
  <2>2. /\ p \in Position /\ p.side = x.pos.side /\ p.entry = x.pos.entry /\ p.stop = x.pos.stop
        /\ p.runnerQty = x.pos.runnerQty /\ p.qty = x.pos.qty /\ p.tp1 = x.pos.tp1
    BY <2>1 DEF Position
  <2>3. x1 = [x EXCEPT !.pos = p]
    BY <2>1 DEF Engine
  <2> HIDE DEF p, x1
  <2>4. ~p.tp1 => p.runnerQty = p.qty
    BY <1>2, <2>2 DEF Sound, Orderly, Core
  <2>5. Managed(x, x1) /\ x1.pos # None
    BY <1>2, <2>2, <2>3, <2>4, RemarkPosition
  <2>6. Managed(x1, Eng!RatchetStop(x1, x.pos.entry))
    BY <2>1, <2>5, RatchetStopSound DEF Managed
  <2> QED
    BY <1>1, <2>5, <2>6, ManagedTransitive, ManagedReflexive
<1>3. CASE x.pos = None
  BY <1>1, <1>3, ManagedReflexive
<1> QED
  BY <1>2, <1>3

(* The engine's reference price is the broker's last price.                *)
LEMMA ExitAtReference ==
  ASSUME NEW x, Sound(x), Priced(x), x.pos # None
  PROVE  LET y == Eng!ExitPositionMarket(x, Eng!RefPrice(x)) IN Managed(x, y) /\ y.pos = None
<1>1. Eng!RefPrice(x) = x.sink.last
  BY DEF Eng!RefPrice, Priced
<1> QED
  BY <1>1, ExitPositionMarketSound DEF Managed, Priced, Sound, Reduces

(* The FOMC flatten keeps the account in step.                             *)
LEMMA FomcSound ==
  ASSUME NEW x, Sound(x), Priced(x), NEW now
  PROVE  Managed(x, Eng!FomcCheck(x, now))
BY ExitAtReference, ManagedReflexive DEF Eng!FomcCheck

(* The hard close leaves nothing held or resting.                          *)
LEMMA HardCloseSound ==
  ASSUME NEW x, Sound(x), Priced(x), NEW now
  PROVE  Managed(x, Eng!HardCloseCheck(x, now))
<1> DEFINE f == IF x.pos # None THEN Eng!ExitPositionMarket(x, Eng!RefPrice(x)) ELSE x
           c == Eng!CancelEntries(f)
           y == [c EXCEPT !.done = TRUE]
<1>1. Eng!HardCloseCheck(x, now) = x \/ Eng!HardCloseCheck(x, now) = y
  BY DEF Eng!HardCloseCheck
<1>2. Managed(x, f) /\ f.pos = None
  BY ExitAtReference, ManagedReflexive
<1> HIDE DEF f
<1>3. Core(c) /\ NoEntries(c) /\ SameDay(f, c) /\ c.sink.last = f.sink.last
  BY <1>2, CancelEntriesCore DEF Managed, Sound, Orderly
<1> HIDE DEF c
<1>4. /\ y \in Engine /\ y.done /\ y.pos = None /\ y.pnl = f.pnl /\ y.halted = f.halted
      /\ SameFrame(f, y) /\ y.sink = c.sink /\ y.canceled = c.canceled
  BY <1>2, <1>3 DEF Core, Engine, SameDay, SameFrame
<1> HIDE DEF y
<1>5. Core(y) /\ NoEntries(y)
  BY <1>2, <1>3, <1>4 DEF Core, Mirrors, MirrorsWhenFlat, BooksAgree, NoEntries, SameDay, SameFrame
<1>6. LimitEnforced(y)
  BY <1>2, <1>4, SameMoney DEF Managed, Sound, LimitEnforced, SameFrame
<1>7. Managed(f, y)
  BY <1>4, <1>5, <1>6 DEF Managed, Sound, Orderly, EntriesRest, NoEntries, Priced, Reduces
<1> QED
  BY <1>1, <1>2, <1>7, ManagedTransitive, ManagedReflexive

(* _check_time_based_actions keeps the account in step.                    *)
LEMMA CheckTimeBasedActionsSound ==
  ASSUME NEW x, Sound(x), Priced(x), NEW now
  PROVE  Managed(x, Eng!CheckTimeBasedActions(x, now))
<1> DEFINE a == Eng!EntryCutoffCheck(x, now)
           b == Eng!WhipsawCheck(a, now)
           c == Eng!FomcCheck(b, now)
           d == Eng!HardCloseCheck(c, now)
<1>1. Eng!CheckTimeBasedActions(x, now) = d
  BY DEF Eng!CheckTimeBasedActions
<1>2. Managed(x, a)
  BY EntryCutoffSound
<1> HIDE DEF a
<1>3. Managed(a, b)
  BY <1>2, WhipsawSound DEF Managed
<1> HIDE DEF b
<1>4. Managed(b, c)
  BY <1>3, FomcSound DEF Managed
<1> HIDE DEF c
<1>5. Managed(c, d)
  BY <1>4, HardCloseSound DEF Managed
<1> HIDE DEF d
<1> QED
  BY <1>1, <1>2, <1>3, <1>4, <1>5, ManagedTransitive

-----------------------------------------------------------------------------
(* The opening range and the entries.                                      *)

(* _finalize_opening_range arms both entries or ends the day.              *)
LEMMA FinalizeSound ==
  ASSUME NEW x, Sound(x), ~x.orFinal, ~x.done
  PROVE  LET y == Eng!FinalizeOpeningRange(x) IN
         /\ Sound(y) /\ y.orFinal
         /\ y.lastPrice = x.lastPrice /\ y.sink.last = x.sink.last
<1> DEFINE x1 == [x EXCEPT !.orFinal = TRUE]
           s  == [x1 EXCEPT !.done = TRUE]
           width == x.orHigh - x.orLow
           qty == Eng!ComputePositionSize(x.equity, width + 2 * Buffer)
           x2 == [x1 EXCEPT !.entryQty = qty, !.placed = TRUE]
           x3 == Eng!Emit(x2, Eng!Place("entry_long", "long", x.orHigh + Buffer, qty))
           x4 == Eng!Emit(x3, Eng!Place("entry_short", "short", x.orLow - Buffer, qty))
           y  == Eng!FinalizeOpeningRange(x)
           armed == /\ x.orHigh # None /\ x.orLow # None
                    /\ width \in MinWidth..MaxWidth /\ qty # 0
<1>1. /\ x \in Engine /\ x.pos = None /\ ~x.placed /\ ~x.canceled /\ ~x.halted /\ NoEntries(x)
      /\ MirrorsWhenFlat(x)
  BY DEF Sound, Orderly, Core, Mirrors
<1>2. CASE ~armed
  <2>1. /\ s \in Engine /\ s.pos = None /\ ~s.placed /\ ~s.canceled /\ s.done /\ s.orFinal
        /\ s.pnl = x.pnl /\ s.equity = x.equity /\ s.sink = x.sink /\ s.lastPrice = x.lastPrice
        /\ s.halted = x.halted
    BY <1>1 DEF Engine
  <2>2. \/ y = Eng!Emit(s, Eng!Alert) 
        \/ y = Eng!Emit(s, Eng!Notify("no_trade"))
    BY <1>2 DEF Eng!FinalizeOpeningRange, Eng!Refused
  <2> HIDE DEF s, y
  <2>3. y = s
    BY <2>1, <2>2, NeutralEmit DEF Eng!Alert, Eng!Notify
  <2>4. Core(s) /\ NoEntries(s)
    BY <1>1, <2>1 DEF Sound, Orderly, Core, Mirrors, MirrorsWhenFlat, BooksAgree, NoEntries
  <2>5. LimitEnforced(s)
    BY <2>1, SameMoney DEF Sound, LimitEnforced
  <2>6. Sound(s)
    BY <2>1, <2>4, <2>5 DEF Sound, Orderly, EntriesRest, NoEntries
  <2> QED
    BY <2>1, <2>3, <2>6 DEF y
<1>3. CASE armed
  <2>1. /\ x.orHigh \in Int /\ x.orLow \in Int /\ x.orHigh > x.orLow
    BY <1>1, <1>3, RangeAssumption DEF Engine
  <2>2. qty \in Nat \ {0}
    <3>1. x.equity \in Int /\ width + 2 * Buffer \in Int
      BY <1>1, <2>1, RangeAssumption DEF Engine
    <3> QED
      BY <1>3, <3>1, SizeIsNat
  <2>3. y = Eng!Emit(x4, Eng!Notify("entry_orders_placed"))
    BY <1>3 DEF Eng!FinalizeOpeningRange, Eng!Refused, Eng!LongEntry, Eng!ShortEntry
  <2> HIDE DEF qty
  <2>4. /\ x2 \in Engine /\ x2.orFinal /\ x2.placed /\ x2.entryQty = qty /\ x2.pos = None
        /\ x2.orHigh = x.orHigh /\ x2.orLow = x.orLow /\ x2.pnl = x.pnl /\ x2.equity = x.equity
        /\ SameFlags(x, x2) /\ x2.sink = x.sink /\ x2.lastPrice = x.lastPrice
    BY <1>1, <2>2 DEF Engine, SameFlags
  <2> HIDE DEF x2
  <2>5. /\ x.orHigh + Buffer \in Int /\ x.orLow - Buffer \in Int
    BY <2>1, RangeAssumption
  <2>6. LET d == Execute(x2.sink, Eng!Place("entry_long", "long", x.orHigh + Buffer, qty)) IN
        /\ d \in Broker
        /\ SameAccount(x2.sink, d)
        /\ d.working["entry_long"] = [side |-> "long", price |-> x.orHigh + Buffer, qty |-> qty]
        /\ d.working["stop_loss"] = x2.sink.working["stop_loss"]
    <3>1. x2.sink \in Broker
      BY <2>4 DEF Engine
    <3>2. /\ "entry_long" \in Refs /\ "long" \in Sides
          /\ "stop_loss" \in Refs \ {"entry_long"}
      BY DEF Refs, Sides
    <3> QED
      BY <2>2, <2>5, <3>1, <3>2, BrokerPlace
  <2>7. /\ x3 \in Engine /\ SameEngine(x2, x3) /\ SameAccount(x2.sink, x3.sink)
        /\ x3.sink.working["entry_long"] =
             [side |-> "long", price |-> x.orHigh + Buffer, qty |-> qty]
        /\ x3.sink.working["stop_loss"] = x2.sink.working["stop_loss"]
    BY <2>4, <2>6, EmitFrame
  <2> HIDE DEF x3, x4, y
  <2>8. LET d == Execute(x3.sink, Eng!Place("entry_short", "short", x.orLow - Buffer, qty)) IN
        /\ d \in Broker
        /\ SameAccount(x3.sink, d)
        /\ d.working["entry_short"] = [side |-> "short", price |-> x.orLow - Buffer, qty |-> qty]
        /\ d.working["entry_long"] = x3.sink.working["entry_long"]
        /\ d.working["stop_loss"] = x3.sink.working["stop_loss"]
    <3>1. x3.sink \in Broker
      BY <2>7 DEF Engine
    <3>2. /\ "entry_short" \in Refs /\ "short" \in Sides
          /\ {"entry_long", "stop_loss"} \subseteq Refs \ {"entry_short"}
      BY DEF Refs, Sides
    <3> QED
      BY <2>2, <2>5, <3>1, <3>2, BrokerPlace
  <2>9. /\ x4 \in Engine /\ SameEngine(x3, x4) /\ SameAccount(x3.sink, x4.sink)
        /\ x4.sink.working["entry_short"] =
             [side |-> "short", price |-> x.orLow - Buffer, qty |-> qty]
        /\ x4.sink.working["entry_long"] = x3.sink.working["entry_long"]
        /\ x4.sink.working["stop_loss"] = x3.sink.working["stop_loss"]
    BY <2>7, <2>8, EmitFrame DEF x4
  <2>10. y = x4
    BY <2>3, <2>9, NeutralEmit DEF Eng!Notify
  <2>11. /\ x4.orFinal /\ x4.placed /\ x4.entryQty = qty /\ x4.pos = None
         /\ x4.orHigh = x.orHigh /\ x4.orLow = x.orLow /\ x4.pnl = x.pnl /\ x4.equity = x.equity
         /\ SameFlags(x, x4) /\ x4.lastPrice = x.lastPrice /\ SameAccount(x.sink, x4.sink)
         /\ x4.sink.working["entry_long"] = LongOrder(x4)
         /\ x4.sink.working["entry_short"] = ShortOrder(x4)
         /\ x4.sink.working["stop_loss"] = x.sink.working["stop_loss"]
    BY <2>4, <2>7, <2>9 DEF SameEngine, SameAccount, SameFlags, LongOrder, ShortOrder
  <2>12. Core(x4)
    BY <1>1, <2>1, <2>2, <2>9, <2>11 DEF Sound, Orderly, Core, Mirrors, MirrorsWhenFlat,
       BooksAgree, SameAccount, SameFlags
  <2>13. LimitEnforced(x4)
    BY <2>11, SameMoney DEF Sound, LimitEnforced, SameFlags
  <2>14. Sound(x4)
    BY <1>1, <2>11, <2>12, <2>13 DEF Sound, Orderly, EntriesRest, SameFlags
  <2> QED
    BY <2>10, <2>11, <2>14 DEF SameAccount, y
<1> QED
  BY <1>2, <1>3

(* A part of the day that nothing sound depends on before the range is     *)
(* final changes.                                                          *)
LEMMA UpdateRangeSound ==
  ASSUME NEW x, Sound(x), ~x.orFinal, NEW b \in Bars
  PROVE  LET y == Eng!UpdateRange(x, b) IN
         /\ Sound(y) /\ ~y.orFinal /\ SameFlags(x, y) /\ y.pos = None
         /\ y.lastPrice = x.lastPrice /\ y.sink.last = x.sink.last
<1> DEFINE h == IF x.orHigh = None THEN b.high ELSE Eng!Greater(x.orHigh, b.high)
           l == IF x.orLow = None THEN b.low ELSE Eng!Smaller(x.orLow, b.low)
           y == [x EXCEPT !.orHigh = h, !.orLow = l]
<1>1. x \in Engine /\ ~x.placed /\ x.pos = None
  BY DEF Sound, Orderly, Core
<1>2. h \in Int /\ l \in Int
  BY <1>1, ReplayAssumption DEF Engine, Eng!Greater, Eng!Smaller
<1>3. Eng!UpdateRange(x, b) = y
  BY DEF Eng!UpdateRange
<1> HIDE DEF h, l
<1>4. /\ y \in Engine /\ ~y.placed /\ y.pos = None /\ ~y.orFinal /\ SameFlags(x, y)
      /\ y.pnl = x.pnl /\ y.equity = x.equity /\ y.sink = x.sink /\ y.lastPrice = x.lastPrice
  BY <1>1, <1>2 DEF Engine, SameFlags
<1> HIDE DEF y
<1>5. Core(y)
  BY <1>1, <1>4 DEF Sound, Orderly, Core, Mirrors, MirrorsWhenFlat, BooksAgree, NoEntries, SameFlags
<1>6. LimitEnforced(y)
  BY <1>4, SameMoney DEF Sound, LimitEnforced, SameFlags
<1> QED
  BY <1>1, <1>3, <1>4, <1>5, <1>6 DEF Sound, Orderly, EntriesRest, SameFlags

(* Trading ends for the day only after the range is final.                 *)
DoneAfterRange(x) == x.done => x.orFinal

(* A bar updates or finalizes the range.                                   *)
LEMMA ObserveRangeSound ==
  ASSUME NEW x, Sound(x), Priced(x), DoneAfterRange(x), NEW b \in Bars
  PROVE  LET y == Eng!ObserveRange(x, b) IN
         /\ Sound(y) /\ Priced(y) /\ DoneAfterRange(y)
         /\ b.time >= OrEnd => y.orFinal
         /\ y.lastPrice = x.lastPrice /\ y.sink.last = x.sink.last
         /\ Reduces(x, y) /\ (x.placed => y.placed)
<1> DEFINE seen == IF OrStart <= b.time /\ b.time < OrEnd THEN Eng!UpdateRange(x, b) ELSE x
           y    == Eng!ObserveRange(x, b)
<1>1. CASE x.orFinal
  <2>1. y = x
    BY <1>1 DEF Eng!ObserveRange
  <2> QED
    BY <1>1, <2>1, ReducesReflexive
<1>2. CASE ~x.orFinal
  <2>0. ~x.done /\ ~x.placed
    BY <1>2 DEF DoneAfterRange, Sound, Orderly, Core
  <2>1. /\ Sound(seen) /\ ~seen.orFinal /\ ~seen.done /\ seen.pos = None
        /\ seen.lastPrice = x.lastPrice /\ seen.sink.last = x.sink.last
    BY <1>2, UpdateRangeSound DEF DoneAfterRange, SameFlags, Sound, Orderly, Core
  <2>2. y = IF b.time >= OrEnd THEN Eng!FinalizeOpeningRange(seen) ELSE seen
    BY <1>2 DEF Eng!ObserveRange
  <2> HIDE DEF seen, y
  <2>3. CASE b.time >= OrEnd
    <3> DEFINE f == Eng!FinalizeOpeningRange(seen)
    <3>1. /\ Sound(f) /\ f.orFinal
          /\ f.lastPrice = seen.lastPrice /\ f.sink.last = seen.sink.last
      BY <2>1, FinalizeSound
    <3>2. f.pos = None
      BY <2>1 DEF Eng!FinalizeOpeningRange, Eng!Emit, Sound, Orderly, Core, Engine
    <3> HIDE DEF f
    <3> QED
      BY <2>0, <2>1, <2>2, <2>3, <3>1, <3>2 DEF Priced, DoneAfterRange, Reduces, f, y
  <2>4. CASE ~(b.time >= OrEnd)
    BY <2>0, <2>1, <2>2, <2>4 DEF Priced, DoneAfterRange, Reduces, y
  <2> QED
    BY <2>3, <2>4
<1> QED
  BY <1>1, <1>2

(* Before the range is final, a bar of the range disturbs nothing else.    *)
LEMMA EarlyChecksIdle ==
  ASSUME NEW x, Sound(x), ~x.orFinal, NEW now \in Nat, now < OrEnd
  PROVE  Eng!CheckTimeBasedActions(x, now) = x
<1>1. ~x.placed /\ x.pos = None
  BY DEF Sound, Orderly, Core
<1>2. ~(now >= HardClose)
  BY SessionAssumption
<1>3. Eng!EntryCutoffCheck(x, now) = x /\ Eng!WhipsawCheck(x, now) = x /\ Eng!FomcCheck(x, now) = x
  BY <1>1 DEF Eng!EntryCutoffCheck, Eng!WhipsawCheck, Eng!FomcCheck
<1>4. Eng!HardCloseCheck(x, now) = x
  BY <1>2, SessionAssumption DEF Eng!HardCloseCheck
<1> QED
  BY <1>3, <1>4 DEF Eng!CheckTimeBasedActions

(* Recording the last price disturbs nothing.                              *)
LEMMA SeesPriceSound ==
  ASSUME NEW x, Sound(x), NEW price \in Int, x.sink.last = price
  PROVE  LET y == [x EXCEPT !.lastPrice = price] IN
         /\ Sound(y) /\ Priced(y)
         /\ y.lastPrice = price /\ y.sink.last = price
         /\ y.done = x.done /\ y.orFinal = x.orFinal
         /\ y.placed = x.placed /\ y.pos = x.pos
<1> DEFINE y == [x EXCEPT !.lastPrice = price]
<1>1. x \in Engine
  BY DEF Sound, Orderly, Core
<1>2. /\ y \in Engine /\ y.sink = x.sink /\ y.pos = x.pos /\ y.pnl = x.pnl /\ y.equity = x.equity
      /\ SameFlags(x, y) /\ y.placed = x.placed /\ y.orFinal = x.orFinal
      /\ y.orHigh = x.orHigh /\ y.orLow = x.orLow /\ y.entryQty = x.entryQty
      /\ y.lastPrice = price
  BY <1>1 DEF Engine, SameFlags
<1> HIDE DEF y
<1>3. Core(y)
  BY <1>2 DEF Sound, Orderly, Core, Mirrors, MirrorsWhenFlat, MirrorsWhenOpen, BooksAgree,
     NoEntries, SameFlags
<1>4. LimitEnforced(y)
  BY <1>2, SameMoney DEF Sound, LimitEnforced, SameFlags
<1>5. Sound(y)
  BY <1>2, <1>3, <1>4 DEF Sound, Orderly, EntriesRest, LongOrder, ShortOrder, SameFlags
<1> QED
  BY <1>2, <1>5, NoneAssumption DEF Priced, SameFlags, y

(* on_bar keeps the account in step.                                       *)
LEMMA OnBarSound ==
  ASSUME NEW x, Sound(x), DoneAfterRange(x), NEW b \in Bars, x.sink.last = b.close,
         NEW candle \in Candles
  PROVE  LET y == Eng!OnBar(x, b, candle) IN
         /\ Sound(y) /\ Priced(y) /\ DoneAfterRange(y)
         /\ Reduces(x, y) /\ (x.placed => y.placed)
<1> DEFINE x1 == [x EXCEPT !.lastPrice = b.close]
           r  == Eng!ObserveRange(x1, b)
           m  == IF r.pos # None THEN Eng!ManagePositionOnBar(r, b.close, candle) ELSE r
           y  == Eng!OnBar(x, b, candle)
<1>0. b.close \in Int /\ b.time \in Nat
  BY ReplayAssumption
<1>1. /\ Sound(x1) /\ Priced(x1) /\ DoneAfterRange(x1) /\ x1.sink.last = b.close
      /\ x1.placed = x.placed /\ x1.pos = x.pos /\ x1.done = x.done
  BY <1>0, SeesPriceSound DEF DoneAfterRange
<1>2. y = Eng!CheckTimeBasedActions(m, b.time)
  BY DEF Eng!OnBar
<1> HIDE DEF x1, y
<1>3. /\ Sound(r) /\ Priced(r) /\ DoneAfterRange(r) /\ r.sink.last = b.close
      /\ b.time >= OrEnd => r.orFinal
      /\ Reduces(x1, r) /\ (x1.placed => r.placed)
  BY <1>1, ObserveRangeSound
<1> HIDE DEF r
<1>3a. Reduces(x, r) /\ (x.placed => r.placed)
  BY <1>1, <1>3 DEF Reduces
<1>4. Managed(r, m) /\ (r.pos = None => m = r)
  BY <1>3, ManagePositionOnBarSound, ManagedReflexive
<1> HIDE DEF m
<1>5. CASE r.orFinal
  <2>1. Managed(m, y)
    BY <1>2, <1>4, CheckTimeBasedActionsSound DEF Managed
  <2>2. Managed(r, y)
    BY <1>3, <1>4, <2>1, ManagedTransitive
  <2>3. Reduces(x, y)
    BY <1>3, <1>3a, <2>2, ReducesTransitive DEF Managed
  <2> QED
    BY <1>3a, <1>5, <2>2, <2>3 DEF Managed, SameFrame, DoneAfterRange, y
<1>6. CASE ~r.orFinal
  <2>1. b.time < OrEnd
    BY <1>0, <1>3, <1>6, SessionAssumption
  <2>2. m = r
    BY <1>3, <1>4, <1>6 DEF Sound, Orderly, Core
  <2>3. y = r
    BY <1>0, <1>2, <1>3, <1>6, <2>1, <2>2, EarlyChecksIdle
  <2> QED
    BY <1>3, <1>3a, <2>3 DEF y
<1> QED
  BY <1>5, <1>6

-----------------------------------------------------------------------------
(* Fills.                                                                  *)

(* Of the trade, y holds what x held or less of it, or a day that was not  *)
(* over has begun it.                                                      *)
Enters(x, y) ==
  /\ y.placed = x.placed
  /\ x.done => y.done
  /\ y.pos # None =>
       IF x.pos = None
       THEN x.placed /\ ~x.done
       ELSE y.pos.side = x.pos.side /\ y.pos.runnerQty <= x.pos.runnerQty

(* One fill after another.                                                 *)
LEMMA EntersTransitive ==
  ASSUME NEW x, NEW y, NEW z, Sound(x), Sound(y), Sound(z), Enters(x, y), Enters(y, z)
  PROVE  Enters(x, z)
<1>1. /\ x.pos # None => x.pos.runnerQty \in Nat /\ x.done
      /\ y.pos # None => y.pos.runnerQty \in Nat /\ y.done
      /\ z.pos # None => z.pos.runnerQty \in Nat
  BY DEF Sound, Orderly, Core, Engine, Position
<1> QED
  BY <1>1 DEF Enters

(* A fill at the edge of the range opens a well-formed position.           *)
LEMMA OpenedByType ==
  ASSUME NEW x, Core(x), x.placed, NEW side \in Sides,
         NEW price \in Int,
         price = IF side = "long" THEN x.orHigh + Buffer ELSE x.orLow - Buffer
  PROVE  LET p == Eng!OpenedBy(x, side, price) IN
         /\ p \in Position /\ p.side = side /\ p.entry = price
         /\ p.qty = x.entryQty /\ p.runnerQty = x.entryQty /\ ~p.tp1
<1> DEFINE stop == Eng!InitialStop(x, side)
           r    == Eng!Magnitude(price - stop)
<1>1. /\ x.orHigh \in Int /\ x.orLow \in Int /\ x.orHigh > x.orLow /\ x.entryQty \in Nat \ {0}
  BY DEF Core
<1>2. stop \in Int
  BY <1>1, RangeAssumption DEF Eng!InitialStop
<1>3. r \in Nat \ {0}
  BY <1>1, RangeAssumption DEF Eng!InitialStop, Eng!Magnitude, Sides
<1> DEFINE first == IF RunnerMode = "new" THEN "A" ELSE "none"
           size  == x.entryQty
           p     == [side |-> side, entry |-> price, qty |-> size, initialStop |-> stop,
                     rUnit |-> r, stop |-> stop, beMoved |-> FALSE, whipsaw |-> FALSE,
                     tp1 |-> FALSE, runnerQty |-> size, mode |-> RunnerMode, phase |-> first]
<1>4. Eng!OpenedBy(x, side, price) = p
  BY DEF Eng!OpenedBy
<1>5. RunnerMode \in {"old", "new"} /\ first \in {"none", "A", "B"}
  BY ExitsAssumption
<1> HIDE DEF stop, r, first, size
<1>6. size \in Nat \ {0} /\ size = x.entryQty
  BY <1>1 DEF size
<1>7. p \in Position
  BY <1>2, <1>3, <1>5, <1>6 DEF Position
<1> QED
  BY <1>4, <1>6, <1>7

(* The engine on which the callback of a filled order is called.           *)
Filled(x, ref) == [x EXCEPT !.sink = Fill(@, ref)]

(* An entry fill opens the position, covers it and withdraws the other entry. *)
LEMMA EntryFillSound ==
  ASSUME NEW x, Sound(x), NEW ref \in {"entry_long", "entry_short"}, x.sink.working[ref] # None
  PROVE  LET order == x.sink.working[ref]
             fill  == [ref |-> ref, price |-> order.price, qty |-> order.qty]
             y     == Eng!OnFill(Filled(x, ref), fill)
         IN  Sound(y) /\ SameFrame(x, y) /\ y.orFinal /\ Enters(x, y)
<1> DEFINE order == x.sink.working[ref]
           fill  == [ref |-> ref, price |-> order.price, qty |-> order.qty]
           side  == IF ref = "entry_long" THEN "long" ELSE "short"
           other == IF ref = "entry_long" THEN "entry_short" ELSE "entry_long"
           x1    == Filled(x, ref)
           x2    == Eng!Emit(x1, Eng!Cancel(other))
           p     == Eng!OpenedBy(x1, side, order.price)
           x3    == [x2 EXCEPT !.pos = p, !.done = TRUE]
           x4    == Eng!Emit(x3, Eng!Place("stop_loss", Opposite(side), p.stop, p.qty))
           y     == Eng!OnFill(x1, fill)
<1>1. /\ x \in Engine /\ x.sink \in Broker
      /\ x.placed /\ ~x.done /\ x.pos = None /\ ~x.canceled /\ ~x.halted /\ x.orFinal
      /\ x.orHigh \in Int /\ x.orLow \in Int /\ x.orHigh > x.orLow /\ x.entryQty \in Nat \ {0}
      /\ x.sink.working["entry_long"] = LongOrder(x) /\ x.sink.working["entry_short"] = ShortOrder(x)
      /\ x.sink.working["stop_loss"] = None
      /\ x.sink.qty = 0 /\ x.sink.side = None
  BY DEF Sound, Orderly, Core, Engine, EntriesRest, Mirrors, MirrorsWhenFlat
<1>2. /\ order.side = side /\ order.qty = x.entryQty /\ order.price \in Int /\ side \in Sides
      /\ order.price = IF side = "long" THEN x.orHigh + Buffer ELSE x.orLow - Buffer
  BY <1>1, RangeAssumption DEF LongOrder, ShortOrder, Sides
<1>3. y = Eng!Emit(x4, Eng!Notify("entry"))
  <2>1. x1.pos = None
    BY <1>1 DEF Filled, Engine
  <2>2. y = Eng!HandleEntryFill(x1, fill)
    BY <2>1 DEF Eng!OnFill, Eng!EntryRefs, Eng!LongEntry, Eng!ShortEntry
  <2>3. Eng!Opposite(side) = Opposite(side) /\ Eng!EntryRef(Opposite(side)) = other
    BY DEF Eng!Opposite, Opposite, Eng!EntryRef, Eng!LongEntry, Eng!ShortEntry
  <2>4. side = IF fill.ref = Eng!LongEntry THEN "long" ELSE "short"
    BY DEF Eng!LongEntry
  <2> QED
    BY <2>2, <2>3, <2>4 DEF Eng!HandleEntryFill, Eng!StopLoss
<1> HIDE DEF side
<1>4. /\ x1 \in Engine /\ SameFrame(x, x1) /\ SameFlags(x, x1) /\ x1.pos = None
      /\ x1.pnl = x.pnl /\ x1.sink.equity = x.sink.equity
      /\ x1.sink.side = side /\ x1.sink.entry = order.price /\ x1.sink.qty = x.entryQty
      /\ x1.sink.working[ref] = None
  <2> DEFINE w == [x.sink.working EXCEPT ![ref] = None]
             c == Fill(x.sink, ref)
  <2>1. c = [x.sink EXCEPT !.working = w, !.side = side, !.entry = order.price,
                           !.qty = x.entryQty]
    BY <1>1, <1>2 DEF Fill, Broker
  <2>2. w \in [Refs -> StopOrder \cup {None}] /\ w[ref] = None
    BY <1>1 DEF Broker, Refs
  <2> HIDE DEF order, w, c
  <2>3. /\ c \in Broker /\ c.last = x.sink.last /\ c.equity = x.sink.equity
        /\ c.side = side /\ c.entry = order.price /\ c.qty = x.entryQty /\ c.working[ref] = None
    BY <1>1, <1>2, <2>1, <2>2 DEF Broker
  <2>4. /\ x1 \in Engine /\ x1.sink = c /\ x1.pos = x.pos /\ x1.pnl = x.pnl /\ SameFlags(x, x1)
        /\ x1.orHigh = x.orHigh /\ x1.orLow = x.orLow /\ x1.orFinal = x.orFinal
        /\ x1.entryQty = x.entryQty /\ x1.placed = x.placed
        /\ x1.equity = x.equity /\ x1.lastPrice = x.lastPrice
    BY <1>1, <2>3 DEF Filled, Engine, SameFlags, c
  <2> HIDE DEF x1
  <2> QED
    BY <1>1, <2>3, <2>4 DEF SameFrame
<1> HIDE DEF x1
<1>5. /\ x2 \in Engine /\ SameEngine(x1, x2) /\ SameAccount(x1.sink, x2.sink) /\ NoEntries(x2)
  <2>1. other \in Refs /\ ref \in Refs \ {other}
    BY DEF Refs
  <2>2. /\ x2 \in Engine /\ SameEngine(x1, x2) /\ SameAccount(x1.sink, x2.sink)
        /\ x2.sink.working[other] = None /\ x2.sink.working[ref] = x1.sink.working[ref]
    BY <1>4, <2>1, EmitCancel
  <2> QED
    BY <1>4, <2>2 DEF NoEntries
<1> HIDE DEF x2, other
<1>6. /\ p \in Position /\ p.side = side /\ p.entry = order.price /\ p # None
      /\ p.qty = x.entryQty /\ p.runnerQty = x.entryQty /\ ~p.tp1
  <2>1. p = Eng!OpenedBy(x, side, order.price)
    BY <1>4 DEF Eng!OpenedBy, Eng!InitialStop, SameFrame
  <2>2. Core(x)
    BY DEF Sound, Orderly
  <2> QED
    BY <1>1, <1>2, <2>1, <2>2, OpenedByType, OptionalAssumption
<1> HIDE DEF order, p
<1>7. /\ x3 \in Engine /\ x3.pos = p /\ x3.done /\ x3.halted = x2.halted
      /\ x3.canceled = x2.canceled /\ x3.pnl = x2.pnl /\ x3.sink = x2.sink /\ SameFrame(x2, x3)
  BY <1>5, <1>6 DEF Engine, SameFrame
<1> HIDE DEF x3
<1>8. p.stop \in Int /\ p.qty \in Nat \ {0} /\ Opposite(side) \in Sides
  BY <1>1, <1>6 DEF Position, Opposite, Sides
<1>9. LET d == Execute(x3.sink, Eng!Place("stop_loss", Opposite(side), p.stop, p.qty)) IN
      /\ d \in Broker
      /\ SameAccount(x3.sink, d)
      /\ d.working["stop_loss"] = [side |-> Opposite(side), price |-> p.stop, qty |-> p.qty]
      /\ d.working["entry_long"] = x3.sink.working["entry_long"]
      /\ d.working["entry_short"] = x3.sink.working["entry_short"]
  <2>1. x3.sink \in Broker
    BY <1>7 DEF Engine
  <2> QED
    BY <1>8, <2>1, BrokerPlace DEF Refs
<1>10. /\ x4 \in Engine /\ SameEngine(x3, x4) /\ SameAccount(x3.sink, x4.sink)
       /\ x4.sink.working["stop_loss"] = [side |-> Opposite(side), price |-> p.stop, qty |-> p.qty]
       /\ SameEntryOrders(x3, x4)
  BY <1>7, <1>9, EmitFrame DEF SameEntryOrders
<1> HIDE DEF x4, y
<1>11. y = x4
  BY <1>3, <1>10, NeutralEmit DEF Eng!Notify
<1>12. /\ SameFrame(x, x4) /\ x4.pos = p /\ x4.done /\ x4.halted = x.halted
       /\ x4.canceled = x.canceled /\ x4.pnl = x.pnl /\ x4.sink.equity = x.sink.equity
       /\ x4.sink.side = side /\ x4.sink.entry = p.entry /\ x4.sink.qty = x.entryQty
       /\ NoEntries(x4)
  BY <1>4, <1>5, <1>6, <1>7, <1>10 DEF SameFrame, SameFlags, SameEngine, SameAccount,
     SameEntryOrders, NoEntries
<1>13. Mirrors(x4)
  BY <1>6, <1>10, <1>12 DEF Mirrors, MirrorsWhenOpen
<1>14. Core(x4)
  BY <1>1, <1>6, <1>10, <1>12, <1>13 DEF Sound, Orderly, Core, BooksAgree, SameFrame
<1>15. LimitEnforced(x4)
  BY <1>12, SameMoney DEF Sound, LimitEnforced, SameFrame
<1>16. Sound(x4)
  BY <1>12, <1>14, <1>15 DEF Sound, Orderly, EntriesRest, NoEntries
<1>17. Enters(x, x4)
  BY <1>1, <1>12 DEF Enters, SameFrame
<1> QED
  BY <1>1, <1>11, <1>12, <1>16, <1>17 DEF SameFrame, y, x1, order

(* A stop fill closes the position in both books.                          *)
LEMMA StopFillSound ==
  ASSUME NEW x, Sound(x), x.sink.working["stop_loss"] # None
  PROVE  LET order == x.sink.working["stop_loss"]
             fill  == [ref |-> "stop_loss", price |-> order.price, qty |-> order.qty]
             y     == Eng!OnFill(Filled(x, "stop_loss"), fill)
         IN  Sound(y) /\ SameFrame(x, y) /\ y.orFinal /\ Enters(x, y)
<1> DEFINE order == x.sink.working["stop_loss"]
           fill  == [ref |-> "stop_loss", price |-> order.price, qty |-> order.qty]
           g     == Eng!PnlUsd(x.pos, order.price, order.qty)
           x1    == Filled(x, "stop_loss")
           x2    == [x1 EXCEPT !.pnl = @ + g]
           x3    == [x2 EXCEPT !.pos = None]
           y     == Eng!OnFill(x1, fill)
<1>1. /\ x \in Engine /\ x.sink \in Broker /\ x.pos # None /\ x.pos \in Position
      /\ x.placed /\ x.done /\ x.orFinal /\ MirrorsWhenOpen(x) /\ x.pnl \in Int
      /\ NoEntries(x)
  BY DEF Sound, Orderly, Core, Engine, Mirrors, MirrorsWhenFlat, EntriesRest, NoEntries
<1>2. /\ order.price = x.pos.stop /\ order.qty = x.pos.runnerQty
      /\ x.sink.side = x.pos.side /\ x.sink.entry = x.pos.entry /\ x.sink.qty = x.pos.runnerQty
      /\ order.price \in Int /\ order.qty \in Nat
  BY <1>1 DEF MirrorsWhenOpen, Position
<1>3. g \in Int /\ g = Signed(x.pos.side, x.pos.entry, order.price) * order.qty * PointValue
  BY <1>1, <1>2, PnlIsInt
<1>4. /\ x1 \in Engine /\ x1.pos = x.pos /\ x1.pnl = x.pnl
      /\ SameFrame(x, x1) /\ SameFlags(x, x1)
      /\ x1.sink.equity = x.sink.equity + g /\ MirrorsWhenFlat(x1) /\ NoEntries(x1)
  <2> DEFINE w      == [x.sink.working EXCEPT !["stop_loss"] = None]
             gone   == [x.sink EXCEPT !.working = w]
             booked == [gone EXCEPT !.equity = @ + g]
  <2>1. x.sink.side # None /\ x.sink.entry # None
    BY <1>1, <1>2, NoneAssumption DEF Position, Sides
  <2>2. Fill(x.sink, "stop_loss") = ReducePosition(booked, order.qty)
    BY <1>1, <1>2, <1>3, <2>1 DEF Fill, HasPosition, ApplySimulatedPnl, Broker
  <2>6. /\ w \in [Refs -> StopOrder \cup {None}] /\ w["stop_loss"] = None
        /\ w["entry_long"] = x.sink.working["entry_long"]
        /\ w["entry_short"] = x.sink.working["entry_short"]
    BY <1>1 DEF Broker, Refs
  <2> HIDE DEF order, g, w
  <2>7. gone \in Broker /\ gone.working = w /\ gone.last = x.sink.last
        /\ gone.equity = x.sink.equity /\ gone.qty = x.sink.qty
    BY <1>1, <2>6 DEF Broker
  <2> HIDE DEF gone
  <2>3. /\ booked \in Broker /\ booked.last = x.sink.last /\ booked.equity = x.sink.equity + g
        /\ booked.qty = order.qty
        /\ booked.working["stop_loss"] = None
        /\ booked.working["entry_long"] = x.sink.working["entry_long"]
        /\ booked.working["entry_short"] = x.sink.working["entry_short"]
    BY <1>2, <1>3, <2>6, <2>7 DEF Broker
  <2> HIDE DEF booked
  <2>4. LET c == ReducePosition(booked, order.qty) IN
        /\ c \in Broker
        /\ c.last = booked.last /\ c.working = booked.working /\ c.equity = booked.equity
        /\ c.qty = 0 /\ c.side = None /\ c.entry = None
    BY <1>2, <2>3, BrokerReduce
  <2>5. x1.sink = ReducePosition(booked, order.qty) /\ x1 \in Engine
        /\ x1.pos = x.pos /\ x1.pnl = x.pnl /\ SameFlags(x, x1) /\ x1.orHigh = x.orHigh
        /\ x1.orLow = x.orLow /\ x1.orFinal = x.orFinal /\ x1.entryQty = x.entryQty
        /\ x1.placed = x.placed /\ x1.equity = x.equity /\ x1.lastPrice = x.lastPrice
    BY <1>1, <2>2, <2>4 DEF Filled, Engine, SameFlags
  <2> HIDE DEF x1
  <2> QED
    BY <1>1, <2>3, <2>4, <2>5 DEF SameFrame, MirrorsWhenFlat, NoEntries
<1>5. y = Eng!CheckDailyLossLimit([Eng!Emit(x2, Eng!Notify("exit")) EXCEPT !.pos = None])
  <2>1. y = Eng!HandleStopFill(x1, fill)
    BY <1>1, <1>4 DEF Eng!OnFill, Eng!EntryRefs, Eng!LongEntry, Eng!ShortEntry, Eng!StopLoss
  <2> QED
    BY <1>4, <2>1 DEF Eng!HandleStopFill
<1> HIDE DEF g, x1
<1>6. /\ x2 \in Engine /\ x2.pnl = x.pnl + g /\ x2.sink = x1.sink
      /\ SameFrame(x1, x2) /\ SameFlags(x1, x2)
  <2>1. x1.pnl + g \in Int
    BY <1>1, <1>3, <1>4
  <2> QED
    BY <1>4, <2>1 DEF Engine, SameFrame, SameFlags
<1> HIDE DEF x2
<1>7. /\ x3 \in Engine /\ x3.pos = None /\ x3.pnl = x2.pnl /\ x3.sink = x2.sink
      /\ SameFrame(x2, x3) /\ SameFlags(x2, x3)
  BY <1>6 DEF Engine, SameFrame, SameFlags
<1>8. y = Eng!CheckDailyLossLimit(x3)
  BY <1>5, <1>6, NeutralEmit DEF Eng!Notify
<1> HIDE DEF x3, y
<1>9. /\ SameFrame(x, x3) /\ SameFlags(x, x3) /\ MirrorsWhenFlat(x3) /\ NoEntries(x3)
      /\ x3.pnl = x.pnl + g /\ x3.sink.equity = x.sink.equity + g
  BY <1>4, <1>6, <1>7 DEF SameFrame, SameFlags, MirrorsWhenFlat, NoEntries
<1>10. BooksAgree(x3)
  BY <1>1, <1>3, <1>9, ReplayAssumption DEF Sound, Orderly, Core, BooksAgree
<1>11. Core(x3)
  BY <1>7, <1>9, <1>10 DEF Sound, Orderly, Core, Mirrors, SameFrame, SameFlags
<1>12. Orderly(x3) /\ Priced(x3)
  BY <1>1, <1>7, <1>9, <1>11 DEF Sound, Orderly, Priced, SameFlags, EntriesRest, NoEntries
<1>13. LET z == Eng!CheckDailyLossLimit(x3) IN
       Sound(z) /\ SameFrame(x3, z) /\ (x3.done => z.done) /\ (z.pos # None => z.pos = x3.pos)
  BY <1>12, CheckDailyLossLimitSound
<1>14. Enters(x, Eng!CheckDailyLossLimit(x3))
  BY <1>1, <1>7, <1>9, <1>13 DEF Enters, SameFrame, SameFlags
<1> QED
  BY <1>1, <1>8, <1>9, <1>13, <1>14 DEF SameFrame, y, x1, order

(* One turn of the loop of feed_bar keeps the account in step.             *)
LEMMA FeedOrderSound ==
  ASSUME NEW x, Sound(x), DoneAfterRange(x), NEW ref \in Refs, NEW S, NEW b
  PROVE  LET y == FeedOrder(x, ref, S, b) IN
         Sound(y) /\ DoneAfterRange(y) /\ y.sink.last = x.sink.last /\ Enters(x, y)
<1> DEFINE order == x.sink.working[ref]
           fill  == [ref |-> ref, price |-> order.price, qty |-> order.qty]
           f     == Eng!OnFill(Filled(x, ref), fill)
           y     == FeedOrder(x, ref, S, b)
<1>1. y = x \/ (order # None /\ y = f)
  BY DEF FeedOrder, Filled
<1>2. order # None => Sound(f) /\ SameFrame(x, f) /\ f.orFinal /\ Enters(x, f)
  BY EntryFillSound, StopFillSound DEF Refs
<1>3. Enters(x, x)
  <2>1. x.pos # None => x.pos.runnerQty \in Nat
    BY DEF Sound, Orderly, Core, Engine, Position
  <2> QED
    BY <2>1 DEF Enters
<1> HIDE DEF f, y
<1> QED
  BY <1>1, <1>2, <1>3 DEF SameFrame, DoneAfterRange, y

(* Seeing a bar changes only the last price.                               *)
LEMMA SeeBarSound ==
  ASSUME NEW x, Sound(x), DoneAfterRange(x), NEW b \in Bars
  PROVE  LET y == [x EXCEPT !.sink = SeeBar(@, b)] IN
         /\ Sound(y) /\ DoneAfterRange(y) /\ y.sink.last = b.close
         /\ y.placed = x.placed /\ y.done = x.done /\ y.pos = x.pos
<1> DEFINE c == SeeBar(x.sink, b)
           y == [x EXCEPT !.sink = SeeBar(@, b)]
<1>1. x \in Engine /\ x.sink \in Broker /\ b.close \in Int
  BY ReplayAssumption DEF Sound, Orderly, Core, Engine
<1>2. /\ c \in Broker /\ c.last = b.close /\ c.working = x.sink.working /\ c.side = x.sink.side
      /\ c.entry = x.sink.entry /\ c.qty = x.sink.qty /\ c.equity = x.sink.equity
  BY <1>1 DEF SeeBar, Broker
<1> HIDE DEF c
<1>3. y \in Engine /\ y.sink = c /\ SameEngine(x, y)
  BY <1>1, <1>2 DEF Engine, SameEngine, c
<1> HIDE DEF y
<1>4. Core(y)
  BY <1>2, <1>3 DEF Sound, Orderly, Core, Mirrors, MirrorsWhenFlat, MirrorsWhenOpen, BooksAgree,
     NoEntries, SameEngine
<1>5. LimitEnforced(y)
  BY <1>3, SameMoney DEF Sound, LimitEnforced, SameEngine
<1>6. Sound(y)
  BY <1>2, <1>3, <1>4, <1>5 DEF Sound, Orderly, EntriesRest, LongOrder, ShortOrder, SameEngine
<1> QED
  BY <1>2, <1>3, <1>6 DEF DoneAfterRange, SameEngine, y

(* feed_bar keeps the account in step.                                     *)
LEMMA FeedBarSound ==
  ASSUME NEW x, Sound(x), DoneAfterRange(x), NEW b \in Bars
  PROVE  LET y == FeedBar(x, b) IN
         Sound(y) /\ DoneAfterRange(y) /\ y.sink.last = b.close /\ Enters(x, y)
<1> DEFINE S      == {ref \in Refs : x.sink.working[ref] # None}
           seen   == [x EXCEPT !.sink = SeeBar(@, b)]
           first  == FeedOrder(seen, "entry_long", S, b)
           second == FeedOrder(first, "entry_short", S, b)
           third  == FeedOrder(second, "stop_loss", S, b)
<1>1. FeedBar(x, b) = third
  BY DEF FeedBar
<1>2. /\ Sound(seen) /\ DoneAfterRange(seen) /\ seen.sink.last = b.close
      /\ seen.placed = x.placed /\ seen.done = x.done /\ seen.pos = x.pos
  BY SeeBarSound
<1> HIDE DEF S, seen
<1>3. Sound(first) /\ DoneAfterRange(first) /\ first.sink.last = b.close /\ Enters(seen, first)
  BY <1>2, FeedOrderSound DEF Refs
<1> HIDE DEF first
<1>4. /\ Sound(second) /\ DoneAfterRange(second) /\ second.sink.last = b.close
      /\ Enters(first, second)
  BY <1>3, FeedOrderSound DEF Refs
<1> HIDE DEF second
<1>5. /\ Sound(third) /\ DoneAfterRange(third) /\ third.sink.last = b.close
      /\ Enters(second, third)
  BY <1>4, FeedOrderSound DEF Refs
<1> HIDE DEF third
<1>6. Enters(seen, third)
  BY <1>2, <1>3, <1>4, <1>5, EntersTransitive
<1>7. Enters(x, third)
  BY <1>2, <1>6 DEF Enters
<1> QED
  BY <1>1, <1>5, <1>7

-----------------------------------------------------------------------------
(* The inductive invariant of the replay.                                  *)

ReplayInv ==
  /\ Sound(e)
  /\ bar \in Bars \cup {None}
  /\ phase \in {"feed", "decide", "over"}
  /\ rows \in Nat
  /\ phase # "over" => DoneAfterRange(e)
  /\ phase = "decide" => bar \in Bars /\ e.sink.last = bar.close
  /\ phase = "feed" => Priced(e)

(* The first state satisfies the inductive invariant.                      *)
LEMMA InitReplayInv == Init => ReplayInv
<1> SUFFICES ASSUME Init PROVE ReplayInv
  OBVIOUS
<1> DEFINE b == NewBroker(StartEquity)
<1>1. /\ b \in Broker /\ b.side = None /\ b.entry = None /\ b.qty = 0
      /\ b.equity = StartEquity /\ \A r \in Refs : b.working[r] = None
  BY ReplayAssumption DEF NewBroker, Broker
<1> HIDE DEF b
<1>2. e = [orHigh |-> None, orLow |-> None, orFinal |-> FALSE, entryQty |-> 0, placed |-> FALSE,
           pos |-> None, done |-> FALSE, halted |-> FALSE, pnl |-> 0, equity |-> StartEquity,
           lastPrice |-> None, canceled |-> FALSE, sink |-> b]
  BY DEF Init, Eng!NewEngine, Eng!FreshDay, b
<1>3. Core(e)
  BY <1>1, <1>2, ReplayAssumption DEF Core, Engine, Mirrors, MirrorsWhenFlat, BooksAgree, NoEntries,
     Refs
<1>4. ~Eng!LossLimitReached(e)
  <2>1. e.pnl = 0 /\ e.equity = StartEquity
    BY <1>2
  <2>2. LossLimitUsd * 100 > 0 /\ LossLimitUsd * 100 \in Int
    BY SafetyAssumption
  <2>3. LossLimitPct # None =>
          StartEquity * LossLimitPct \in Int /\ StartEquity * LossLimitPct # 0
    BY SafetyAssumption, ReplayAssumption
  <2> DEFINE m == StartEquity * LossLimitPct
             u == LossLimitUsd * 100
  <2>4. Eng!LossLimitReached(e) <=>
          0 <= -Eng!Magnitude(IF LossLimitPct = None THEN u ELSE Eng!Smaller(u, m))
    BY <2>1 DEF Eng!LossLimitReached
  <2> HIDE DEF m, u
  <2> QED
    BY <2>2, <2>3, <2>4 DEF Eng!Magnitude, Eng!Smaller, m, u
<1>5. Sound(e)
  BY <1>1, <1>2, <1>3, <1>4 DEF Sound, Orderly, EntriesRest, LimitEnforced, Refs
<1>6. Priced(e) /\ DoneAfterRange(e)
  BY <1>2 DEF Priced, DoneAfterRange
<1> QED
  BY <1>5, <1>6 DEF Init, ReplayInv

(* Every call of the replay preserves the inductive invariant.             *)
LEMMA NextReplayInv == ReplayInv /\ [Next]_vars => ReplayInv'
<1> SUFFICES ASSUME ReplayInv, [Next]_vars PROVE ReplayInv'
  OBVIOUS
<1>1. CASE Feed
  <2>1. PICK b \in Bars : bar' = b /\ e' = FeedBar(e, b)
    BY <1>1 DEF Feed
  <2>2. Sound(e') /\ DoneAfterRange(e') /\ (e').sink.last = b.close
    BY <1>1, <2>1, FeedBarSound DEF ReplayInv, Feed
  <2>3. phase' = "decide" /\ rows' \in Nat
    BY <1>1 DEF Feed, ReplayInv
  <2> QED
    BY <2>1, <2>2, <2>3 DEF ReplayInv
<1>2. CASE Decide
  <2>1. PICK candle \in Candles : e' = Eng!OnBar(e, bar, candle)
    BY <1>2 DEF Decide
  <2>2. Sound(e') /\ Priced(e') /\ DoneAfterRange(e')
    BY <1>2, <2>1, OnBarSound DEF ReplayInv, Decide
  <2> QED
    BY <1>2, <2>2 DEF ReplayInv, Decide
<1>3. CASE CloseDay
  <2>1. Managed(e, e')
    BY <1>3, CheckTimeBasedActionsSound DEF CloseDay, ReplayInv, Eng!OnWallClock
  <2> QED
    BY <1>3, <2>1 DEF ReplayInv, CloseDay, Managed
<1>4. CASE UNCHANGED vars
  BY <1>4 DEF ReplayInv, vars
<1> QED
  BY <1>1, <1>2, <1>3, <1>4 DEF Next

(* The inductive invariant holds throughout the replay.                    *)
THEOREM ReplayInvariant == Spec => []ReplayInv
BY InitReplayInv, NextReplayInv, PTL DEF Spec

-----------------------------------------------------------------------------

(* Type correctness of the replay.                                         *)
THEOREM ReplayTypeOK == Spec => []TypeOK
<1>1. ReplayInv => TypeOK
  BY DEF ReplayInv, TypeOK, Sound, Orderly, Core
<1> QED
  BY <1>1, ReplayInvariant, PTL

(* Between any two calls of the replay the simulated account holds what    *)
(* the engine believes it holds, and rests the stop the engine believes    *)
(* rests (state_machine.py and dry_run_broker.py keep separate books).     *)
THEOREM ReplayMirrors == Spec => []AccountMirrorsEngine
<1>1. ReplayInv => AccountMirrorsEngine
  BY DEF ReplayInv, AccountMirrorsEngine, Sound, Orderly, Core
<1> QED
  BY <1>1, ReplayInvariant, PTL

(* The two entries rest exactly from the finalization of the range to the  *)
(* end of trading for the day.                                             *)
THEOREM ReplayEntries == Spec => []EntriesRestWhileArmed
<1>1. ReplayInv => EntriesRestWhileArmed
  BY DEF ReplayInv, EntriesRestWhileArmed, Sound, Orderly
<1> QED
  BY <1>1, ReplayInvariant, PTL

(* The engine's realized P&L and the simulated equity agree to the dollar. *)
THEOREM ReplayEquity == Spec => []EquityMatchesPnl
<1>1. ReplayInv => EquityMatchesPnl
  BY DEF ReplayInv, EquityMatchesPnl, Sound, Orderly, Core
<1> QED
  BY <1>1, ReplayInvariant, PTL

(* The day is halted, and trading over, whenever the realized loss is at   *)
(* its limit.                                                              *)
THEOREM ReplayLossLimit == Spec => []LossLimitEnforced
<1>1. ReplayInv => LossLimitEnforced
  BY DEF ReplayInv, LossLimitEnforced, Sound
<1> QED
  BY <1>1, ReplayInvariant, PTL

-----------------------------------------------------------------------------
(* The replayed day implements OneTradeDay.                                *)

(* The stage that the engine's day is in.                                  *)
Stage(x) ==
  IF x.pos # None THEN "inTrade"
  ELSE IF x.done THEN "over"
  ELSE IF x.placed THEN "armed" ELSE "waiting"

(* The account's side of the refinement mapping, for a broker b whose      *)
(* engine's day is done or not.                                            *)
StageSeen(b, done) ==
  CASE b.side # None                                   -> "inTrade"
    [] \E ref \in Eng!EntryRefs : b.working[ref] # None -> "armed"
    [] done /\ b.side = None                           -> "over"
    [] OTHER                                           -> "waiting"

Covered(b) == IF b.working["stop_loss"] = None THEN 0 ELSE b.working["stop_loss"].qty

EntriesSeen(b) == {side \in Sides : b.working[Eng!EntryRef(side)] # None}

(* What the books show is what the engine's day calls for.                 *)
LEMMA AccountShowsDay ==
  ASSUME NEW x, Sound(x)
  PROVE  /\ StageSeen(x.sink, x.done) = Stage(x)
         /\ x.sink.side = IF x.pos # None THEN x.pos.side ELSE None
         /\ x.sink.qty = IF x.pos # None THEN x.pos.runnerQty ELSE 0
         /\ Covered(x.sink) = x.sink.qty
         /\ EntriesSeen(x.sink) = IF Stage(x) = "armed" THEN {"long", "short"} ELSE {}
         /\ x.pos # None => x.pos.runnerQty \in Nat \ {0} /\ x.pos.side \in {"long", "short"}
<1>1. /\ Mirrors(x) /\ EntriesRest(x)
      /\ x.pos # None => /\ x.done /\ x.pos.runnerQty \in Nat \ {0}
                         /\ x.pos.side \in {"long", "short"}
  BY DEF Sound, Orderly, Core, Engine, Position, Sides
<1>2. (LongOrder(x) # None /\ ShortOrder(x) # None) \/ ~(x.placed /\ ~x.done)
  <2>1. SUFFICES ASSUME x.placed PROVE LongOrder(x) # None /\ ShortOrder(x) # None
    OBVIOUS
  <2>2. x.orHigh \in Int /\ x.orLow \in Int /\ x.entryQty \in Nat \ {0}
    BY <2>1 DEF Sound, Orderly, Core
  <2>3. LongOrder(x) \in StopOrder /\ ShortOrder(x) \in StopOrder
    BY <2>2, RangeAssumption DEF LongOrder, ShortOrder, StopOrder, Sides
  <2> QED
    BY <2>3, OptionalAssumption
<1>3. /\ x.sink.side = IF x.pos # None THEN x.pos.side ELSE None
      /\ x.sink.qty = IF x.pos # None THEN x.pos.runnerQty ELSE 0
  BY <1>1 DEF Mirrors, MirrorsWhenFlat, MirrorsWhenOpen
<1>4. Covered(x.sink) = x.sink.qty
  <2>1. CASE x.pos = None
    BY <1>1, <2>1 DEF Mirrors, MirrorsWhenFlat, Covered
  <2>2. CASE x.pos # None
    <3> DEFINE o == [side |-> Opposite(x.pos.side), price |-> x.pos.stop, qty |-> x.pos.runnerQty]
    <3>1. x.sink.working["stop_loss"] = o /\ x.sink.qty = x.pos.runnerQty
      BY <1>1, <2>2 DEF Mirrors, MirrorsWhenOpen
    <3>2. x.pos \in Position
      BY <2>2 DEF Sound, Orderly, Core, Engine
    <3>3. o \in StopOrder
      BY <1>1, <2>2, <3>2 DEF StopOrder, Position, Sides, Opposite
    <3>4. o # None /\ o.qty = x.pos.runnerQty
      BY <3>3, OptionalAssumption
    <3> HIDE DEF o
    <3> QED
      BY <3>1, <3>4 DEF Covered
  <2> QED
    BY <2>1, <2>2
<1>5. /\ Eng!EntryRefs = {"entry_long", "entry_short"}
      /\ Eng!EntryRef("long") = "entry_long" /\ Eng!EntryRef("short") = "entry_short"
  BY DEF Eng!EntryRefs, Eng!EntryRef, Eng!LongEntry, Eng!ShortEntry
<1>6. IF x.placed /\ ~x.done
      THEN x.sink.working["entry_long"] # None /\ x.sink.working["entry_short"] # None
      ELSE x.sink.working["entry_long"] = None /\ x.sink.working["entry_short"] = None
  BY <1>1, <1>2 DEF EntriesRest
<1>7. Stage(x) = "armed" <=> x.placed /\ ~x.done
  BY <1>1 DEF Stage
<1>8. EntriesSeen(x.sink) = IF Stage(x) = "armed" THEN {"long", "short"} ELSE {}
  BY <1>5, <1>6, <1>7 DEF EntriesSeen, Sides
<1>9. StageSeen(x.sink, x.done) = Stage(x)
  <2>1. x.pos # None <=> x.sink.side # None
    BY <1>1, <1>3, NoneAssumption
  <2>2. (\E ref \in Eng!EntryRefs : x.sink.working[ref] # None) <=> x.placed /\ ~x.done
    BY <1>5, <1>6
  <2> QED
    BY <1>1, <2>1, <2>2 DEF StageSeen, Stage
<1> QED
  BY <1>1, <1>3, <1>4, <1>8, <1>9

(* No call makes the day skip a stage, go back one, or add to a trade.     *)
LEMMA CallsEnter ==
  ASSUME ReplayInv, Next
  PROVE  /\ Sound(e')
         /\ e.done => e'.done
         /\ e.placed => e'.placed
         /\ e'.pos # None =>
              IF e.pos = None
              THEN e.placed /\ ~e.done
              ELSE e'.pos.side = e.pos.side /\ e'.pos.runnerQty <= e.pos.runnerQty
<1>1. CASE Feed
  <2>1. PICK b \in Bars : e' = FeedBar(e, b)
    BY <1>1 DEF Feed
  <2>2. Sound(e') /\ Enters(e, e')
    BY <1>1, <2>1, FeedBarSound DEF ReplayInv, Feed
  <2> QED
    BY <2>2 DEF Enters
<1>2. CASE Decide
  <2>1. PICK candle \in Candles : e' = Eng!OnBar(e, bar, candle)
    BY <1>2 DEF Decide
  <2>2. Sound(e') /\ Reduces(e, e') /\ (e.placed => e'.placed)
    BY <1>2, <2>1, OnBarSound DEF ReplayInv, Decide
  <2> QED
    BY <2>2 DEF Reduces
<1>3. CASE CloseDay
  <2>1. Managed(e, e')
    BY <1>3, CheckTimeBasedActionsSound DEF CloseDay, ReplayInv, Eng!OnWallClock
  <2> QED
    BY <2>1 DEF Managed, Reduces, SameFrame
<1> QED
  BY <1>1, <1>2, <1>3 DEF Next

(* Every call of the replay is a step of OneTradeDay, or changes nothing   *)
(* that OneTradeDay speaks of.                                             *)
LEMMA NextIsOneTrade ==
  ASSUME ReplayInv, [Next]_vars
  PROVE  [OneTrade!Next]_(OneTrade!vars)
<1>1. CASE UNCHANGED vars
  BY <1>1 DEF vars, OneTrade!vars, AccountStage, Resting, broker
<1>2. CASE Next
  <2>1. /\ Sound(e) /\ Sound(e')
        /\ e.done => e'.done
        /\ e.placed => e'.placed
        /\ e'.pos # None =>
             IF e.pos = None
             THEN e.placed /\ ~e.done
             ELSE e'.pos.side = e.pos.side /\ e'.pos.runnerQty <= e.pos.runnerQty
    BY <1>2, CallsEnter DEF ReplayInv
  <2>2. /\ AccountStage = Stage(e)
        /\ broker.side = IF e.pos # None THEN e.pos.side ELSE None
        /\ broker.qty = IF e.pos # None THEN e.pos.runnerQty ELSE 0
        /\ (IF Resting("stop_loss") = None THEN 0 ELSE Resting("stop_loss").qty) = broker.qty
        /\ {side \in Sides : Resting(Eng!EntryRef(side)) # None}
             = IF Stage(e) = "armed" THEN {"long", "short"} ELSE {}
        /\ e.pos # None => e.pos.runnerQty \in Nat \ {0} /\ e.pos.side \in {"long", "short"}
    BY <2>1, AccountShowsDay
    DEF AccountStage, StageSeen, Covered, EntriesSeen, Resting, broker
  <2>3. /\ AccountStage' = Stage(e')
        /\ (broker.side)' = IF e'.pos # None THEN e'.pos.side ELSE None
        /\ (broker.qty)' = IF e'.pos # None THEN e'.pos.runnerQty ELSE 0
        /\ (IF Resting("stop_loss") = None THEN 0 ELSE Resting("stop_loss").qty)' = (broker.qty)'
        /\ {side \in Sides : Resting(Eng!EntryRef(side)) # None}'
             = IF Stage(e') = "armed" THEN {"long", "short"} ELSE {}
        /\ e'.pos # None => e'.pos.runnerQty \in Nat \ {0} /\ e'.pos.side \in {"long", "short"}
    BY <2>1, AccountShowsDay
    DEF AccountStage, StageSeen, Covered, EntriesSeen, Resting, broker
  <2>4. e.pos # None => e.done
    BY <2>1 DEF Sound, Orderly
  <2>5. e'.pos # None => e'.done
    BY <2>1 DEF Sound, Orderly
  <2>6. CASE Stage(e) = "waiting"
    BY <2>1, <2>2, <2>3, <2>6
    DEF Stage, OneTrade!Next, OneTrade!Arm, OneTrade!Finish, OneTrade!Bare, OneTrade!vars
  <2>7. CASE Stage(e) = "armed"
    BY <2>1, <2>2, <2>3, <2>5, <2>7
    DEF Stage, OneTrade!Next, OneTrade!Enter, OneTrade!Finish, OneTrade!Bare, OneTrade!vars
  <2>8. CASE Stage(e) = "inTrade"
    BY <2>1, <2>2, <2>3, <2>4, <2>8
    DEF Stage, OneTrade!Next, OneTrade!Reduce, OneTrade!Finish, OneTrade!Bare, OneTrade!vars
  <2>9. CASE Stage(e) = "over"
    BY <2>1, <2>2, <2>3, <2>4, <2>9 DEF Stage, OneTrade!vars
  <2> QED
    BY <2>6, <2>7, <2>8, <2>9 DEF Stage
<1> QED
  BY <1>1, <1>2

(* The first state of a replay is the first of OneTradeDay.                *)
LEMMA InitIsOneTrade == Init => OneTrade!Init
<1> SUFFICES ASSUME Init PROVE OneTrade!Init
  OBVIOUS
<1>1. Sound(e)
  BY InitReplayInv DEF ReplayInv
<1>2. Stage(e) = "waiting" /\ e.pos = None
  BY DEF Init, Eng!NewEngine, Eng!FreshDay, Stage
<1> QED
  BY <1>1, <1>2, AccountShowsDay
  DEF OneTrade!Init, AccountStage, StageSeen, Covered, EntriesSeen, Resting, broker

(* The replayed day implements the safety part of OneTradeDay, seen from   *)
(* the broker's books: one trade, covered by its stop for exactly what is  *)
(* held, only ever reduced, and nothing left at the end of it.  (That it   *)
(* ends is model-checked.)                                                 *)
THEOREM ReplayIsOneTrade == Spec => OneTrade!Init /\ [][OneTrade!Next]_(OneTrade!vars)
<1>1. ReplayInv /\ [Next]_vars => [OneTrade!Next]_(OneTrade!vars)
  BY NextIsOneTrade
<1> QED
  BY <1>1, InitIsOneTrade, ReplayInvariant, PTL DEF Spec
=============================================================================
