-------------------------- MODULE AppSessionProofs --------------------------
(***************************************************************************)
(* The default mode of app.py, for every configuration that loads, every   *)
(* bar, every pause and any number of crashes, errors and stale bars.      *)
(*                                                                         *)
(* The engine only ever decides; what reaches the broker is still in the   *)
(* list of actions being dispatched.  Tracked relates the three: the       *)
(* broker's orders, the actions to come and what the engine remembers.     *)
(***************************************************************************)
EXTENDS AppSession, TLAPS

-----------------------------------------------------------------------------
(* Actions still to be dispatched.                                         *)

Places(a, ref)  == a.type = "place" /\ a.ref = ref
Cancels(a, ref) == a.type = "cancel" /\ a.ref = ref

(* No entry order is going to be placed.                                   *)
NoPlace(q) == \A i \in 1..Len(q) : q[i].type # "place"

(* No entry order of this reference rests or is going to.                  *)
Quiet(b, q, ref) ==
  b.working[ref] = None /\ \A i \in 1..Len(q) : ~Places(q[i], ref)

(* Whatever order of this reference rests is going to be cancelled.        *)
PendingCancel(q, ref) ==
  \E i \in 1..Len(q) : Cancels(q[i], ref) /\ \A j \in (i + 1)..Len(q) : ~Places(q[j], ref)

(* The engine knows of every entry order that rests at broker b.           *)
Tracked(b, x) ==
  /\ x.canceled => x.placed
  /\ x.placed => x.orFinal
  /\ ~x.placed => \A ref \in Eng!EntryRefs : Quiet(b, x.sink, ref)
  /\ x.canceled => \A ref \in Eng!EntryRefs :
                     Quiet(b, x.sink, ref) \/ PendingCancel(x.sink, ref)

(* What an event makes of a session's engine.                              *)
Follows(b, x, y) ==
  /\ y \in Engine /\ Tracked(b, y)
  /\ x.done => y.done
  /\ x.placed => y.placed
  /\ x.orFinal => y.orFinal
  /\ x.orFinal /\ NoPlace(x.sink) => NoPlace(y.sink)

-----------------------------------------------------------------------------
(* The inductive invariant.                                                *)

(* Nothing opens a position that the engine hears of, so no stop rests.    *)
NoStopRests == broker # None => broker.working["stop_loss"] = None

(* Between two turns everything is dispatched and the day is the saved one. *)
TurnOver == pc = "wait" => e.sink = <<>> /\ Eng!DayOf(e) = SessionDay

EngineTracks == e # None => Tracked(broker, e)

(* A day resumed from the store does not fall behind it.                   *)
StoreHonoured ==
  store.day # None /\ e # None =>
    /\ store.day.done => e.done
    /\ store.day.placed => e.placed /\ NoPlace(e.sink)

(* Between two sessions no order rests that the next would not know of.    *)
NoOrphans ==
  pc = "idle" /\ ~SessionDay.placed =>
    \A ref \in Eng!EntryRefs : broker.working[ref] = None

DaySound == SessionDay.placed => SessionDay.orFinal

Inv ==
  /\ TypeOK /\ NoStopRests /\ TurnOver /\ EngineTracks /\ StoreHonoured
  /\ NoOrphans /\ DaySound
-----------------------------------------------------------------------------
(* The engine of a session.                                                *)

(* An event that is two.                                                   *)
LEMMA FollowsTransitive ==
  ASSUME NEW b, NEW x, NEW y, NEW z, Follows(b, x, y), Follows(b, y, z)
  PROVE  Follows(b, x, z)
BY DEF Follows

SameBook(x, y) ==
  /\ y.placed = x.placed /\ y.canceled = x.canceled
  /\ y.orFinal = x.orFinal /\ y.done = x.done

(* An action appended to the sink changes nothing else.                    *)
LEMMA EmitAppends ==
  ASSUME NEW x \in Engine, NEW a \in Action
  PROVE  /\ Eng!Emit(x, a) = [x EXCEPT !.sink = Append(x.sink, a)]
         /\ Eng!Emit(x, a) \in Engine /\ SameBook(x, Eng!Emit(x, a))
         /\ Eng!Emit(x, a).sink = Append(x.sink, a)
         /\ Append(x.sink, a) \in Seq(Action)
         /\ Len(Append(x.sink, a)) = Len(x.sink) + 1
         /\ \A i \in 1..Len(x.sink) : Append(x.sink, a)[i] = x.sink[i]
         /\ Append(x.sink, a)[Len(x.sink) + 1] = a
         /\ Len(x.sink) \in Nat
<1>1. x.sink \in Seq(Action)
  BY DEF Engine
<1>2. Append(x.sink, a) \in Seq(Action)
  BY <1>1
<1>3. Eng!Emit(x, a) = [x EXCEPT !.sink = Append(x.sink, a)]
  BY DEF Eng!Emit
<1>4. Eng!Emit(x, a) \in Engine /\ SameBook(x, Eng!Emit(x, a))
      /\ Eng!Emit(x, a).sink = Append(x.sink, a)
  BY <1>2, <1>3 DEF Engine, SameBook
<1> QED
  BY <1>1, <1>2, <1>3, <1>4

(* Alerts and notifications place and cancel nothing.                      *)
LEMMA NeutralFollows ==
  ASSUME NEW b, NEW x \in Engine, Tracked(b, x),
         NEW a \in Action, a.type \notin {"place", "cancel"}
  PROVE  Follows(b, x, Eng!Emit(x, a))
<1> DEFINE q == x.sink
           r == Append(q, a)
           y == [x EXCEPT !.sink = r]
<1>1. /\ Eng!Emit(x, a) = y /\ y \in Engine /\ Len(r) = Len(q) + 1 /\ Len(q) \in Nat
      /\ \A i \in 1..Len(q) : r[i] = q[i]
      /\ r[Len(q) + 1] = a
  BY EmitAppends
<1>2. /\ y.sink = r /\ y.placed = x.placed /\ y.canceled = x.canceled
      /\ y.orFinal = x.orFinal /\ y.done = x.done
  BY DEF Engine
<1> HIDE DEF r, y
<1>3. ASSUME NEW ref, Quiet(b, q, ref) PROVE Quiet(b, r, ref)
  BY <1>1, <1>3 DEF Quiet, Places
<1>4. ASSUME NEW ref, PendingCancel(q, ref) PROVE PendingCancel(r, ref)
  <2>1. PICK i \in 1..Len(q) :
          Cancels(q[i], ref) /\ \A j \in (i + 1)..Len(q) : ~Places(q[j], ref)
    BY <1>4 DEF PendingCancel
  <2>2. i \in 1..Len(r) /\ Cancels(r[i], ref)
    BY <1>1, <2>1
  <2>3. ASSUME NEW j \in (i + 1)..Len(r) PROVE ~Places(r[j], ref)
    BY <1>1, <2>1, <2>3 DEF Places
  <2> QED
    BY <2>2, <2>3 DEF PendingCancel
<1>5. ASSUME NoPlace(q) PROVE NoPlace(r)
  BY <1>1, <1>5 DEF NoPlace
<1>6. Tracked(b, y)
  BY <1>2, <1>3, <1>4 DEF Tracked
<1> HIDE DEF q
<1> QED
  BY <1>1, <1>2, <1>5, <1>6 DEF Follows, q

(* CancelEntries asks for the cancel of both entries.                      *)
LEMMA CancelEntriesFollows ==
  ASSUME NEW b, NEW x \in Engine, Tracked(b, x)
  PROVE  Follows(b, x, Eng!CancelEntries(x))
<1>1. CASE ~(x.placed /\ ~x.canceled)
  BY <1>1 DEF Eng!CancelEntries, Follows
<1>2. CASE x.placed /\ ~x.canceled
  <2> DEFINE q == x.sink
             m == [x EXCEPT !.canceled = TRUE]
             c == Eng!Cancel("entry_long")
             d == Eng!Cancel("entry_short")
             u == Eng!Emit(m, c)
             y == Eng!Emit(u, d)
  <2>1. Eng!CancelEntries(x) = y
    BY <1>2 DEF Eng!CancelEntries, Eng!LongEntry, Eng!ShortEntry
  <2>2. m \in Engine /\ m.sink = q /\ m.canceled /\ m.placed = x.placed /\ m.done = x.done
        /\ m.orFinal = x.orFinal
    BY DEF Engine
  <2>3. c \in Action /\ d \in Action
    BY DEF Action, Eng!Cancel, Eng!EntryRefs, Eng!LongEntry, Eng!ShortEntry
  <2> HIDE DEF m
  <2> HIDE DEF c, q
  <2>4. /\ u.sink = Append(m.sink, c) /\ u \in Engine /\ SameBook(m, u)
        /\ Len(m.sink) \in Nat /\ Len(Append(m.sink, c)) = Len(m.sink) + 1
        /\ \A i \in 1..Len(m.sink) : Append(m.sink, c)[i] = m.sink[i]
        /\ Append(m.sink, c)[Len(m.sink) + 1] = c
    BY <2>2, <2>3, EmitAppends
  <2>5. u.sink = Append(q, c) /\ u.canceled /\ u.placed = x.placed /\ u.done = x.done
        /\ u.orFinal = x.orFinal
    BY <2>2, <2>4 DEF SameBook
  <2> DEFINE r == Append(u.sink, d)
  <2> HIDE DEF u
  <2>6. /\ y.sink = r /\ y \in Engine /\ SameBook(u, y)
        /\ Len(r) = Len(u.sink) + 1
        /\ \A i \in 1..Len(u.sink) : r[i] = u.sink[i]
        /\ r[Len(u.sink) + 1] = d
    BY <2>3, <2>4, EmitAppends
  <2>7. y.sink = r /\ y.canceled /\ y.placed = x.placed /\ y.done = x.done
        /\ y.orFinal = x.orFinal
    BY <2>5, <2>6 DEF SameBook
  <2> HIDE DEF r
  <2>8. /\ Len(r) = Len(q) + 2 /\ Len(q) \in Nat
        /\ \A i \in 1..Len(q) : r[i] = q[i]
        /\ r[Len(q) + 1] = c /\ r[Len(q) + 2] = d
    BY <2>2, <2>4, <2>5, <2>6
  <2>9. /\ Cancels(c, "entry_long") /\ Cancels(d, "entry_short")
        /\ c.type = "cancel" /\ d.type = "cancel"
    BY DEF Cancels, Eng!Cancel, c
  <2> HIDE DEF d, y
  <2>10. PendingCancel(r, "entry_long")
    <3>1. Len(q) + 1 \in 1..Len(r) /\ Cancels(r[Len(q) + 1], "entry_long")
      BY <2>8, <2>9
    <3>2. ASSUME NEW j \in (Len(q) + 1 + 1)..Len(r) PROVE ~Places(r[j], "entry_long")
      BY <2>8, <2>9, <3>2 DEF Places
    <3> QED
      BY <3>1, <3>2 DEF PendingCancel
  <2>11. PendingCancel(r, "entry_short")
    <3>1. Len(q) + 2 \in 1..Len(r) /\ Cancels(r[Len(q) + 2], "entry_short")
      BY <2>8, <2>9
    <3>2. ASSUME NEW j \in (Len(q) + 2 + 1)..Len(r) PROVE ~Places(r[j], "entry_short")
      BY <2>8, <3>2
    <3> QED
      BY <3>1, <3>2 DEF PendingCancel
  <2>12. ASSUME NoPlace(q) PROVE NoPlace(r)
    BY <2>8, <2>9, <2>12 DEF NoPlace
  <2>13. Tracked(b, y)
    BY <1>2, <2>7, <2>10, <2>11 DEF Tracked, Eng!EntryRefs, Eng!LongEntry, Eng!ShortEntry
  <2> QED
    BY <2>1, <2>6, <2>7, <2>12, <2>13 DEF Follows, q
<1> QED
  BY <1>1, <1>2

(* Ending the day.                                                         *)
LEMMA DoneFollows ==
  ASSUME NEW b, NEW x \in Engine, Tracked(b, x)
  PROVE  Follows(b, x, [x EXCEPT !.done = TRUE])
<1> DEFINE y == [x EXCEPT !.done = TRUE]
<1>1. /\ y \in Engine /\ y.sink = x.sink /\ y.placed = x.placed /\ y.canceled = x.canceled
      /\ y.orFinal = x.orFinal /\ y.done
  BY DEF Engine
<1> HIDE DEF y
<1>2. Tracked(b, y)
  BY <1>1 DEF Tracked
<1> QED
  BY <1>1, <1>2 DEF Follows, y

(* Cancelling the entries and ending the day.                              *)
LEMMA CancelAndEndFollows ==
  ASSUME NEW b, NEW x \in Engine, Tracked(b, x)
  PROVE  Follows(b, x, [Eng!CancelEntries(x) EXCEPT !.done = TRUE])
<1> DEFINE u == Eng!CancelEntries(x)
<1>1. Follows(b, x, u)
  BY CancelEntriesFollows
<1> HIDE DEF u
<1>2. Follows(b, u, [u EXCEPT !.done = TRUE])
  BY <1>1, DoneFollows DEF Follows
<1> QED
  BY <1>1, <1>2, FollowsTransitive DEF u

(* The four timers, for an engine without a position.                      *)
LEMMA TimersFollow ==
  ASSUME NEW b, NEW x \in Engine, Tracked(b, x), NEW t
  PROVE  Follows(b, x, Eng!CheckTimeBasedActions(x, t))
<1>1. Follows(b, x, x)
  BY DEF Follows
<1> DEFINE u == Eng!EntryCutoffCheck(x, t)
           d == [Eng!CancelEntries(x) EXCEPT !.done = TRUE]
<1>2. Follows(b, x, u)
  <2>1. Follows(b, x, d)
    BY CancelAndEndFollows
  <2>2. Follows(b, d, Eng!Emit(d, Eng!Notify("no_trade")))
    <3>1. Eng!Notify("no_trade") \in Action
          /\ Eng!Notify("no_trade").type \notin {"place", "cancel"}
      BY DEF Eng!Notify, Action
    <3> HIDE DEF d
    <3> QED
      BY <2>1, <3>1, NeutralFollows DEF Follows
  <2>3. Follows(b, x, Eng!Emit(d, Eng!Notify("no_trade")))
    BY <2>1, <2>2, FollowsTransitive
  <2>4. u = x \/ u = Eng!Emit(d, Eng!Notify("no_trade"))
    BY DEF Eng!EntryCutoffCheck
  <2> HIDE DEF u, d
  <2> QED
    BY <1>1, <2>3, <2>4
<1> HIDE DEF u
<1>3. u \in Engine /\ Tracked(b, u) /\ u.pos = None
  BY <1>2 DEF Follows, Engine
<1>4. Eng!FomcCheck(Eng!WhipsawCheck(u, t), t) = u
  BY <1>3 DEF Eng!FomcCheck, Eng!WhipsawCheck
<1>5. Follows(b, u, Eng!HardCloseCheck(u, t))
  <2>1. Follows(b, u, [Eng!CancelEntries(u) EXCEPT !.done = TRUE])
    BY <1>3, CancelAndEndFollows
  <2>2. Follows(b, u, u)
    BY <1>3 DEF Follows
  <2> QED
    BY <1>3, <2>1, <2>2 DEF Eng!HardCloseCheck
<1>6. Eng!CheckTimeBasedActions(x, t) = Eng!HardCloseCheck(u, t)
  BY <1>4 DEF Eng!CheckTimeBasedActions, u
<1> QED
  BY <1>2, <1>5, <1>6, FollowsTransitive

-----------------------------------------------------------------------------
(* A bar.                                                                  *)

(* Widening the range.                                                     *)
LEMMA UpdateRangeFollows ==
  ASSUME NEW b, NEW x \in Engine, Tracked(b, x),
         NEW bar, bar.high \in Int, bar.low \in Int
  PROVE  Follows(b, x, Eng!UpdateRange(x, bar)) /\ Eng!UpdateRange(x, bar).orFinal = x.orFinal
<1> DEFINE h == IF x.orHigh = None THEN bar.high ELSE Eng!Greater(x.orHigh, bar.high)
           l == IF x.orLow = None THEN bar.low ELSE Eng!Smaller(x.orLow, bar.low)
           y == [x EXCEPT !.orHigh = h, !.orLow = l]
<1>1. Eng!UpdateRange(x, bar) = y
  BY DEF Eng!UpdateRange
<1>2. h \in Int /\ l \in Int
  BY DEF Eng!Greater, Eng!Smaller, Engine
<1> HIDE DEF h, l
<1>3. y \in Engine /\ y.sink = x.sink /\ SameBook(x, y)
  BY <1>2 DEF Engine, SameBook
<1> HIDE DEF y
<1>4. Tracked(b, y)
  BY <1>3 DEF Tracked, SameBook
<1> QED
  BY <1>1, <1>3, <1>4 DEF Follows, SameBook

(* Ending the range without entries.                                       *)
LEMMA StopFollows ==
  ASSUME NEW b, NEW x \in Engine, Tracked(b, x), ~x.orFinal,
         NEW a \in Action, a.type \notin {"place", "cancel"}
  PROVE  Follows(b, x, Eng!Emit([x EXCEPT !.orFinal = TRUE, !.done = TRUE], a))
<1> DEFINE y == [x EXCEPT !.orFinal = TRUE, !.done = TRUE]
<1>1. /\ y \in Engine /\ y.sink = x.sink /\ y.placed = x.placed /\ y.canceled = x.canceled
      /\ y.orFinal /\ y.done
  BY DEF Engine
<1> HIDE DEF y
<1>2. Tracked(b, y) /\ Follows(b, x, y)
  BY <1>1 DEF Tracked, Follows
<1>3. Follows(b, y, Eng!Emit(y, a))
  BY <1>1, <1>2, NeutralFollows
<1> QED
  BY <1>2, <1>3, FollowsTransitive DEF y

(* The bracket: both entries.                                              *)
LEMMA BracketFollows ==
  ASSUME NEW b, NEW x \in Engine, Tracked(b, x), ~x.orFinal,
         NEW qty \in 1..SanityCap, NEW high \in Int, NEW low \in Int
  PROVE  LET armed == [x EXCEPT !.orFinal = TRUE, !.entryQty = qty, !.placed = TRUE]
             buy   == Eng!Emit(armed, Eng!Place("entry_long", "long", high, qty))
             both  == Eng!Emit(buy, Eng!Place("entry_short", "short", low, qty))
         IN  Follows(b, x, Eng!Emit(both, Eng!Notify("entry_orders_placed")))
<1> DEFINE armed == [x EXCEPT !.orFinal = TRUE, !.entryQty = qty, !.placed = TRUE]
           c     == Eng!Place("entry_long", "long", high, qty)
           d     == Eng!Place("entry_short", "short", low, qty)
           n     == Eng!Notify("entry_orders_placed")
           buy   == Eng!Emit(armed, c)
           both  == Eng!Emit(buy, d)
           y     == Eng!Emit(both, n)
<1>1. qty \in Nat \ {0} /\ qty \in 0..SanityCap
  BY RiskAssumption
<1>2. c \in Action /\ d \in Action /\ n \in Action
  BY <1>1 DEF Action, Eng!Place, Eng!Notify, Eng!EntryRefs, Eng!LongEntry, Eng!ShortEntry, Sides
<1>3. armed \in Engine /\ armed.placed /\ armed.orFinal /\ armed.canceled = x.canceled
      /\ armed.done = x.done
  BY <1>1 DEF Engine
<1> HIDE DEF armed, c, d, n
<1>4. buy \in Engine /\ SameBook(armed, buy)
  BY <1>2, <1>3, EmitAppends
<1> HIDE DEF buy
<1>5. both \in Engine /\ SameBook(buy, both)
  BY <1>2, <1>4, EmitAppends
<1> HIDE DEF both
<1>6. y \in Engine /\ SameBook(both, y)
  BY <1>2, <1>5, EmitAppends
<1> HIDE DEF y
<1>7. ~x.canceled
  BY DEF Tracked
<1>8. y \in Engine /\ y.placed /\ y.orFinal /\ ~y.canceled /\ y.done = x.done
  BY <1>3, <1>4, <1>5, <1>6, <1>7 DEF SameBook
<1>9. Tracked(b, y)
  BY <1>8 DEF Tracked
<1>10. Follows(b, x, y)
  BY <1>8, <1>9 DEF Follows
<1> QED
  BY <1>10 DEF y, both, buy, armed, c, d, n

(* The size of an entry order is between the refusal and the cap.          *)
LEMMA SizeIsCapped ==
  ASSUME NEW equity \in Int, NEW d \in Int
  PROVE  Eng!ComputePositionSize(equity, d) \in 0..SanityCap
<1>1. CASE d <= 0
  BY <1>1, RiskAssumption DEF Eng!ComputePositionSize, Eng!Refused
<1>2. CASE d > 0
  <2> DEFINE unit == d * PointValue
             raw == (equity * RiskBp) \div (unit * 10000)
  <2>1. unit \in Int /\ unit > 0
    <3>1. PointValue \in Int /\ PointValue > 0
      BY SafetyAssumption
    <3> QED
      BY <1>2, <3>1
  <2>2. equity * RiskBp \in Int
    BY RiskAssumption
  <2> HIDE DEF unit
  <2>3. raw \in Int
    BY <2>1, <2>2
  <2> HIDE DEF raw
  <2>4. Eng!Greater(MinContracts, raw) \in Nat
    BY <2>3, RiskAssumption DEF Eng!Greater
  <2>5. SizingMode = "fixed" => FixedContracts \in 0..SanityCap
    BY RiskAssumption, NoneAssumption
  <2>6. SanityCap \in Nat
    BY RiskAssumption
  <2> QED
    BY <2>4, <2>5, <2>6 DEF Eng!ComputePositionSize, Eng!Refused, raw, unit
<1> QED
  BY <1>1, <1>2

(* The range is final; the entries are placed or the day is over.          *)
LEMMA FinalizeFollows ==
  ASSUME NEW b, NEW x \in Engine, Tracked(b, x), ~x.orFinal
  PROVE  Follows(b, x, Eng!FinalizeOpeningRange(x))
<1> DEFINE stop  == [x EXCEPT !.orFinal = TRUE, !.done = TRUE]
           qty   == Eng!ComputePositionSize(x.equity, (x.orHigh - x.orLow) + 2 * Buffer)
           armed == [x EXCEPT !.orFinal = TRUE, !.entryQty = qty, !.placed = TRUE]
           c     == Eng!Place("entry_long", "long", x.orHigh + Buffer, qty)
           d     == Eng!Place("entry_short", "short", x.orLow - Buffer, qty)
           y     == Eng!Emit(Eng!Emit(Eng!Emit(armed, c), d), Eng!Notify("entry_orders_placed"))
<1>1. Follows(b, x, Eng!Emit(stop, Eng!Alert))
  <2>1. Eng!Alert \in Action /\ Eng!Alert.type \notin {"place", "cancel"}
    BY DEF Eng!Alert, Action
  <2> QED
    BY <2>1, StopFollows
<1>2. Follows(b, x, Eng!Emit(stop, Eng!Notify("no_trade")))
  <2>1. Eng!Notify("no_trade") \in Action
        /\ Eng!Notify("no_trade").type \notin {"place", "cancel"}
    BY DEF Eng!Notify, Action
  <2> QED
    BY <2>1, StopFollows
<1>3. ASSUME x.orHigh # None, x.orLow # None, qty # Eng!Refused
      PROVE  Follows(b, x, y)
  <2>1. x.orHigh \in Int /\ x.orLow \in Int /\ x.equity \in Int /\ Buffer \in Int
    BY <1>3, RangeAssumption DEF Engine
  <2>2. qty \in 0..SanityCap
    <3>1. (x.orHigh - x.orLow) + 2 * Buffer \in Int
      BY <2>1
    <3> QED
      BY <2>1, <3>1, SizeIsCapped
  <2> HIDE DEF qty
  <2>3. qty \in 1..SanityCap
    BY <1>3, <2>2, RiskAssumption DEF Eng!Refused
  <2>4. x.orHigh + Buffer \in Int /\ x.orLow - Buffer \in Int
    BY <2>1
  <2> QED
    BY <2>3, <2>4, BracketFollows
<1>4. \/ Eng!FinalizeOpeningRange(x) = Eng!Emit(stop, Eng!Alert)
      \/ Eng!FinalizeOpeningRange(x) = Eng!Emit(stop, Eng!Notify("no_trade"))
      \/ /\ x.orHigh # None /\ x.orLow # None /\ qty # Eng!Refused
         /\ Eng!FinalizeOpeningRange(x) = y
  <2>1. [[x EXCEPT !.orFinal = TRUE] EXCEPT !.done = TRUE] = stop
        /\ [[x EXCEPT !.orFinal = TRUE] EXCEPT !.entryQty = qty, !.placed = TRUE] = armed
    BY DEF Engine
  <2> QED
    BY <2>1 DEF Eng!FinalizeOpeningRange, Eng!LongEntry, Eng!ShortEntry
<1> HIDE DEF stop, y, qty
<1> QED
  BY <1>1, <1>2, <1>3, <1>4

(* A bar of the opening range, or the first after it.                      *)
LEMMA ObserveRangeFollows ==
  ASSUME NEW b, NEW x \in Engine, Tracked(b, x),
         NEW bar, bar.high \in Int, bar.low \in Int
  PROVE  Follows(b, x, Eng!ObserveRange(x, bar))
<1>1. Follows(b, x, x)
  BY DEF Follows
<1>2. CASE x.orFinal
  BY <1>1, <1>2 DEF Eng!ObserveRange
<1>3. CASE ~x.orFinal
  <2> DEFINE s == IF OrStart <= bar.time /\ bar.time < OrEnd THEN Eng!UpdateRange(x, bar) ELSE x
             y == IF bar.time >= OrEnd THEN Eng!FinalizeOpeningRange(s) ELSE s
  <2>1. Follows(b, x, s) /\ s.orFinal = x.orFinal
    BY <1>1, UpdateRangeFollows
  <2>2. Eng!ObserveRange(x, bar) = y
    BY <1>3 DEF Eng!ObserveRange
  <2> HIDE DEF s
  <2>3. s \in Engine /\ Tracked(b, s) /\ ~s.orFinal
    BY <1>3, <2>1 DEF Follows
  <2>4. Follows(b, s, Eng!FinalizeOpeningRange(s))
    BY <2>3, FinalizeFollows
  <2> QED
    BY <2>1, <2>2, <2>4, FollowsTransitive
<1> QED
  BY <1>2, <1>3

(* on_bar, for an engine without a position.                               *)
LEMMA OnBarFollows ==
  ASSUME NEW b, NEW x \in Engine, Tracked(b, x), NEW bar, NEW candle,
         bar.high \in Int, bar.low \in Int, bar.close \in Int
  PROVE  Follows(b, x, Eng!OnBar(x, bar, candle))
<1> DEFINE s == [x EXCEPT !.lastPrice = bar.close]
           u == Eng!ObserveRange(s, bar)
<1>1. Follows(b, x, s)
  <2>1. s \in Engine /\ s.sink = x.sink /\ SameBook(x, s)
    BY DEF Engine, SameBook
  <2> HIDE DEF s
  <2>2. Tracked(b, s)
    BY <2>1 DEF Tracked, SameBook
  <2> QED
    BY <2>1, <2>2 DEF Follows, SameBook
<1> HIDE DEF s
<1>2. Follows(b, s, u)
  BY <1>1, ObserveRangeFollows DEF Follows
<1> HIDE DEF u
<1>3. u \in Engine /\ Tracked(b, u) /\ u.pos = None
  BY <1>2 DEF Follows, Engine
<1>4. Eng!OnBar(x, bar, candle) = Eng!CheckTimeBasedActions(u, bar.time)
  BY <1>3 DEF Eng!OnBar, u, s
<1>5. Follows(b, u, Eng!CheckTimeBasedActions(u, bar.time))
  BY <1>3, TimersFollow
<1> QED
  BY <1>1, <1>2, <1>4, <1>5, FollowsTransitive

-----------------------------------------------------------------------------
(* The simulated broker of a session.                                      *)

(* Orders only go away.                                                    *)
OnlyLess(b, c) == \A ref \in Refs : c.working[ref] \in {None, b.working[ref]}

(* An entry order that fills is gone; its callback is nobody's.            *)
LEMMA FeedOrderAccount ==
  ASSUME NEW b \in Account, NEW ref \in Eng!EntryRefs, NEW bar
  PROVE  FeedOrder(b, ref, bar) \in Account /\ OnlyLess(b, FeedOrder(b, ref, bar))
<1>1. ref \in Refs /\ ref # "stop_loss" /\ b.working \in [Refs -> StopOrder \cup {None}]
  BY DEF Refs, Account, Eng!EntryRefs, Eng!LongEntry, Eng!ShortEntry
<1>2. OnlyLess(b, b)
  BY DEF OnlyLess
<1>3. ASSUME b.working[ref] # None
      PROVE  Fill(b, ref) \in Account /\ OnlyLess(b, Fill(b, ref))
  <2> DEFINE o == b.working[ref]
             w == [b.working EXCEPT ![ref] = None]
             y == [b EXCEPT !.working = w, !.side = o.side, !.entry = o.price, !.qty = o.qty]
  <2>1. o \in StopOrder
    BY <1>1, <1>3
  <2>2. o.side \in Sides \cup {None} /\ o.price \in Int \cup {None} /\ o.qty \in Nat
    BY <2>1 DEF StopOrder
  <2>3. w \in [Refs -> StopOrder \cup {None}]
        /\ \A r \in Refs : w[r] \in {None, b.working[r]}
    BY <1>1
  <2>4. Fill(b, ref) = y
    BY <1>1 DEF Fill, Account
  <2> HIDE DEF o, w
  <2>5. y \in Account /\ y.working = w
    BY <2>2, <2>3 DEF Account
  <2> HIDE DEF y
  <2> QED
    BY <2>3, <2>4, <2>5 DEF OnlyLess
<1> QED
  BY <1>2, <1>3 DEF FeedOrder

(* A bar fills entry orders and nothing else.                              *)
LEMMA FeedBarAccount ==
  ASSUME NEW b \in Account, b.working["stop_loss"] = None, NEW bar, bar.close \in Int
  PROVE  FeedBar(b, bar) \in Account /\ OnlyLess(b, FeedBar(b, bar))
<1> DEFINE s == SeeBar(b, bar)
           u == FeedOrder(s, "entry_long", bar)
           v == FeedOrder(u, "entry_short", bar)
<1>1. s \in Account /\ s.working = b.working
  BY DEF SeeBar, Account
<1> HIDE DEF s
<1>2. "entry_long" \in Eng!EntryRefs /\ "entry_short" \in Eng!EntryRefs
  BY DEF Eng!EntryRefs, Eng!LongEntry, Eng!ShortEntry
<1>3. u \in Account /\ OnlyLess(s, u)
  BY <1>1, <1>2, FeedOrderAccount
<1> HIDE DEF u
<1>4. v \in Account /\ OnlyLess(u, v)
  BY <1>2, <1>3, FeedOrderAccount
<1> HIDE DEF v
<1>5. OnlyLess(b, v)
  BY <1>1, <1>3, <1>4 DEF OnlyLess
<1>6. v.working["stop_loss"] = None
  BY <1>5 DEF OnlyLess, Refs
<1>7. FeedBar(b, bar) = v
  BY <1>6 DEF FeedBar, FeedOrder, v, u, s
<1> QED
  BY <1>4, <1>5, <1>7

(* What is tracked stays tracked when orders go away.                      *)
LEMMA LessIsTracked ==
  ASSUME NEW b, NEW c, OnlyLess(b, c), NEW x, Tracked(b, x)
  PROVE  Tracked(c, x)
<1>1. Eng!EntryRefs \subseteq Refs
  BY DEF Refs, Eng!EntryRefs, Eng!LongEntry, Eng!ShortEntry
<1>2. ASSUME NEW ref \in Eng!EntryRefs, Quiet(b, x.sink, ref) PROVE Quiet(c, x.sink, ref)
  BY <1>1, <1>2 DEF Quiet, OnlyLess
<1> QED
  BY <1>2 DEF Tracked

(* One action dispatched: the other references are left alone, a cancel    *)
(* clears its own, and only a placement fills one.                         *)
LEMMA DispatchedAccount ==
  ASSUME NEW b \in Account, NEW a \in Action
  PROVE  /\ Dispatched(b, a) \in Account
         /\ Dispatched(b, a).working["stop_loss"] = b.working["stop_loss"]
         /\ \A ref \in Refs :
              Dispatched(b, a).working[ref] # b.working[ref] =>
                \/ Places(a, ref) /\ ~store.paused
                \/ Cancels(a, ref)
         /\ \A ref \in Refs : Cancels(a, ref) => Dispatched(b, a).working[ref] = None
<1> DEFINE y == Dispatched(b, a)
<1>1. b.working \in [Refs -> StopOrder \cup {None}]
      /\ Eng!EntryRefs = {"entry_long", "entry_short"}
  BY DEF Account, Eng!EntryRefs, Eng!LongEntry, Eng!ShortEntry
<1>2. CASE a.type = "place"
  <2> DEFINE o == [side |-> a.side, price |-> a.price, qty |-> a.qty]
             w == [b.working EXCEPT ![a.ref] = o]
  <2>1. a.ref \in Eng!EntryRefs /\ o \in StopOrder
    BY <1>2 DEF Action, StopOrder
  <2>2. y = b \/ (y = [b EXCEPT !.working = w] /\ ~store.paused)
    BY <1>2, <2>1 DEF Dispatched, Execute
  <2>3. /\ w \in [Refs -> StopOrder \cup {None}] /\ w["stop_loss"] = b.working["stop_loss"]
        /\ \A ref \in Refs : ref # a.ref => w[ref] = b.working[ref]
    BY <1>1, <2>1 DEF Refs
  <2> HIDE DEF o, w, y
  <2>4. CASE y = b
    BY <1>2, <2>4 DEF y, Cancels
  <2>5. CASE y = [b EXCEPT !.working = w] /\ ~store.paused
    <3>1. y \in Account /\ y.working = w
      BY <2>3, <2>5 DEF Account
    <3> QED
      BY <1>2, <2>3, <2>5, <3>1 DEF y, Places, Cancels
  <2> QED
    BY <2>2, <2>4, <2>5
<1>3. CASE a.type = "cancel"
  <2> DEFINE w == [b.working EXCEPT ![a.ref] = None]
  <2>1. a.ref \in Eng!EntryRefs
    BY <1>3 DEF Action
  <2>2. y = [b EXCEPT !.working = w]
    BY <1>3 DEF Dispatched, Execute
  <2>3. /\ w \in [Refs -> StopOrder \cup {None}] /\ w["stop_loss"] = b.working["stop_loss"]
        /\ \A ref \in Refs : IF ref = a.ref THEN w[ref] = None ELSE w[ref] = b.working[ref]
    BY <1>1, <2>1 DEF Refs
  <2> HIDE DEF w, y
  <2>4. y \in Account /\ y.working = w
    BY <2>2, <2>3 DEF Account
  <2> QED
    BY <1>3, <2>3, <2>4 DEF y, Cancels
<1>4. CASE a.type \notin {"place", "cancel"}
  <2>1. a.type \in {"alert", "notify"}
    BY <1>4 DEF Action
  <2>2. y = b
    BY <2>1 DEF Dispatched, Execute
  <2> HIDE DEF y
  <2> QED
    BY <1>4, <2>2 DEF y, Cancels
<1> QED
  BY <1>2, <1>3, <1>4

(* What is tracked stays tracked when the first action is dispatched.      *)
LEMMA DispatchedIsTracked ==
  ASSUME NEW b \in Account, NEW x \in Engine, Tracked(b, x), x.sink # <<>>
  PROVE  LET y == [x EXCEPT !.sink = Tail(@)] IN
         /\ y \in Engine /\ Tracked(Dispatched(b, Head(x.sink)), y)
         /\ SameBook(x, y)
         /\ NoPlace(x.sink) => NoPlace(y.sink)
         /\ Head(x.sink) \in Action
         /\ NoPlace(x.sink) => Head(x.sink).type # "place"
<1> DEFINE q == x.sink
           a == Head(q)
           r == Tail(q)
           y == [x EXCEPT !.sink = Tail(@)]
           c == Dispatched(b, a)
<1>1. q \in Seq(Action)
  BY DEF Engine
<1>2. /\ a \in Action /\ a = q[1] /\ r \in Seq(Action) /\ Len(q) \in Nat \ {0}
      /\ Len(r) = Len(q) - 1 /\ \A i \in 1..Len(r) : r[i] = q[i + 1]
  BY <1>1
<1>3. y \in Engine /\ SameBook(x, y) /\ y.sink = r
  BY <1>2 DEF Engine, SameBook
<1> HIDE DEF a, r, y
<1>4. /\ \A ref \in Refs : c.working[ref] # b.working[ref] => Places(a, ref) \/ Cancels(a, ref)
      /\ \A ref \in Refs : Cancels(a, ref) => c.working[ref] = None
  BY <1>2, DispatchedAccount
<1> HIDE DEF c, q
<1>5. Eng!EntryRefs \subseteq Refs
  BY DEF Refs, Eng!EntryRefs, Eng!LongEntry, Eng!ShortEntry
<1>6. ASSUME NEW ref \in Eng!EntryRefs, Quiet(b, q, ref) PROVE Quiet(c, r, ref)
  <2>1. ref \in Refs /\ b.working[ref] = None /\ ~Places(q[1], ref)
    BY <1>2, <1>5, <1>6 DEF Quiet
  <2>2. c.working[ref] = None
    BY <1>2, <1>4, <2>1
  <2>3. \A i \in 1..Len(r) : ~Places(r[i], ref)
    BY <1>2, <1>6 DEF Quiet
  <2> QED
    BY <2>2, <2>3 DEF Quiet
<1>7. ASSUME NEW ref \in Eng!EntryRefs, PendingCancel(q, ref)
      PROVE  Quiet(c, r, ref) \/ PendingCancel(r, ref)
  <2>1. PICK i \in 1..Len(q) :
          Cancels(q[i], ref) /\ \A j \in (i + 1)..Len(q) : ~Places(q[j], ref)
    BY <1>7 DEF PendingCancel
  <2>2. CASE i = 1
    <3>1. c.working[ref] = None
      BY <1>2, <1>4, <1>5, <2>1, <2>2
    <3>2. \A j \in 1..Len(r) : ~Places(r[j], ref)
      BY <1>2, <2>1, <2>2
    <3> QED
      BY <3>1, <3>2 DEF Quiet
  <2>3. CASE i > 1
    <3>1. i - 1 \in 1..Len(r) /\ Cancels(r[i - 1], ref)
      BY <1>2, <2>1, <2>3
    <3>2. \A j \in (i - 1 + 1)..Len(r) : ~Places(r[j], ref)
      BY <1>2, <2>1, <2>3
    <3> QED
      BY <3>1, <3>2 DEF PendingCancel
  <2> QED
    BY <2>2, <2>3
<1>8. Tracked(b, x) /\ x.sink = q
  BY DEF q
<1>9. Tracked(c, y)
  BY <1>3, <1>6, <1>7, <1>8 DEF Tracked, SameBook
<1>10. NoPlace(q) => NoPlace(r) /\ a.type # "place"
  BY <1>2 DEF NoPlace
<1> QED
  BY <1>2, <1>3, <1>8, <1>9, <1>10 DEF a, y, c

-----------------------------------------------------------------------------
(* The invariant is inductive.                                             *)

(* What the type invariant says of a session and its broker.               *)
LEMMA InvFacts ==
  ASSUME Inv
  PROVE  /\ now \in 0..SessionEnd /\ store \in Store /\ SessionDay \in Day
         /\ pc \in {"wait", "dispatch"} => e \in Engine /\ e # None
         /\ pc \notin {"wait", "dispatch"} => e = None
         /\ pc # "down" => broker \in Account /\ broker # None
         /\ pc = "down" => broker = None
         /\ pc \in {"wait", "dispatch"} =>
              Tracked(broker, e) /\ broker.working["stop_loss"] = None
<1>1. Eng!FreshDay \in Day
  BY RiskAssumption DEF Eng!FreshDay, Day
<1>2. store \in Store /\ SessionDay \in Day
  BY <1>1 DEF Inv, TypeOK, Store, SessionDay
<1>3. /\ now \in 0..SessionEnd
      /\ pc \in {"wait", "dispatch"} => e \in Engine /\ e # None
      /\ pc \notin {"wait", "dispatch"} => e = None
      /\ pc # "down" => broker \in Account /\ broker # None
      /\ pc = "down" => broker = None
  BY OptionalAssumption DEF Inv, TypeOK
<1>4. pc \in {"wait", "dispatch"} => Tracked(broker, e) /\ broker.working["stop_loss"] = None
  BY <1>3 DEF Inv, EngineTracks, NoStopRests
<1> QED
  BY <1>2, <1>3, <1>4

(* A fresh broker holds nothing.                                           *)
LEMMA NewBrokerAccount ==
  ASSUME NEW equity \in Int
  PROVE  /\ NewBroker(equity) \in Account
         /\ \A ref \in Refs : NewBroker(equity).working[ref] = None
BY DEF NewBroker, Account, Refs

(* The initial state.                                                      *)
LEMMA InitInv == Init => Inv
<1> SUFFICES ASSUME Init PROVE Inv
  OBVIOUS
<1>1. broker \in Account /\ \A ref \in Refs : broker.working[ref] = None
  BY NewBrokerAccount, AppAssumption DEF Init
<1>2. store \in Store /\ store.day = None
  BY DEF Init, Store
<1>3. TypeOK
  BY <1>1, <1>2, AppAssumption DEF Init, TypeOK
<1>4. broker.working["stop_loss"] = None /\ \A ref \in Eng!EntryRefs : broker.working[ref] = None
  BY <1>1 DEF Refs, Eng!EntryRefs, Eng!LongEntry, Eng!ShortEntry
<1>5. ~SessionDay.placed
  BY <1>2 DEF SessionDay, Eng!FreshDay
<1> QED
  BY <1>2, <1>3, <1>4, <1>5
  DEF Inv, NoStopRests, TurnOver, EngineTracks, StoreHonoured, NoOrphans, DaySound, Init

(* A session starts on the saved day, with nothing to dispatch.            *)
LEMMA StartSessionInv ==
  ASSUME Inv, StartSession
  PROVE  Inv'
<1> DEFINE engine == Eng!NewEngine(SessionDay, broker.equity, <<>>)
<1>1. SessionDay \in Day /\ broker \in Account /\ broker # None
  BY InvFacts DEF StartSession
<1>2. SessionDay' = SessionDay
  BY DEF StartSession, SessionDay
<1>3. PICK last \in Prices \cup {None} : e' = [engine EXCEPT !.lastPrice = last]
  BY DEF StartSession
<1>4. last \in Int \cup {None} /\ broker.equity \in Int
  BY <1>1, AppAssumption DEF Account
<1>5. /\ e' \in Engine /\ e'.sink = <<>> /\ e'.placed = SessionDay.placed
      /\ e'.orFinal = SessionDay.orFinal /\ e'.done = SessionDay.done /\ ~e'.canceled
      /\ Eng!DayOf(e') = SessionDay
  <2> DEFINE day == SessionDay
             equity == broker.equity
  <2>1. e' = [orHigh |-> day.orHigh, orLow |-> day.orLow, orFinal |-> day.orFinal,
              entryQty |-> day.entryQty, placed |-> day.placed, pos |-> day.pos,
              done |-> day.done, halted |-> day.halted, pnl |-> day.pnl,
              equity |-> equity, lastPrice |-> last, canceled |-> FALSE, sink |-> <<>>]
    BY <1>3 DEF Eng!NewEngine
  <2>2. day \in Day /\ equity \in Int /\ <<>> \in Seq(Action)
    BY <1>1, <1>4
  <2> HIDE DEF day, equity
  <2>3. e' \in Engine
    BY <1>4, <2>1, <2>2 DEF Day, Engine
  <2>4. /\ e'.sink = <<>> /\ e'.placed = day.placed /\ e'.orFinal = day.orFinal
        /\ e'.done = day.done /\ ~e'.canceled
    BY <2>1
  <2>5. Eng!DayOf(e') = day
    BY <2>1, <2>2 DEF Eng!DayOf, Day
  <2> QED
    BY <2>3, <2>4, <2>5 DEF day
<1>6. TypeOK'
  BY <1>5 DEF Inv, TypeOK, StartSession
<1>7. NoStopRests' /\ TurnOver' /\ NoOrphans' /\ DaySound'
  BY <1>2, <1>5 DEF Inv, NoStopRests, TurnOver, NoOrphans, DaySound, StartSession
<1>8. Tracked(broker, e')
  BY <1>5 DEF Tracked, Quiet, Inv, NoOrphans, DaySound, StartSession
<1>9. StoreHonoured'
  BY <1>5 DEF StoreHonoured, StartSession, SessionDay, NoPlace
<1> QED
  BY <1>6, <1>7, <1>8, <1>9 DEF Inv, EngineTracks, StartSession

(* A session ends between two turns: what it leaves resting is in the      *)
(* saved day.                                                              *)
LEMMA SessionOverNoOrphans ==
  ASSUME Inv, pc = "wait", ~SessionDay.placed
  PROVE  \A ref \in Eng!EntryRefs : broker.working[ref] = None
<1>1. ~e.placed
  BY DEF Inv, TurnOver, Eng!DayOf
<1>2. Tracked(broker, e)
  BY InvFacts
<1> QED
  BY <1>1, <1>2 DEF Tracked, Quiet

(* The session's end saves the equity.                                     *)
LEMMA EndSessionInv ==
  ASSUME Inv, EndSession
  PROVE  Inv'
<1>1. broker \in Account /\ store \in Store
  BY InvFacts DEF EndSession
<1>2. store' \in Store /\ store'.day = store.day
  BY <1>1 DEF EndSession, Store, Account
<1>3. SessionDay' = SessionDay
  BY <1>2 DEF SessionDay
<1>4. TypeOK'
  BY <1>2 DEF Inv, TypeOK, EndSession
<1>5. NoOrphans'
  BY <1>3, SessionOverNoOrphans DEF NoOrphans, EndSession
<1> QED
  BY <1>3, <1>4, <1>5
  DEF Inv, NoStopRests, TurnOver, EngineTracks, StoreHonoured, DaySound, EndSession

(* A failed poll drops the engine.                                         *)
LEMMA SessionErrorInv ==
  ASSUME Inv, SessionError
  PROVE  Inv'
<1>1. SessionDay' = SessionDay
  BY DEF SessionDay, SessionError
<1>2. errors' \in 0..MaxErrors
  BY AppAssumption DEF SessionError, Inv, TypeOK
<1>3. TypeOK'
  BY <1>2 DEF Inv, TypeOK, SessionError
<1>4. NoOrphans'
  BY <1>1, SessionOverNoOrphans DEF NoOrphans, SessionError
<1> QED
  BY <1>1, <1>3, <1>4
  DEF Inv, NoStopRests, TurnOver, EngineTracks, StoreHonoured, DaySound, SessionError

(* A crash leaves the store.                                               *)
LEMMA CrashInv ==
  ASSUME Inv, Crash
  PROVE  Inv'
<1>1. SessionDay' = SessionDay
  BY DEF SessionDay, Crash
<1>2. crashes' \in 0..MaxCrashes
  BY AppAssumption DEF Crash, Inv, TypeOK
<1>3. TypeOK'
  BY <1>2 DEF Inv, TypeOK, Crash
<1> QED
  BY <1>1, <1>3
  DEF Inv, NoStopRests, TurnOver, EngineTracks, StoreHonoured, NoOrphans, DaySound, Crash

(* The restarted process has a fresh broker.                               *)
LEMMA RestartInv ==
  ASSUME Inv, Restart
  PROVE  Inv'
<1>1. store \in Store /\ e = None
  BY InvFacts DEF Restart
<1>2. SavedEquity \in Int
  BY <1>1, AppAssumption DEF SavedEquity, Store
<1>3. broker' \in Account /\ \A ref \in Refs : broker'.working[ref] = None
  BY <1>2, NewBrokerAccount DEF Restart
<1>4. SessionDay' = SessionDay
  BY DEF SessionDay, Restart
<1>5. TypeOK'
  BY <1>1, <1>3 DEF Inv, TypeOK, Restart
<1>6. NoStopRests' /\ NoOrphans'
  BY <1>3 DEF NoStopRests, NoOrphans, Refs, Eng!EntryRefs, Eng!LongEntry, Eng!ShortEntry
<1> QED
  BY <1>1, <1>4, <1>5, <1>6
  DEF Inv, TurnOver, EngineTracks, StoreHonoured, DaySound, Restart

(* Time passes.                                                            *)
LEMMA TickInv ==
  ASSUME Inv, Tick
  PROVE  Inv'
<1>1. now' \in 0..SessionEnd /\ now' = now + 1 /\ now \in Int
  BY AppAssumption DEF Inv, TypeOK, Tick
<1>2. TypeOK'
  <2>1. told = None \/ (told \in Int /\ told <= now + 1)
    BY <1>1 DEF Inv, TypeOK
  <2>2. lastSeen = None \/ (lastSeen \in Int /\ lastSeen <= now + 1)
    BY <1>1 DEF Inv, TypeOK
  <2> QED
    BY <1>1, <2>1, <2>2 DEF Inv, TypeOK, Tick
<1>3. SessionDay' = SessionDay
  BY DEF SessionDay, Tick
<1> QED
  BY <1>2, <1>3
  DEF Inv, NoStopRests, TurnOver, EngineTracks, StoreHonoured, NoOrphans, DaySound, Tick

(* What a turn of the loop makes of the engine is still to be dispatched.  *)
LEMMA TurnInv ==
  ASSUME Inv, pc = "wait", pc' = "dispatch", store' = store,
         Follows(broker', e, e'), broker' \in Account, broker'.working["stop_loss"] = None,
         TypeOK'
  PROVE  Inv'
<1>1. e' \in Engine /\ e' # None /\ Tracked(broker', e')
  BY OptionalAssumption DEF Follows
<1>2. SessionDay' = SessionDay
  BY DEF SessionDay
<1>3. e # None /\ Tracked(broker, e)
  BY InvFacts
<1>4. StoreHonoured'
  <2>1. ASSUME store.day # None, store.day.done PROVE e'.done
    BY <1>3, <2>1 DEF Follows, Inv, StoreHonoured
  <2>2. ASSUME store.day # None, store.day.placed PROVE e'.placed /\ NoPlace(e'.sink)
    BY <1>3, <2>2 DEF Follows, Inv, StoreHonoured, Tracked
  <2> QED
    BY <2>1, <2>2 DEF StoreHonoured
<1> QED
  BY <1>1, <1>2, <1>4
  DEF Inv, NoStopRests, TurnOver, EngineTracks, NoOrphans, DaySound

(* A bar reaches the broker, then the engine.                              *)
LEMMA NewBarInv ==
  ASSUME Inv, NewBar
  PROVE  Inv' /\ OnlyLess(broker, broker')
<1>1. PICK t \in (now - MaxLag)..now, shape \in Shapes \cup RangeShapes :
        LET bar == [time |-> t, high |-> shape.high, low |-> shape.low, close |-> shape.close]
        IN  /\ broker' = FeedBar(broker, bar)
            /\ e' = Eng!OnBar(e, bar, None)
            /\ lastSeen' = t /\ told' = t
  BY DEF NewBar
<1> DEFINE bar == [time |-> t, high |-> shape.high, low |-> shape.low, close |-> shape.close]
<1>2. bar.high \in Int /\ bar.low \in Int /\ bar.close \in Int
  BY AppAssumption
<1>3. t \in Int /\ t <= now
  BY AppAssumption, InvFacts
<1>4. broker' = FeedBar(broker, bar) /\ e' = Eng!OnBar(e, bar, None)
  BY <1>1
<1> HIDE DEF bar
<1>5. /\ broker \in Account /\ e \in Engine /\ Tracked(broker, e)
      /\ broker.working["stop_loss"] = None /\ pc = "wait"
  BY InvFacts DEF NewBar
<1>6. broker' \in Account /\ OnlyLess(broker, broker')
  BY <1>2, <1>4, <1>5, FeedBarAccount
<1>7. Tracked(broker', e)
  BY <1>5, <1>6, LessIsTracked
<1>8. Follows(broker', e, e')
  BY <1>2, <1>4, <1>5, <1>7, OnBarFollows
<1>9. broker'.working["stop_loss"] = None
  BY <1>5, <1>6 DEF OnlyLess, Refs
<1>10. TypeOK'
  BY <1>1, <1>3, <1>6, <1>8 DEF Inv, TypeOK, NewBar, Follows
<1>11. pc' = "dispatch" /\ store' = store
  BY DEF NewBar
<1> QED
  BY <1>5, <1>6, <1>8, <1>9, <1>10, <1>11, TurnInv

(* No bar came: the engine hears the time.                                 *)
LEMMA NoBarInv ==
  ASSUME Inv, NoBar
  PROVE  Inv'
<1>1. /\ broker \in Account /\ e \in Engine /\ Tracked(broker, e) /\ now \in 0..SessionEnd
      /\ broker.working["stop_loss"] = None /\ pc = "wait"
  BY InvFacts DEF NoBar
<1>2. broker' = broker /\ pc' = "dispatch" /\ store' = store
      /\ e' = Eng!CheckTimeBasedActions(e, now)
  BY DEF NoBar, Eng!OnWallClock
<1>3. Follows(broker', e, e')
  BY <1>1, <1>2, TimersFollow
<1>4. TypeOK'
  BY <1>1, <1>3 DEF Inv, TypeOK, NoBar, Follows
<1> QED
  BY <1>1, <1>2, <1>3, <1>4, TurnInv

(* One action leaves the engine's list and reaches the broker.             *)
LEMMA DispatchInv ==
  ASSUME Inv, Dispatch
  PROVE  Inv'
<1>1. broker \in Account /\ e \in Engine /\ e # None /\ Tracked(broker, e)
      /\ pc = "dispatch" /\ e.sink # <<>> /\ broker.working["stop_loss"] = None
  BY InvFacts DEF Dispatch
<1>2. broker' = Dispatched(broker, Head(e.sink)) /\ e' = [e EXCEPT !.sink = Tail(@)]
      /\ pc' = "dispatch" /\ store' = store
  BY DEF Dispatch
<1>3. /\ e' \in Engine /\ Tracked(broker', e') /\ SameBook(e, e')
      /\ NoPlace(e.sink) => NoPlace(e'.sink)
      /\ Head(e.sink) \in Action
  BY <1>1, <1>2, DispatchedIsTracked
<1>4. broker' \in Account /\ broker'.working["stop_loss"] = None
  BY <1>1, <1>2, <1>3, DispatchedAccount
<1>5. TypeOK'
  BY <1>3, <1>4 DEF Inv, TypeOK, Dispatch
<1>6. SessionDay' = SessionDay
  BY <1>2 DEF SessionDay
<1>7. StoreHonoured'
  BY <1>1, <1>2, <1>3 DEF StoreHonoured, SameBook, Inv
<1> QED
  BY <1>2, <1>3, <1>4, <1>5, <1>6, <1>7
  DEF Inv, NoStopRests, TurnOver, EngineTracks, NoOrphans, DaySound

(* The day is written back.                                                *)
LEMMA SaveInv ==
  ASSUME Inv, Save
  PROVE  Inv' /\ store'.day = Eng!DayOf(e) /\ store'.day # None
<1>1. e \in Engine /\ e # None /\ store \in Store /\ Tracked(broker, e)
      /\ pc = "dispatch" /\ e.sink = <<>>
  BY InvFacts DEF Save
<1> DEFINE day == Eng!DayOf(e)
<1>2. day \in Day /\ day.placed = e.placed /\ day.done = e.done /\ day.orFinal = e.orFinal
  BY <1>1 DEF Eng!DayOf, Engine, Day
<1>3. store' = [store EXCEPT !.day = day] /\ e' = e /\ broker' = broker /\ pc' = "wait"
  BY DEF Save, Saved
<1>4. day # None
  BY <1>2, OptionalAssumption
<1> HIDE DEF day
<1>5. store' \in Store /\ store'.day = day
  BY <1>1, <1>2, <1>3 DEF Store
<1>6. SessionDay' = day
  BY <1>4, <1>5 DEF SessionDay
<1>7. TypeOK'
  BY <1>1, <1>5 DEF Inv, TypeOK, Save
<1>8. StoreHonoured'
  BY <1>1, <1>2, <1>3, <1>5 DEF StoreHonoured, NoPlace
<1>9. TurnOver' /\ DaySound' /\ NoOrphans'
  BY <1>1, <1>2, <1>3, <1>6 DEF TurnOver, DaySound, NoOrphans, Tracked, day
<1> QED
  BY <1>1, <1>3, <1>4, <1>5, <1>7, <1>8, <1>9 DEF Inv, NoStopRests, EngineTracks, day

(* A command touches the pause flag only.                                  *)
LEMMA CommandInv ==
  ASSUME Inv, NEW command, NEW p \in BOOLEAN, SetPaused(command, p)
  PROVE  Inv'
<1>1. store \in Store
  BY InvFacts
<1>2. store' \in Store /\ store'.day = store.day
  BY <1>1 DEF SetPaused, Store
<1>3. SessionDay' = SessionDay
  BY <1>2 DEF SessionDay
<1>4. TypeOK'
  BY <1>2 DEF Inv, TypeOK, SetPaused
<1> QED
  BY <1>2, <1>3, <1>4
  DEF Inv, NoStopRests, TurnOver, EngineTracks, StoreHonoured, NoOrphans, DaySound, SetPaused

(* Every step preserves the invariant.                                     *)
LEMMA NextInv == Inv /\ [Next]_vars => Inv'
<1> SUFFICES ASSUME Inv, [Next]_vars PROVE Inv'
  OBVIOUS
<1>1. CASE Next
  <2>1. CASE StartSession \/ EndSession \/ SessionError
    BY <2>1, StartSessionInv, EndSessionInv, SessionErrorInv
  <2>2. CASE Crash \/ Restart \/ Tick
    BY <2>2, CrashInv, RestartInv, TickInv
  <2>3. CASE NewBar \/ NoBar
    BY <2>3, NewBarInv, NoBarInv
  <2>4. CASE Dispatch \/ Save
    BY <2>4, DispatchInv, SaveInv
  <2>5. CASE Pause \/ Resume \/ Flatten
    BY <2>5, CommandInv DEF Pause, Resume, Flatten
  <2> QED
    BY <1>1, <2>1, <2>2, <2>3, <2>4, <2>5 DEF Next
<1>2. CASE UNCHANGED vars
  BY <1>2
  DEF vars, Inv, TypeOK, NoStopRests, TurnOver, EngineTracks, StoreHonoured, NoOrphans,
      DaySound, SessionDay
<1> QED
  BY <1>1, <1>2

-----------------------------------------------------------------------------
(* The theorems.                                                           *)

(* The inductive invariant holds throughout.                               *)
THEOREM Invariance == Spec => []Inv
<1> QED
  BY InitInv, NextInv, PTL DEF Spec

(* The session, its engine, its broker and its store keep their types; the *)
(* engine never comes to hold a position it was not told of.               *)
THEOREM TypeCorrect == Spec => []TypeOK
<1>1. Inv => TypeOK
  BY DEF Inv
<1> QED
  BY <1>1, Invariance, PTL

(* A day saved as done is done in every session resumed on it.             *)
THEOREM DoneDaysStayDone == Spec => []DoneSurvives
<1>1. Inv => DoneSurvives
  BY DEF Inv, StoreHonoured, DoneSurvives
<1> QED
  BY <1>1, Invariance, PTL

(* Entry orders that rest between two turns are known to the engine and    *)
(* not yet cancelled by it, so that the cutoff and the hard close will.    *)
THEOREM EntriesAreTracked == Spec => []RestingEntriesAreTracked
<1>1. Inv => RestingEntriesAreTracked
  <2> SUFFICES ASSUME Inv, pc = "wait", EntriesResting # {}
               PROVE  e.placed /\ ~e.canceled
    BY DEF RestingEntriesAreTracked
  <2>1. Tracked(broker, e) /\ e.sink = <<>>
    BY InvFacts DEF Inv, TurnOver
  <2>2. PICK ref \in Eng!EntryRefs : broker.working[ref] # None
    BY DEF EntriesResting
  <2>3. ~Quiet(broker, e.sink, ref)
    BY <2>2 DEF Quiet
  <2>4. ~PendingCancel(e.sink, ref)
    BY <2>1 DEF PendingCancel
  <2> QED
    BY <2>1, <2>3, <2>4 DEF Tracked
<1> QED
  BY <1>1, Invariance, PTL

(* The steps that can make an entry order rest are the dispatches of a     *)
(* placement while trading is not paused.                                  *)
LEMMA OnlyPlacementsRest ==
  ASSUME Inv, [Next]_vars, ~(EntriesResting' \subseteq EntriesResting)
  PROVE  Dispatch /\ Head(e.sink).type = "place" /\ ~store.paused
<1>1. Eng!EntryRefs \subseteq Refs
  BY DEF Refs, Eng!EntryRefs, Eng!LongEntry, Eng!ShortEntry
<1>2. PICK ref \in Eng!EntryRefs :
        /\ broker' # None /\ broker'.working[ref] # None
        /\ broker = None \/ broker.working[ref] = None
  BY DEF EntriesResting
<1>3. broker' # broker
  BY <1>2
<1>4. ~Restart
  <2>1. SUFFICES ASSUME Restart PROVE FALSE
    OBVIOUS
  <2>2. store \in Store
    BY InvFacts
  <2>3. SavedEquity \in Int
    BY <2>2, AppAssumption DEF SavedEquity, Store
  <2>4. broker'.working[ref] = None
    BY <1>1, <2>1, <2>3, NewBrokerAccount DEF Restart
  <2> QED
    BY <1>2, <2>4
<1>5. ~NewBar
  <2>1. SUFFICES ASSUME NewBar PROVE FALSE
    OBVIOUS
  <2>2. OnlyLess(broker, broker') /\ broker # None
    BY <2>1, NewBarInv, InvFacts DEF NewBar
  <2> QED
    BY <1>1, <1>2, <2>2 DEF OnlyLess
<1>6. Dispatch
  BY <1>2, <1>3, <1>4, <1>5
  DEF Next, vars, StartSession, EndSession, SessionError, Crash, Tick, NoBar, Save,
      Pause, Resume, Flatten, SetPaused
<1>7. broker \in Account /\ e \in Engine /\ Tracked(broker, e) /\ e.sink # <<>>
      /\ broker # None
  BY <1>6, InvFacts DEF Dispatch
<1>8. Head(e.sink) \in Action
  BY <1>7, DispatchedIsTracked
<1>9. /\ broker' = Dispatched(broker, Head(e.sink))
      /\ broker'.working[ref] # broker.working[ref]
  BY <1>2, <1>6, <1>7 DEF Dispatch
<1>10. Places(Head(e.sink), ref) /\ ~store.paused
  BY <1>1, <1>2, <1>7, <1>8, <1>9, DispatchedAccount
<1> QED
  BY <1>6, <1>10 DEF Places

(* While trading is paused no entry order is placed, whenever the pause    *)
(* came.                                                                   *)
THEOREM PausedPlacesNothing == Spec => PauseHoldsEntries
<1>1. Inv /\ [Next]_vars =>
        [store.paused => EntriesResting' \subseteq EntriesResting]_vars
  BY OnlyPlacementsRest
<1> QED
  BY <1>1, Invariance, PTL DEF Spec, PauseHoldsEntries

(* Once a saved day says that the entries were placed, it keeps saying so  *)
(* and no entry order is placed again, across crashes, errors, restarts    *)
(* and late bars.                                                          *)
THEOREM EntriesArePlacedOnce == Spec => SavedEntriesNotRepeated
<1>1. ASSUME Inv, [Next]_vars, store.day # None, store.day.placed
      PROVE  store'.day.placed /\ EntriesResting' \subseteq EntriesResting
  <2>1. CASE Save
    <3>1. store'.day = Eng!DayOf(e) /\ e # None
      BY <2>1, SaveInv, <1>1, InvFacts DEF Save
    <3>2. e.placed
      BY <1>1, <3>1 DEF Inv, StoreHonoured
    <3>3. store'.day.placed
      BY <3>1, <3>2 DEF Eng!DayOf
    <3>4. broker' = broker
      BY <2>1 DEF Save
    <3> QED
      BY <3>3, <3>4 DEF EntriesResting
  <2>2. CASE ~Save
    <3>1. store'.day = store.day
      <4>1. store \in Store
        BY <1>1, InvFacts
      <4> QED
        BY <1>1, <2>2, <4>1
        DEF Next, vars, StartSession, EndSession, SessionError, Crash, Restart, Tick, NewBar,
            NoBar, Dispatch, Pause, Resume, Flatten, SetPaused, Store
    <3>2. EntriesResting' \subseteq EntriesResting
      <4>1. SUFFICES ASSUME Dispatch, Head(e.sink).type = "place" PROVE FALSE
        BY <1>1, OnlyPlacementsRest
      <4>2. broker \in Account /\ e \in Engine /\ e # None /\ Tracked(broker, e) /\ e.sink # <<>>
        BY <1>1, <4>1, InvFacts DEF Dispatch
      <4>3. NoPlace(e.sink)
        BY <1>1, <4>2 DEF Inv, StoreHonoured
      <4> QED
        BY <4>1, <4>2, <4>3, DispatchedIsTracked
    <3> QED
      BY <1>1, <3>1, <3>2
  <2> QED
    BY <2>1, <2>2
<1>2. Inv /\ [Next]_vars =>
        [store.day # None /\ store.day.placed
           => store'.day.placed /\ EntriesResting' \subseteq EntriesResting]_vars
  BY <1>1
<1> QED
  BY <1>2, Invariance, PTL DEF Spec, SavedEntriesNotRepeated
=============================================================================
