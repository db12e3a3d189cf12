-------------------------- MODULE LiveEngineProofs --------------------------
(***************************************************************************)
(* What one handler of the engine may hand to the task that called it.     *)
(*                                                                         *)
(* LiveSession queues a handler's calls and executes them while the other  *)
(* tasks run, so its properties rest on what such a list contains and in   *)
(* which order.  Manages says this of an engine x that some part of a      *)
(* handler has made of the engine o the handler was called on; each method *)
(* has one lemma, which says that it keeps Manages.                        *)
(***************************************************************************)
EXTENDS LiveSession, SequenceTheorems, TLAPS

Action ==
  [type : {"place"}, ref : OrderRefs, side : Sides, price : Int, qty : Nat]
    \cup [type : {"cancel"}, ref : OrderRefs]
    \cup [type : {"modify_price"}, ref : {"stop_loss"}, price : Int]
    \cup [type : {"modify_qty"}, ref : {"stop_loss"}, qty : Nat]
    \cup [type : {"close"}, qty : Nat]
    \cup [type : {"notify"}, event : {"exit"}]

Engine ==
  [orHigh : Int \cup {None}, orLow : Int \cup {None}, orFinal : BOOLEAN, entryQty : Nat,
   placed : BOOLEAN, pos : Position \cup {None}, done : BOOLEAN, halted : BOOLEAN, pnl : Int,
   equity : {Equity}, lastPrice : Int \cup {None}, canceled : BOOLEAN, sink : Seq(Action)]

-----------------------------------------------------------------------------
(* Lists of calls.                                                         *)

EntryRefs == {"entry_long", "entry_short"}

EntrySide(ref) == IF ref = "entry_long" THEN "long" ELSE "short"

Places(a, ref)  == a.type = "place" /\ a.ref = ref
Cancels(a, ref) == a.type = "cancel" /\ a.ref = ref

(* An order of this reference is going to be placed, and one is going to   *)
(* be cancelled for good.                                                  *)
WillPlace(q, ref) == \E i \in 1..Len(q) : Places(q[i], ref)
WillCancel(q, ref) ==
  \E i \in 1..Len(q) : Cancels(q[i], ref) /\ \A j \in (i + 1)..Len(q) : ~Places(q[j], ref)

PlacedOnce(q) ==
  \A i, j \in 1..Len(q) :
    q[i].type = "place" /\ q[j].type = "place" /\ q[i].ref = q[j].ref => i = j

CloseQty(a) == IF a.type = "close" THEN a.qty ELSE 0

ClosesFrom(q, i) == \E j \in i..Len(q) : q[j].type = "close"

(* The closes of a list come to n contracts: c[i] is what those from place *)
(* i on come to, which is nothing where there are none.                    *)
Owes(q, n) ==
  \E c \in [1..(Len(q) + 1) -> Int] :
    /\ c[1] = n /\ c[Len(q) + 1] = 0
    /\ \A i \in 1..Len(q) :
         c[i] = c[i + 1] + CloseQty(q[i]) /\ (~ClosesFrom(q, i) => c[i] = 0)

-----------------------------------------------------------------------------
(* Days, engines and handlers.                                             *)

(* The size the range gives.                                               *)
SizeOf(d) == Eng!ComputePositionSize(Equity, (d.orHigh - d.orLow) + 2 * Buffer)

(* A position is whole until TP1, and never grows.                         *)
Whole(p) == p.runnerQty <= p.qty /\ (~p.tp1 => p.runnerQty = p.qty)

(* A day that has placed its entries has a range, and sized them by it.    *)
DaySound(d) ==
  /\ d.placed => d.orFinal /\ d.orHigh # None /\ d.orLow # None /\ d.entryQty = SizeOf(d)
  /\ ~d.placed => d.entryQty = 0
  /\ d.pos # None => Whole(d.pos)

EngineSound(x) == x \in Engine /\ DaySound(x) /\ (x.canceled => x.placed)

Runner(x) == IF x.pos = None THEN 0 ELSE x.pos.runnerQty

(* Position q is what is left of position p.                               *)
Kept(p, q) == q.side = p.side /\ q.qty = p.qty /\ q.runnerQty <= p.runnerQty

Continues(x, y) == y.pos # None => x.pos # None /\ Kept(x.pos, y.pos)

SameRange(x, y) ==
  /\ y.orHigh = x.orHigh /\ y.orLow = x.orLow /\ y.orFinal = x.orFinal
  /\ y.placed = x.placed /\ y.entryQty = x.entryQty

(* A call that a handler of engine o may have made when it has made x of   *)
(* it.  B holds the contracts that entries have brought in.                *)
Allowed(B, o, x, a) ==
  /\ a.type = "place" =>
       /\ ~o.orFinal /\ x.placed
       /\ a.ref \in EntryRefs /\ a.side = EntrySide(a.ref) /\ a.qty = x.entryQty
  /\ Cancels(a, "stop_loss") => x.pos = None
  /\ a.type = "modify_qty" /\ x.pos # None => a.qty >= x.pos.runnerQty
  /\ a.type = "close" => \E b \in B : a.qty <= b
  /\ o.pos = None =>
       a.type = "notify" \/ (a.type \in {"place", "cancel"} /\ a.ref \in EntryRefs)

Manages(B, o, x) ==
  /\ EngineSound(o) /\ B \subseteq Nat
  /\ o.pos # None => \E b \in B : o.pos.qty <= b
  /\ EngineSound(x)
  /\ (o.placed => x.placed) /\ (o.orFinal => x.orFinal)
  /\ (o.canceled => x.canceled) /\ (o.halted => x.halted)
  /\ Continues(o, x)
  /\ \A i \in 1..Len(x.sink) : Allowed(B, o, x, x.sink[i])
  /\ PlacedOnce(x.sink)
  /\ x.canceled => o.canceled \/ \A ref \in EntryRefs : WillCancel(x.sink, ref)

(* What has been closed is what is going to be.                            *)
Balanced(o, x) == \E n \in Int : Owes(x.sink, n) /\ Runner(o) = Runner(x) + n

Leads(B, o, x, y) ==
  Manages(B, o, y) /\ SameRange(x, y) /\ (Balanced(o, x) => Balanced(o, y))

-----------------------------------------------------------------------------
(* Lists of calls, proofs.                                                 *)

(* The instance's references.                                              *)
LEMMA RefsAre ==
  /\ Eng!EntryRefs = EntryRefs /\ Eng!StopLoss = "stop_loss"
  /\ Eng!LongEntry = "entry_long" /\ Eng!ShortEntry = "entry_short"
  /\ EntryRefs \subseteq OrderRefs /\ "stop_loss" \in OrderRefs /\ "stop_loss" \notin EntryRefs
BY DEF Eng!EntryRefs, Eng!StopLoss, Eng!LongEntry, Eng!ShortEntry, EntryRefs, OrderRefs

(* A list with one more call.                                              *)
LEMMA AppendFacts ==
  ASSUME NEW q \in Seq(Action), NEW a \in Action
  PROVE  LET r == Append(q, a) IN
         /\ r \in Seq(Action) /\ Len(q) \in Nat /\ Len(r) = Len(q) + 1
         /\ \A i \in 1..Len(q) : r[i] = q[i]
         /\ r[Len(q) + 1] = a
OBVIOUS

(* Nothing owes nothing.                                                   *)
LEMMA OwesNothing == Owes(<<>>, 0) /\ \A n : Owes(<<>>, n) => n = 0
<1>1. Len(<<>>) = 0
  OBVIOUS
<1>2. Owes(<<>>, 0)
  <2> DEFINE c == [i \in 1..1 |-> 0]
  <2>1. c \in [1..(Len(<<>>) + 1) -> Int] /\ c[1] = 0 /\ c[Len(<<>>) + 1] = 0
    BY <1>1
  <2>2. \A i \in 1..Len(<<>>) : FALSE
    BY <1>1
  <2> QED
    BY <2>1, <2>2 DEF Owes
<1>3. ASSUME NEW n, Owes(<<>>, n) PROVE n = 0
  BY <1>1, <1>3 DEF Owes
<1> QED
  BY <1>2, <1>3

(* One more call owes what it closes.                                      *)
LEMMA OwesMore ==
  ASSUME NEW q \in Seq(Action), NEW a \in Action, NEW n \in Int, Owes(q, n)
  PROVE  Owes(Append(q, a), n + CloseQty(a)) /\ CloseQty(a) \in Int
<1> DEFINE r == Append(q, a)
           k == CloseQty(a)
<1>1. /\ Len(q) \in Nat /\ Len(r) = Len(q) + 1 /\ \A i \in 1..Len(q) : r[i] = q[i]
      /\ r[Len(q) + 1] = a
  BY AppendFacts
<1>2. k \in Int
  BY DEF CloseQty, Action
<1>3. PICK c \in [1..(Len(q) + 1) -> Int] :
        /\ c[1] = n /\ c[Len(q) + 1] = 0
        /\ \A i \in 1..Len(q) :
             c[i] = c[i + 1] + CloseQty(q[i]) /\ (~ClosesFrom(q, i) => c[i] = 0)
  BY DEF Owes
<1> DEFINE d == [i \in 1..(Len(r) + 1) |-> IF i = Len(r) + 1 THEN 0 ELSE c[i] + k]
<1> HIDE DEF r
<1>4. d \in [1..(Len(r) + 1) -> Int] /\ d[1] = n + k /\ d[Len(r) + 1] = 0
  BY <1>1, <1>2, <1>3
<1>5. ASSUME NEW i \in 1..Len(r) PROVE d[i] = d[i + 1] + CloseQty(r[i])
  <2>1. CASE i = Len(r)
    BY <1>1, <1>2, <1>3, <2>1
  <2>2. CASE i # Len(r)
    <3>1. i \in 1..Len(q) /\ i + 1 \in 1..(Len(q) + 1) /\ i + 1 # Len(r) + 1 /\ i # Len(r) + 1
      BY <1>1, <2>2
    <3>2. d[i] = c[i] + k /\ d[i + 1] = c[i + 1] + k /\ CloseQty(r[i]) = CloseQty(q[i])
      BY <1>1, <3>1
    <3>3. CloseQty(q[i]) \in Int
      BY <3>1 DEF CloseQty, Action
    <3>4. c[i] = c[i + 1] + CloseQty(q[i]) /\ c[i + 1] \in Int
      BY <1>3, <3>1
    <3> HIDE DEF d, k
    <3> QED
      BY <1>1, <1>2, <3>2, <3>3, <3>4
  <2> QED
    BY <2>1, <2>2
<1>6. ASSUME NEW i \in 1..Len(r), ~ClosesFrom(r, i) PROVE d[i] = 0
  <2>1. i # Len(r) + 1 /\ Len(r) \in i..Len(r) /\ d[i] = c[i] + k
    BY <1>1
  <2>2. k = 0
    BY <1>1, <1>6, <2>1 DEF ClosesFrom, CloseQty
  <2>3. c[i] = 0
    <3>1. CASE i = Len(r)
      BY <1>1, <1>3, <3>1
    <3>2. CASE i # Len(r)
      <4>1. i \in 1..Len(q) /\ \A j \in i..Len(q) : j \in i..Len(r) /\ r[j] = q[j]
        BY <1>1, <3>2
      <4>2. ~ClosesFrom(q, i)
        BY <1>6, <4>1 DEF ClosesFrom
      <4> QED
        BY <1>3, <4>1, <4>2
    <3> QED
      BY <3>1, <3>2
  <2> QED
    BY <2>1, <2>2, <2>3
<1> HIDE DEF d, k
<1>7. Owes(r, n + k)
  BY <1>4, <1>5, <1>6 DEF Owes
<1> QED
  BY <1>2, <1>7 DEF r, k

(* Without its first call a list owes what the rest does.                  *)
LEMMA OwesRest ==
  ASSUME NEW q \in Seq(Action), q # <<>>, NEW n \in Int, Owes(q, n)
  PROVE  Owes(Tail(q), n - CloseQty(Head(q))) /\ CloseQty(Head(q)) \in Int
<1> DEFINE r == Tail(q)
           k == CloseQty(Head(q))
<1>1. /\ Len(q) \in Nat \ {0} /\ Len(r) = Len(q) - 1 /\ \A i \in 1..Len(r) : r[i] = q[i + 1]
      /\ Head(q) = q[1] /\ q[1] \in Action
  OBVIOUS
<1>2. k \in Int
  BY <1>1 DEF CloseQty, Action
<1>3. PICK c \in [1..(Len(q) + 1) -> Int] :
        /\ c[1] = n /\ c[Len(q) + 1] = 0
        /\ \A i \in 1..Len(q) :
             c[i] = c[i + 1] + CloseQty(q[i]) /\ (~ClosesFrom(q, i) => c[i] = 0)
  BY DEF Owes
<1> DEFINE d == [i \in 1..(Len(r) + 1) |-> c[i + 1]]
<1> HIDE DEF r
<1>4. c[1] = c[2] + k /\ c[2] \in Int
  BY <1>1, <1>3
<1>5. d \in [1..(Len(r) + 1) -> Int] /\ d[1] = n - k /\ d[Len(r) + 1] = 0
  BY <1>1, <1>2, <1>3, <1>4
<1>6. ASSUME NEW i \in 1..Len(r) PROVE d[i] = d[i + 1] + CloseQty(r[i])
  <2>1. i + 1 \in 1..Len(q) /\ d[i] = c[i + 1] /\ d[i + 1] = c[(i + 1) + 1] /\ r[i] = q[i + 1]
    BY <1>1
  <2> QED
    BY <1>3, <2>1
<1>7. ASSUME NEW i \in 1..Len(r), ~ClosesFrom(r, i) PROVE d[i] = 0
  <2>1. i + 1 \in 1..Len(q) /\ d[i] = c[i + 1]
    BY <1>1
  <2>2. \A j \in (i + 1)..Len(q) : j - 1 \in i..Len(r) /\ r[j - 1] = q[j]
    BY <1>1
  <2>3. ~ClosesFrom(q, i + 1)
    BY <1>7, <2>2 DEF ClosesFrom
  <2> QED
    BY <1>3, <2>1, <2>3
<1> HIDE DEF d, k
<1>8. Owes(r, n - k)
  BY <1>5, <1>6, <1>7 DEF Owes
<1> QED
  BY <1>2, <1>8 DEF r, k
-----------------------------------------------------------------------------
(* What a change of an engine and a call of it keep.                       *)

(* The range's size is that of the range.                                  *)
LEMMA SameRangeSound ==
  ASSUME NEW x \in Engine, NEW y \in Engine, DaySound(x), SameRange(x, y),
         y.pos # None => Whole(y.pos)
  PROVE  DaySound(y)
BY DEF DaySound, SameRange, SizeOf

(* A call stays allowed while the position is wound down.                  *)
LEMMA AllowedStays ==
  ASSUME NEW B, NEW o \in Engine, NEW x \in Engine, NEW y \in Engine,
         SameRange(x, y), Continues(x, y), NEW a \in Action, Allowed(B, o, x, a)
  PROVE  Allowed(B, o, y, a)
<1>1. a.type = "modify_qty" /\ y.pos # None => a.qty >= y.pos.runnerQty
  <2> HAVE a.type = "modify_qty" /\ y.pos # None
  <2>1. /\ x.pos # None /\ y.pos.runnerQty <= x.pos.runnerQty /\ a.qty >= x.pos.runnerQty
        /\ y.pos \in Position /\ x.pos \in Position
    BY DEF Continues, Kept, Allowed, Engine
  <2>2. a.qty \in Nat
    BY DEF Action
  <2> QED
    BY <2>1, <2>2 DEF Position
<1>2. Cancels(a, "stop_loss") => y.pos = None
  BY DEF Continues, Allowed
<1> QED
  BY <1>1, <1>2 DEF Allowed, SameRange

(* Winding down composes.                                                  *)
LEMMA ContinuesTransitive ==
  ASSUME NEW x \in Engine, NEW y \in Engine, NEW z \in Engine,
         Continues(x, y), Continues(y, z)
  PROVE  Continues(x, z)
<1> SUFFICES ASSUME z.pos # None PROVE x.pos # None /\ Kept(x.pos, z.pos)
  BY DEF Continues
<1>1. y.pos # None /\ x.pos # None /\ Kept(x.pos, y.pos) /\ Kept(y.pos, z.pos)
  BY DEF Continues
<1>2. x.pos \in Position /\ y.pos \in Position /\ z.pos \in Position
  BY <1>1 DEF Engine
<1>3. x.pos.runnerQty \in Nat /\ y.pos.runnerQty \in Nat /\ z.pos.runnerQty \in Nat
  BY <1>2 DEF Position
<1> QED
  BY <1>1, <1>3 DEF Kept

(* What a part of a handler leaves to the entries.                         *)
SameBook(x, y) ==
  SameRange(x, y) /\ y.canceled = x.canceled /\ (x.halted => y.halted)

(* A part of a handler that calls nothing.                                 *)
LEMMA Changing ==
  ASSUME NEW B, NEW o, NEW x, NEW y \in Engine, Manages(B, o, x),
         SameBook(x, y), Continues(x, y), y.pos # None => Whole(y.pos),
         y.sink = x.sink
  PROVE  Manages(B, o, y) /\ (Runner(y) = Runner(x) => Leads(B, o, x, y))
<1>1. o \in Engine /\ x \in Engine /\ DaySound(x) /\ x.sink \in Seq(Action)
  BY DEF Manages, EngineSound, Engine
<1>2. DaySound(y)
  BY <1>1, SameRangeSound DEF SameBook
<1>3. Continues(o, y)
  BY <1>1, ContinuesTransitive DEF Manages
<1>4. ASSUME NEW i \in 1..Len(y.sink) PROVE Allowed(B, o, y, y.sink[i])
  <2>1. y.sink[i] = x.sink[i] /\ x.sink[i] \in Action /\ Allowed(B, o, x, x.sink[i])
    BY <1>1 DEF Manages
  <2> QED
    BY <1>1, <2>1, AllowedStays DEF SameBook
<1>5. Manages(B, o, y)
  BY <1>1, <1>2, <1>3, <1>4 DEF Manages, EngineSound, SameBook, SameRange
<1>6. Runner(y) = Runner(x) => (Balanced(o, x) => Balanced(o, y))
  BY DEF Balanced
<1> QED
  BY <1>5, <1>6 DEF Leads, SameBook

(* What is appended to a list that places nothing new.                     *)
LEMMA AppendKeeps ==
  ASSUME NEW q \in Seq(Action), NEW a \in Action, a.type # "place"
  PROVE  /\ PlacedOnce(q) => PlacedOnce(Append(q, a))
         /\ \A ref : WillCancel(q, ref) => WillCancel(Append(q, a), ref)
         /\ \A ref : Cancels(a, ref) => WillCancel(Append(q, a), ref)
         /\ \A ref : WillPlace(q, ref) <=> WillPlace(Append(q, a), ref)
<1> DEFINE r == Append(q, a)
<1>1. /\ Len(q) \in Nat /\ Len(r) = Len(q) + 1 /\ \A i \in 1..Len(q) : r[i] = q[i]
      /\ r[Len(q) + 1] = a
  BY AppendFacts
<1> HIDE DEF r
<1>2. ASSUME NEW i \in 1..Len(r), i \notin 1..Len(q) PROVE i = Len(q) + 1 /\ r[i] = a
  BY <1>1, <1>2
<1>3. ASSUME NEW i \in 1..Len(r), r[i].type = "place" PROVE i \in 1..Len(q) /\ r[i] = q[i]
  BY <1>1, <1>2, <1>3
<1>4. PlacedOnce(q) => PlacedOnce(r)
  BY <1>3 DEF PlacedOnce
<1>5. ASSUME NEW ref, WillCancel(q, ref) PROVE WillCancel(r, ref)
  <2>1. PICK i \in 1..Len(q) :
          Cancels(q[i], ref) /\ \A j \in (i + 1)..Len(q) : ~Places(q[j], ref)
    BY <1>5 DEF WillCancel
  <2>2. i \in 1..Len(r) /\ Cancels(r[i], ref)
    BY <1>1, <2>1
  <2>3. ASSUME NEW j \in (i + 1)..Len(r) PROVE ~Places(r[j], ref)
    BY <1>1, <1>3, <2>1, <2>3 DEF Places
  <2> QED
    BY <2>2, <2>3 DEF WillCancel
<1>6. ASSUME NEW ref, Cancels(a, ref) PROVE WillCancel(r, ref)
  <2>1. Len(q) + 1 \in 1..Len(r) /\ Cancels(r[Len(q) + 1], ref)
    BY <1>1, <1>6
  <2>2. \A j \in (Len(q) + 1 + 1)..Len(r) : ~Places(r[j], ref)
    BY <1>1
  <2> QED
    BY <2>1, <2>2 DEF WillCancel
<1>7. ASSUME NEW ref PROVE WillPlace(q, ref) <=> WillPlace(r, ref)
  BY <1>1, <1>3 DEF WillPlace, Places
<1> QED
  BY <1>4, <1>5, <1>6, <1>7 DEF r

(* A part of a handler that makes one call, and places nothing.            *)
LEMMA Calling ==
  ASSUME NEW B, NEW o, NEW x, NEW y \in Engine, Manages(B, o, x),
         SameBook(x, y), Continues(x, y), y.pos # None => Whole(y.pos),
         NEW a \in Action, a.type # "place", y.sink = Append(x.sink, a),
         Allowed(B, o, y, a)
  PROVE  /\ Manages(B, o, y)
         /\ Runner(y) + CloseQty(a) = Runner(x) => Leads(B, o, x, y)
<1>1. o \in Engine /\ x \in Engine /\ DaySound(x) /\ x.sink \in Seq(Action)
  BY DEF Manages, EngineSound, Engine
<1>2. DaySound(y)
  BY <1>1, SameRangeSound DEF SameBook
<1>3. Continues(o, y)
  BY <1>1, ContinuesTransitive DEF Manages
<1>4. ASSUME NEW i \in 1..Len(y.sink) PROVE Allowed(B, o, y, y.sink[i])
  <2>1. /\ Len(x.sink) \in Nat /\ Len(y.sink) = Len(x.sink) + 1
        /\ \A j \in 1..Len(x.sink) : y.sink[j] = x.sink[j]
        /\ y.sink[Len(x.sink) + 1] = a
    BY <1>1, AppendFacts
  <2>2. CASE i \in 1..Len(x.sink)
    <3>1. y.sink[i] = x.sink[i] /\ x.sink[i] \in Action /\ Allowed(B, o, x, x.sink[i])
      BY <1>1, <2>1, <2>2 DEF Manages
    <3> QED
      BY <1>1, <3>1, AllowedStays DEF SameBook
  <2>3. CASE i \notin 1..Len(x.sink)
    <3>1. i = Len(x.sink) + 1
      BY <2>1, <2>3
    <3> QED
      BY <2>1, <3>1
  <2> QED
    BY <2>2, <2>3
<1>5. /\ PlacedOnce(y.sink)
      /\ y.canceled => o.canceled \/ \A ref \in EntryRefs : WillCancel(y.sink, ref)
  BY <1>1, AppendKeeps DEF Manages, SameBook
<1>6. Manages(B, o, y)
  BY <1>1, <1>2, <1>3, <1>4, <1>5 DEF Manages, EngineSound, SameBook, SameRange
<1>7. ASSUME Runner(y) + CloseQty(a) = Runner(x), Balanced(o, x) PROVE Balanced(o, y)
  <2>1. PICK n \in Int : Owes(x.sink, n) /\ Runner(o) = Runner(x) + n
    BY <1>7 DEF Balanced
  <2>2. Owes(y.sink, n + CloseQty(a)) /\ CloseQty(a) \in Int
    BY <1>1, <2>1, OwesMore
  <2>3. Runner(y) \in Int
    BY DEF Runner, Engine, Position
  <2>4. Runner(o) = Runner(y) + (n + CloseQty(a)) /\ n + CloseQty(a) \in Int
    BY <1>7, <2>1, <2>2, <2>3
  <2> QED
    BY <2>2, <2>4 DEF Balanced
<1> QED
  BY <1>6, <1>7 DEF Leads, SameBook

(* Parts of a handler compose.                                             *)
LEMMA LeadsTransitive ==
  ASSUME NEW B, NEW o, NEW x, NEW y, NEW z, Leads(B, o, x, y), Leads(B, o, y, z)
  PROVE  Leads(B, o, x, z)
BY DEF Leads, SameRange

(* Doing nothing.                                                          *)
LEMMA LeadsReflexive ==
  ASSUME NEW B, NEW o, NEW x, Manages(B, o, x)
  PROVE  Leads(B, o, x, x)
BY DEF Leads, SameRange

(* A handler begins with nothing called.                                   *)
LEMMA HandlerBegins ==
  ASSUME NEW o, EngineSound(o), o.sink = <<>>, NEW B \in SUBSET Nat,
         o.pos # None => \E b \in B : o.pos.qty <= b
  PROVE  Manages(B, o, o) /\ Balanced(o, o)
<1>1. Len(o.sink) = 0
  OBVIOUS
<1>2. Continues(o, o)
  BY DEF Continues, Kept, EngineSound, Engine, Position
<1>3. Manages(B, o, o)
  BY <1>1, <1>2 DEF Manages, PlacedOnce
<1>4. Owes(o.sink, 0) /\ Runner(o) = Runner(o) + 0
  BY OwesNothing DEF Runner, EngineSound, Engine, Position
<1> QED
  BY <1>3, <1>4 DEF Balanced

(* Emitting a call appends it.                                             *)
LEMMA EmitCall ==
  ASSUME NEW x \in Engine, NEW a \in Action
  PROVE  LET y == Eng!Emit(x, a) IN
         /\ y = [x EXCEPT !.sink = Append(x.sink, a)]
         /\ y \in Engine /\ y.sink = Append(x.sink, a)
<1>1. a.type # "alert" /\ (a.type = "notify" => a.event = "exit")
  BY DEF Action
<1>2. Eng!Emit(x, a) = [x EXCEPT !.sink = Append(x.sink, a)]
  BY <1>1 DEF Eng!Emit, Collect
<1>3. Append(x.sink, a) \in Seq(Action)
  BY DEF Engine
<1> QED
  BY <1>2, <1>3 DEF Engine

(* What is only told changes nothing.                                      *)
LEMMA EmitTold ==
  ASSUME NEW x \in Engine
  PROVE  /\ Eng!Emit(x, Eng!Alert) = x
         /\ \A event : event # "exit" => Eng!Emit(x, Eng!Notify(event)) = x
BY DEF Eng!Emit, Collect, Eng!Alert, Eng!Notify, Engine

-----------------------------------------------------------------------------
(* Leaving the market.                                                     *)

(* What is known of an open position.                                      *)
LEMMA OpenFacts ==
  ASSUME NEW B, NEW o, NEW x, Manages(B, o, x), x.pos # None
  PROVE  /\ x \in Engine /\ x.pos \in Position /\ Whole(x.pos) /\ o.pos # None
         /\ x.sink \in Seq(Action)
         /\ \A q \in Nat : q <= x.pos.qty => \E b \in B : q <= b
<1>1. x \in Engine /\ x.pos \in Position /\ Whole(x.pos) /\ x.sink \in Seq(Action)
  BY DEF Manages, EngineSound, DaySound, Engine
<1>2. o.pos # None /\ x.pos.qty = o.pos.qty
  BY DEF Manages, Continues, Kept
<1>3. \E b \in B : x.pos.qty <= b
  BY <1>2 DEF Manages
<1>4. x.pos.qty \in Nat /\ B \subseteq Nat
  BY <1>1 DEF Position, Manages
<1> QED
  BY <1>1, <1>2, <1>3, <1>4

(* Points and money are numbers.                                           *)
LEMMA PnlIsInt ==
  ASSUME NEW p \in Position, NEW price \in Int, NEW qty \in Nat
  PROVE  Eng!PnlUsd(p, price, qty) \in Int
<1>1. Eng!Signed(p.side, p.entry, price) \in Int
  BY DEF Eng!Signed, Position
<1> QED
  BY <1>1, SafetyAssumption DEF Eng!PnlUsd

(* The price of an exit is a number.                                       *)
LEMMA RefPriceIsInt ==
  ASSUME NEW x \in Engine, x.pos # None
  PROVE  Eng!RefPrice(x) \in Int
BY DEF Eng!RefPrice, Engine, Position

(* A position that stays as it is.                                         *)
LEMMA SamePosition ==
  ASSUME NEW x, EngineSound(x), NEW y, y.pos = x.pos
  PROVE  /\ Continues(x, y) /\ (y.pos # None => Whole(y.pos))
         /\ Runner(y) = Runner(x) /\ Runner(x) \in Nat
<1>1. x \in Engine /\ (x.pos # None => Whole(x.pos))
  BY DEF EngineSound, DaySound
<1>2. x.pos # None => x.pos \in Position /\ x.pos.runnerQty \in Nat
  BY <1>1 DEF Engine, Position
<1> QED
  BY <1>1, <1>2 DEF Continues, Kept, Runner

(* _cancel_unfilled_entries asks for both cancels, and for nothing else.   *)
LEMMA CancelEntriesLeads ==
  ASSUME NEW B, NEW o, NEW x, Manages(B, o, x)
  PROVE  LET y == Eng!CancelEntries(x) IN
         /\ Leads(B, o, x, y)
         /\ y.pos = x.pos /\ y.done = x.done /\ y.halted = x.halted
         /\ y.placed => y.canceled
<1> x \in Engine
  BY DEF Manages, EngineSound
<1>1. CASE ~(x.placed /\ ~x.canceled)
  BY <1>1, LeadsReflexive DEF Eng!CancelEntries
<1>2. CASE x.placed /\ ~x.canceled
  <2> DEFINE c == Eng!Cancel("entry_long")
             d == Eng!Cancel("entry_short")
             u == [x EXCEPT !.sink = Append(x.sink, c)]
             v == [x EXCEPT !.sink = Append(Append(x.sink, c), d)]
             y == [v EXCEPT !.canceled = TRUE]
  <2>1. c \in Action /\ d \in Action /\ c.type = "cancel" /\ d.type = "cancel"
        /\ c.ref = "entry_long" /\ d.ref = "entry_short"
    BY DEF Action, Eng!Cancel, OrderRefs
  <2> HIDE DEF c, d
  <2>2. /\ x.sink \in Seq(Action) /\ Append(x.sink, c) \in Seq(Action)
        /\ Append(Append(x.sink, c), d) \in Seq(Action)
    BY <2>1 DEF Engine
  <2>3. /\ u \in Engine /\ SameBook(x, u) /\ u.sink = Append(x.sink, c) /\ u.pos = x.pos
        /\ v \in Engine /\ SameBook(u, v) /\ v.sink = Append(u.sink, d) /\ v.pos = x.pos
        /\ y \in Engine /\ SameRange(v, y) /\ y.sink = v.sink /\ y.canceled
        /\ y.pos = x.pos /\ y.done = x.done /\ y.halted = x.halted /\ v.halted = x.halted
        /\ v.placed
    BY <1>2, <2>2 DEF Engine, SameBook, SameRange
  <2>4. Eng!CancelEntries(x) = y
    <3>1. /\ [x EXCEPT !.canceled = TRUE] \in Engine
          /\ [x EXCEPT !.canceled = TRUE].sink = x.sink
      BY DEF Engine
    <3> DEFINE m == Eng!Emit([x EXCEPT !.canceled = TRUE], c)
    <3>2. /\ m \in Engine /\ m.sink = Append(x.sink, c)
          /\ m = [x EXCEPT !.canceled = TRUE, !.sink = Append(x.sink, c)]
      BY <2>1, <3>1, EmitCall
    <3> HIDE DEF m
    <3>7. Eng!Emit(m, d) = [m EXCEPT !.sink = Append(m.sink, d)]
      BY <2>1, <3>2, EmitCall
    <3>3. Eng!Emit(m, d) = [m EXCEPT !.sink = Append(Append(x.sink, c), d)]
      BY <3>2, <3>7
    <3>4. Eng!CancelEntries(x) = Eng!Emit(m, d)
      BY <1>2 DEF Eng!CancelEntries, Eng!LongEntry, Eng!ShortEntry, m, c, d
    <3>5. y = [x EXCEPT !.canceled = TRUE, !.sink = Append(Append(x.sink, c), d)]
      BY DEF Engine
    <3>6. [m EXCEPT !.sink = Append(Append(x.sink, c), d)]
            = [x EXCEPT !.canceled = TRUE, !.sink = Append(Append(x.sink, c), d)]
      BY <3>2 DEF Engine
    <3> QED
      BY <3>3, <3>4, <3>5, <3>6
  <2> HIDE DEF u, v, y
  <2>5. /\ Continues(x, u) /\ (u.pos # None => Whole(u.pos))
        /\ Continues(u, v) /\ (v.pos # None => Whole(v.pos))
        /\ Continues(v, y) /\ (y.pos # None => Whole(y.pos))
    <3>1. EngineSound(x)
      BY DEF Manages
    <3>2. Continues(x, u) /\ (u.pos # None => Whole(u.pos))
      BY <2>3, <3>1, SamePosition
    <3> QED
      BY <2>3, <3>2 DEF Continues
  <2>6. \A z \in Engine : /\ Allowed(B, o, z, c) /\ Allowed(B, o, z, d)
                          /\ CloseQty(c) = 0 /\ CloseQty(d) = 0
    BY <2>1 DEF Allowed, Cancels, EntryRefs, CloseQty
  <2>7. Runner(u) + 0 = Runner(x) /\ Runner(v) + 0 = Runner(u) /\ Runner(y) = Runner(v)
    <3>1. Runner(u) = Runner(x) /\ Runner(v) = Runner(u) /\ Runner(y) = Runner(v)
      BY <2>3 DEF Runner
    <3>2. Runner(x) \in Nat
      BY SamePosition DEF Manages
    <3> QED
      BY <3>1, <3>2
  <2>8. Manages(B, o, u) /\ Leads(B, o, x, u)
    BY <2>1, <2>3, <2>5, <2>6, <2>7, Calling
  <2>9. Manages(B, o, v) /\ Leads(B, o, u, v)
    BY <2>1, <2>3, <2>5, <2>6, <2>7, <2>8, Calling
  <2>10. \A ref \in EntryRefs : WillCancel(y.sink, ref)
    <3>1. WillCancel(u.sink, "entry_long")
      BY <2>1, <2>2, <2>3, AppendKeeps DEF Cancels
    <3>2. WillCancel(v.sink, "entry_long") /\ WillCancel(v.sink, "entry_short")
      <4>1. u.sink \in Seq(Action) /\ v.sink = Append(u.sink, d) /\ d.type # "place"
        BY <2>1, <2>3 DEF Engine
      <4>2. Cancels(d, "entry_short")
        BY <2>1 DEF Cancels
      <4>3. /\ \A ref : WillCancel(u.sink, ref) => WillCancel(v.sink, ref)
            /\ \A ref : Cancels(d, ref) => WillCancel(v.sink, ref)
        BY <2>1, <4>1, AppendKeeps
      <4> QED
        BY <3>1, <4>2, <4>3
    <3> QED
      BY <2>3, <3>2 DEF EntryRefs
  <2>11. Manages(B, o, y)
    <3>1. DaySound(y)
      BY <2>3, <2>5, <2>9, SameRangeSound DEF Manages, EngineSound
    <3>2. y.placed /\ y.orFinal = v.orFinal
      BY <1>2, <2>3 DEF SameRange
    <3>3. Continues(o, y)
      BY <2>3, <2>5, <2>9, ContinuesTransitive DEF Manages, EngineSound
    <3>4. ASSUME NEW i \in 1..Len(y.sink) PROVE Allowed(B, o, y, y.sink[i])
      <4>1. y.sink = v.sink /\ v.sink \in Seq(Action)
        BY <2>3 DEF Engine
      <4>3. y.sink[i] = v.sink[i] /\ v.sink[i] \in Action /\ Allowed(B, o, v, v.sink[i])
        BY <2>9, <4>1 DEF Manages
      <4>2. o \in Engine
        BY DEF Manages, EngineSound
      <4> QED
        BY <2>3, <2>5, <4>2, <4>3, AllowedStays
    <3>5. PlacedOnce(y.sink)
      BY <2>3, <2>9 DEF Manages
    <3> QED
      BY <2>3, <2>9, <2>10, <3>1, <3>2, <3>3, <3>4, <3>5 DEF Manages, EngineSound
  <2>12. Leads(B, o, v, y)
    BY <2>3, <2>7, <2>11 DEF Leads, Balanced
  <2>13. Leads(B, o, x, y)
    BY <2>8, <2>9, <2>12, LeadsTransitive
  <2> QED
    BY <2>3, <2>4, <2>13
<1> QED
  BY <1>1, <1>2

(* Closing out: the rest is closed, its stop is cancelled.                 *)
LEMMA CloseOutLeads ==
  ASSUME NEW B, NEW o, NEW x, Manages(B, o, x), x.pos # None, NEW price \in Int
  PROVE  LET y == Eng!CloseOut(x, price) IN
         Leads(B, o, x, y) /\ y.pos = None /\ (x.halted => y.halted)
<1> DEFINE q == x.pos.runnerQty
           g == Eng!PnlUsd(x.pos, price, q)
           c == Eng!CloseMarket(q)
           d == Eng!Cancel("stop_loss")
           n == Eng!Notify("exit")
           u == [x EXCEPT !.pnl = x.pnl + g, !.pos = None, !.sink = Append(x.sink, c)]
           v == [u EXCEPT !.sink = Append(Append(x.sink, c), d)]
           y == [v EXCEPT !.sink = Append(Append(Append(x.sink, c), d), n)]
<1>1. /\ x \in Engine /\ x.pos \in Position /\ Whole(x.pos) /\ o.pos # None
      /\ x.sink \in Seq(Action) /\ \A i \in Nat : i <= x.pos.qty => \E b \in B : i <= b
  BY OpenFacts
<1>2. q \in Nat /\ q <= x.pos.qty
  BY <1>1 DEF Position, Whole
<1>3. g \in Int /\ x.pnl + g \in Int
  <2>1. g \in Int
    BY <1>1, <1>2, PnlIsInt
  <2> HIDE DEF g
  <2> QED
    BY <1>1, <2>1 DEF Engine
<1>4. c \in Action /\ d \in Action /\ c.type = "close" /\ c.qty = q
      /\ d.type = "cancel" /\ d.ref = "stop_loss" /\ n \in Action /\ n.type = "notify"
  BY <1>2 DEF Action, Eng!CloseMarket, Eng!Cancel, Eng!Notify, OrderRefs
<1>5. Eng!CloseOut(x, price) = y
  <2> DEFINE booked == [x EXCEPT !.pnl = x.pnl + g]
             closed == Eng!Emit(booked, c)
             bare   == Eng!Emit(closed, d)
             told   == Eng!Emit(bare, n)
  <2>1. Eng!CloseOut(x, price) = [told EXCEPT !.pos = None]
    BY DEF Eng!CloseOut, Eng!StopLoss
  <2> HIDE DEF c, d, g, n
  <2>2. booked \in Engine /\ booked.sink = x.sink
    BY <1>1, <1>3 DEF Engine
  <2>3. closed = [booked EXCEPT !.sink = Append(x.sink, c)] /\ closed \in Engine
        /\ closed.sink = Append(x.sink, c)
    BY <1>4, <2>2, EmitCall
  <2> HIDE DEF closed
  <2>4. bare = [closed EXCEPT !.sink = Append(Append(x.sink, c), d)] /\ bare \in Engine
        /\ bare.sink = Append(Append(x.sink, c), d)
    BY <1>4, <2>3, EmitCall
  <2> HIDE DEF bare
  <2>5. told = [bare EXCEPT !.sink = Append(Append(Append(x.sink, c), d), n)] /\ told \in Engine
    BY <1>4, <2>4, EmitCall
  <2> HIDE DEF told
  <2> QED
    BY <1>1, <2>1, <2>3, <2>4, <2>5 DEF Engine
<1> HIDE DEF c, d, g, n
<1>6. /\ Append(x.sink, c) \in Seq(Action) /\ Append(Append(x.sink, c), d) \in Seq(Action)
      /\ Append(Append(Append(x.sink, c), d), n) \in Seq(Action)
  BY <1>1, <1>4
<1>7. /\ u \in Engine /\ SameBook(x, u) /\ u.pos = None /\ u.sink = Append(x.sink, c)
      /\ v \in Engine /\ SameBook(u, v) /\ v.pos = None /\ v.sink = Append(u.sink, d)
  BY <1>1, <1>3, <1>6 DEF Engine, SameBook, SameRange
<1>14. y \in Engine /\ SameBook(v, y) /\ y.pos = None /\ y.sink = Append(v.sink, n)
  <2> HIDE DEF u
  <2> QED
    BY <1>6, <1>7 DEF Engine, SameBook, SameRange
<1> HIDE DEF u, v, y
<1>8. /\ Allowed(B, o, u, c) /\ Allowed(B, o, v, d) /\ Allowed(B, o, y, n)
      /\ CloseQty(c) = q /\ CloseQty(d) = 0 /\ CloseQty(n) = 0
  BY <1>1, <1>2, <1>4, <1>7, <1>14 DEF Allowed, Cancels, CloseQty
<1>9. Runner(x) = q /\ Runner(u) = 0 /\ Runner(v) = 0 /\ Runner(y) = 0
  BY <1>7, <1>14 DEF Runner
<1>10. Continues(x, u) /\ Continues(u, v) /\ Continues(v, y)
  BY <1>7, <1>14 DEF Continues
<1>11. Manages(B, o, u) /\ Leads(B, o, x, u)
  <2>1. Runner(u) + CloseQty(c) = Runner(x)
    BY <1>2, <1>8, <1>9
  <2> QED
    BY <1>4, <1>7, <1>8, <1>10, <2>1, Calling
<1>12. Leads(B, o, u, v)
  <2>1. Runner(v) + CloseQty(d) = Runner(u)
    BY <1>8, <1>9
  <2> QED
    BY <1>4, <1>7, <1>8, <1>10, <1>11, <2>1, Calling
<1>15. Leads(B, o, v, y)
  <2>1. Manages(B, o, v) /\ Runner(y) + CloseQty(n) = Runner(v)
    BY <1>8, <1>9, <1>12 DEF Leads
  <2> QED
    BY <1>4, <1>7, <1>8, <1>10, <1>14, <2>1, Calling
<1>13. x.halted => y.halted
  BY <1>7, <1>14 DEF SameBook
<1> QED
  BY <1>5, <1>11, <1>12, <1>13, <1>14, <1>15, LeadsTransitive

(* A change of the flags done and halted, of the P&L and the last price.   *)
LEMMA MarkLeads ==
  ASSUME NEW B, NEW o, NEW x, Manages(B, o, x), NEW y \in Engine,
         SameBook(x, y), y.pos = x.pos, y.sink = x.sink
  PROVE  Leads(B, o, x, y)
<1>1. Continues(x, y) /\ (y.pos # None => Whole(y.pos)) /\ Runner(y) = Runner(x)
  BY SamePosition DEF Manages
<1> QED
  BY <1>1, Changing

(* A booked loss may halt the day.                                         *)
LEMMA CheckDailyLossLimitLeads ==
  ASSUME NEW B, NEW o, NEW x, Manages(B, o, x)
  PROVE  LET y == Eng!CheckDailyLossLimit(x) IN
         /\ Leads(B, o, x, y) /\ (x.pos = None => y.pos = None)
         /\ y = x \/ y.halted
<1> DEFINE y == Eng!CheckDailyLossLimit(x)
<1>0. x \in Engine
  BY DEF Manages, EngineSound
<1>1. CASE x.halted \/ ~Eng!LossLimitReached(x)
  BY <1>1, LeadsReflexive DEF Eng!CheckDailyLossLimit
<1>2. CASE ~(x.halted \/ ~Eng!LossLimitReached(x))
  <2> DEFINE h == [x EXCEPT !.halted = TRUE, !.done = TRUE]
             f == IF h.pos # None THEN Eng!CloseOut(h, Eng!RefPrice(h)) ELSE h
             c == Eng!CancelEntries(f)
  <2>1. h \in Engine /\ SameBook(x, h) /\ h.pos = x.pos /\ h.sink = x.sink /\ h.halted
    BY <1>0 DEF Engine, SameBook, SameRange
  <2>2. y = Eng!Emit(c, Eng!Notify("halt"))
    <3>1. Eng!Emit(h, Eng!Alert) = h
      BY <2>1, EmitTold
    <3>2. y = LET halted == Eng!Emit(h, Eng!Alert)
                  flat   == IF x.pos # None THEN Eng!CloseOut(halted, Eng!RefPrice(x))
                            ELSE halted
              IN  Eng!Emit(Eng!CancelEntries(flat), Eng!Notify("halt"))
      BY <1>2 DEF Eng!CheckDailyLossLimit
    <3>3. Eng!RefPrice(x) = Eng!RefPrice(h)
      BY <1>0 DEF Eng!RefPrice, Engine
    <3> HIDE DEF h
    <3> QED
      BY <2>1, <3>1, <3>2, <3>3
  <2> HIDE DEF h
  <2>3. Leads(B, o, x, h)
    BY <2>1, MarkLeads
  <2>4. Leads(B, o, h, f) /\ f.pos = None /\ f.halted
    <3>1. Manages(B, o, h)
      BY <2>3 DEF Leads
    <3>2. h.pos # None => Eng!RefPrice(h) \in Int
      BY <2>1, RefPriceIsInt
    <3> QED
      BY <2>1, <3>1, <3>2, CloseOutLeads, LeadsReflexive
  <2> HIDE DEF f
  <2>5. Leads(B, o, f, c) /\ c.pos = None /\ c.halted
    BY <2>4, CancelEntriesLeads DEF Leads
  <2> HIDE DEF c
  <2>6. y = c
    BY <2>2, <2>5, EmitTold DEF Leads, Manages, EngineSound
  <2> QED
    BY <2>3, <2>4, <2>5, <2>6, LeadsTransitive
<1> QED
  BY <1>1, <1>2

(* _exit_position_market.                                                  *)
LEMMA ExitPositionMarketLeads ==
  ASSUME NEW B, NEW o, NEW x, Manages(B, o, x), x.pos # None, NEW price \in Int
  PROVE  LET y == Eng!ExitPositionMarket(x, price) IN Leads(B, o, x, y) /\ y.pos = None
<1> DEFINE u == Eng!CloseOut(x, price)
<1>1. Leads(B, o, x, u) /\ u.pos = None
  BY CloseOutLeads
<1> HIDE DEF u
<1>2. LET y == Eng!CheckDailyLossLimit(u) IN Leads(B, o, u, y) /\ y.pos = None
  BY <1>1, CheckDailyLossLimitLeads DEF Leads
<1>3. Eng!ExitPositionMarket(x, price) = Eng!CheckDailyLossLimit(u)
  BY DEF Eng!ExitPositionMarket, u
<1> QED
  BY <1>1, <1>2, <1>3, LeadsTransitive

(* The end of a day: flat at the last price, the entries withdrawn.        *)
LEMMA FlattenLeads ==
  ASSUME NEW B, NEW o, NEW x, Manages(B, o, x)
  PROVE  LET f == IF x.pos # None THEN Eng!ExitPositionMarket(x, Eng!RefPrice(x)) ELSE x
             y == [Eng!CancelEntries(f) EXCEPT !.done = TRUE]
         IN  Leads(B, o, x, y) /\ y.pos = None /\ (y.placed => y.canceled)
<1> DEFINE f == IF x.pos # None THEN Eng!ExitPositionMarket(x, Eng!RefPrice(x)) ELSE x
           c == Eng!CancelEntries(f)
           y == [c EXCEPT !.done = TRUE]
<1>1. Leads(B, o, x, f) /\ f.pos = None
  <2>1. x.pos # None => Eng!RefPrice(x) \in Int
    BY RefPriceIsInt DEF Manages, EngineSound
  <2> QED
    BY <2>1, ExitPositionMarketLeads, LeadsReflexive
<1> HIDE DEF f
<1>2. Leads(B, o, f, c) /\ c.pos = None /\ (c.placed => c.canceled)
  BY <1>1, CancelEntriesLeads DEF Leads
<1> HIDE DEF c
<1>3. c \in Engine
  BY <1>2 DEF Leads, Manages, EngineSound
<1>4. /\ y \in Engine /\ SameBook(c, y) /\ y.pos = None /\ y.sink = c.sink
      /\ y.canceled = c.canceled /\ y.placed = c.placed
  BY <1>2, <1>3 DEF Engine, SameBook, SameRange
<1> HIDE DEF y
<1>5. Leads(B, o, c, y)
  BY <1>2, <1>4, MarkLeads DEF Leads
<1>6. Leads(B, o, x, y)
  BY <1>1, <1>2, <1>5, LeadsTransitive
<1> QED
  BY <1>2, <1>4, <1>6 DEF y, c, f

-----------------------------------------------------------------------------
(* Managing an open position.                                              *)

(* A position marked or with another stop, of the same contracts.          *)
LEMMA RemarkLeads ==
  ASSUME NEW B, NEW o, NEW x, Manages(B, o, x), x.pos # None,
         NEW p \in Position, p.side = x.pos.side, p.qty = x.pos.qty,
         p.runnerQty = x.pos.runnerQty, x.pos.tp1 => p.tp1
  PROVE  LET y == [x EXCEPT !.pos = p] IN
         Leads(B, o, x, y) /\ y \in Engine /\ y.pos = p /\ y.sink = x.sink /\ p # None
<1> DEFINE y == [x EXCEPT !.pos = p]
<1>1. x \in Engine /\ x.pos \in Position /\ Whole(x.pos) /\ p # None
  BY OpenFacts, OptionalAssumption
<1>2. y \in Engine /\ SameBook(x, y) /\ y.pos = p /\ y.sink = x.sink
  BY <1>1 DEF Engine, SameBook, SameRange
<1> HIDE DEF y
<1>3. Whole(p) /\ Kept(x.pos, p)
  BY <1>1 DEF Whole, Kept, Position
<1>4. Continues(x, y) /\ Runner(y) = Runner(x)
  BY <1>1, <1>2, <1>3 DEF Continues, Runner
<1>5. Leads(B, o, x, y)
  BY <1>2, <1>3, <1>4, Changing
<1> QED
  BY <1>1, <1>2, <1>5 DEF y

(* A stop that moves at the broker as well.                                *)
LEMMA MoveStopLeads ==
  ASSUME NEW B, NEW o, NEW x, Manages(B, o, x), x.pos # None, NEW price \in Int
  PROVE  LET y == Eng!Emit([x EXCEPT !.pos.stop = price], Eng!ModifyPrice(price)) IN
         Leads(B, o, x, y) /\ y.pos = [x.pos EXCEPT !.stop = price] /\ y.pos # None
<1> DEFINE p == [x.pos EXCEPT !.stop = price]
           u == [x EXCEPT !.pos = p]
           a == Eng!ModifyPrice(price)
           y == Eng!Emit(u, a)
<1>1. x \in Engine /\ x.pos \in Position /\ x.sink \in Seq(Action) /\ o.pos # None
  BY OpenFacts
<1>2. p \in Position /\ p.side = x.pos.side /\ p.qty = x.pos.qty
      /\ p.runnerQty = x.pos.runnerQty /\ p.tp1 = x.pos.tp1
  BY <1>1 DEF Position
<1>3. [x EXCEPT !.pos.stop = price] = u
  BY <1>1 DEF Engine
<1> HIDE DEF p
<1>4. Leads(B, o, x, u) /\ u \in Engine /\ u.pos = p /\ u.sink = x.sink /\ p # None
  BY <1>2, RemarkLeads
<1>5. a \in Action /\ a.type = "modify_price"
  BY DEF Action, Eng!ModifyPrice, Eng!StopLoss
<1> HIDE DEF u, a
<1>6. y = [u EXCEPT !.sink = Append(u.sink, a)] /\ y \in Engine /\ y.sink = Append(u.sink, a)
  BY <1>4, <1>5, EmitCall
<1> HIDE DEF y
<1>7. SameBook(u, y) /\ y.pos = u.pos
  BY <1>4, <1>6 DEF Engine, SameBook, SameRange
<1>8. Continues(u, y) /\ Whole(y.pos) /\ Runner(y) = Runner(u) /\ Runner(u) \in Nat
  BY <1>4, <1>7, SamePosition DEF Leads, Manages
<1>9. Allowed(B, o, y, a) /\ CloseQty(a) = 0
  BY <1>1, <1>5 DEF Allowed, Cancels, CloseQty
<1>10. Leads(B, o, u, y)
  <2>1. Runner(y) + CloseQty(a) = Runner(u)
    BY <1>8, <1>9
  <2>2. Manages(B, o, u) /\ a.type # "place"
    BY <1>4, <1>5 DEF Leads
  <2> QED
    BY <1>5, <1>6, <1>7, <1>8, <1>9, <2>1, <2>2, Calling
<1>11. Leads(B, o, x, y)
  BY <1>4, <1>10, LeadsTransitive
<1> QED
  BY <1>3, <1>4, <1>7, <1>11 DEF y, a, p

(* What the methods that move a stop leave alone.                          *)
Held(x, y) ==
  /\ x.pos # None /\ y.pos # None
  /\ y.pos.side = x.pos.side /\ y.pos.entry = x.pos.entry /\ y.pos.tp1 = x.pos.tp1
  /\ y.pos.mode = x.pos.mode

(* The stop is tightened, or left.                                         *)
LEMMA RatchetStopLeads ==
  ASSUME NEW B, NEW o, NEW x, Manages(B, o, x), x.pos # None, NEW price \in Int
  PROVE  LET y == Eng!RatchetStop(x, price) IN Leads(B, o, x, y) /\ Held(x, y)
<1> DEFINE m == Eng!Emit([x EXCEPT !.pos.stop = price], Eng!ModifyPrice(price))
<1>1. Leads(B, o, x, m) /\ m.pos = [x.pos EXCEPT !.stop = price] /\ m.pos # None
  BY MoveStopLeads
<1>2. x.pos \in Position
  BY OpenFacts
<1>3. Eng!RatchetStop(x, price) = m \/ Eng!RatchetStop(x, price) = x
  BY DEF Eng!RatchetStop
<1> HIDE DEF m
<1>4. Held(x, m) /\ Held(x, x)
  BY <1>1, <1>2 DEF Held, Position
<1> QED
  BY <1>1, <1>3, <1>4, LeadsReflexive

(* The stop goes to the entry.                                             *)
LEMMA MoveToBreakevenLeads ==
  ASSUME NEW B, NEW o, NEW x, Manages(B, o, x), x.pos # None, NEW price \in Int
  PROVE  LET y == Eng!MoveToBreakeven(x, price) IN Leads(B, o, x, y) /\ Held(x, y)
<1> DEFINE p == [x.pos EXCEPT !.beMoved = TRUE]
           u == [x EXCEPT !.pos = p]
           y == Eng!RatchetStop(u, x.pos.entry)
<1>1. x \in Engine /\ x.pos \in Position
  BY OpenFacts
<1>2. p \in Position /\ p.side = x.pos.side /\ p.qty = x.pos.qty /\ p.entry = x.pos.entry
      /\ p.runnerQty = x.pos.runnerQty /\ p.tp1 = x.pos.tp1 /\ p.mode = x.pos.mode
      /\ x.pos.entry \in Int
  BY <1>1 DEF Position
<1>3. [x EXCEPT !.pos.beMoved = TRUE] = u
  BY <1>1 DEF Engine
<1>4. Eng!MoveToBreakeven(x, price) = y \/ Eng!MoveToBreakeven(x, price) = x
  BY <1>3 DEF Eng!MoveToBreakeven
<1> HIDE DEF p
<1>5. Leads(B, o, x, u) /\ u.pos = p /\ p # None
  BY <1>2, RemarkLeads
<1> HIDE DEF u
<1>6. Leads(B, o, u, y) /\ Held(u, y)
  BY <1>2, <1>5, RatchetStopLeads DEF Leads
<1> HIDE DEF y
<1>7. Leads(B, o, x, y) /\ Held(x, y) /\ Held(x, x)
  BY <1>2, <1>5, <1>6, LeadsTransitive DEF Held
<1> QED
  BY <1>4, <1>7, LeadsReflexive

(* The whipsaw guard.                                                      *)
LEMMA WhipsawCheckLeads ==
  ASSUME NEW B, NEW o, NEW x, Manages(B, o, x), NEW m
  PROVE  Leads(B, o, x, Eng!WhipsawCheck(x, m))
<1>0. Leads(B, o, x, x)
  BY LeadsReflexive
<1>1. CASE x.pos = None
  BY <1>0, <1>1 DEF Eng!WhipsawCheck
<1>2. CASE x.pos # None
  <2> DEFINE p == [x.pos EXCEPT !.whipsaw = TRUE]
             u == [x EXCEPT !.pos = p]
             y == Eng!RatchetStop(u, x.pos.entry)
  <2>1. x \in Engine /\ x.pos \in Position
    BY <1>2, OpenFacts
  <2>2. p \in Position /\ p.side = x.pos.side /\ p.qty = x.pos.qty
        /\ p.runnerQty = x.pos.runnerQty /\ p.tp1 = x.pos.tp1 /\ x.pos.entry \in Int
    BY <2>1 DEF Position
  <2>3. [x EXCEPT !.pos.whipsaw = TRUE] = u
    BY <2>1 DEF Engine
  <2>4. Eng!WhipsawCheck(x, m) \in {x, u, y}
    BY <1>2, <2>3 DEF Eng!WhipsawCheck
  <2> HIDE DEF p
  <2>5. Leads(B, o, x, u) /\ u.pos = p /\ p # None
    BY <1>2, <2>2, RemarkLeads
  <2> HIDE DEF u
  <2>6. Leads(B, o, u, y)
    BY <2>2, <2>5, RatchetStopLeads DEF Leads
  <2>7. Leads(B, o, x, y)
    BY <2>5, <2>6, LeadsTransitive
  <2> QED
    BY <1>0, <2>4, <2>5, <2>7
<1> QED
  BY <1>1, <1>2

(* The contracts closed at TP1 are some of the position's.                 *)
LEMMA Tp1CloseQtyBounds ==
  ASSUME NEW p \in Position
  PROVE  Eng!Tp1CloseQty(p) \in 0..p.qty
<1>1. p.qty \in Nat /\ Tp1ClosePct \in 1..100
  BY ExitsAssumption DEF Position
<1> DEFINE m == p.qty * Tp1ClosePct
<1>2. m \in Nat /\ m <= p.qty * 100
  BY <1>1
<1> HIDE DEF m
<1>3. m \div 100 \in 0..p.qty
  BY <1>1, <1>2
<1> QED
  BY <1>3 DEF Eng!Tp1CloseQty, m

(* TP1: some contracts are closed and the stop is sized down or cancelled. *)
LEMMA HandleTp1Leads ==
  ASSUME NEW B, NEW o, NEW x, Manages(B, o, x), x.pos # None, ~x.pos.tp1, NEW price \in Int
  PROVE  Leads(B, o, x, Eng!HandleTp1(x, price))
<1> DEFINE n == Eng!Tp1CloseQty(x.pos)
           left == x.pos.qty - n
           p == [x.pos EXCEPT !.tp1 = TRUE, !.runnerQty = left]
           g == Eng!PnlUsd(x.pos, price, n)
           marked == [x EXCEPT !.pos = p]
           booked == [marked EXCEPT !.pnl = x.pnl + g]
           c == Eng!CloseMarket(n)
           d == IF left > 0 THEN Eng!ModifyQty(left) ELSE Eng!Cancel("stop_loss")
           sized == Eng!Emit(Eng!Emit(booked, c), d)
           told == Eng!Emit(IF n > 0 THEN sized ELSE Eng!Emit(marked, Eng!Alert),
                            Eng!Notify("tp1"))
           rest == IF left <= 0 THEN [told EXCEPT !.pos = None] ELSE told
<1>1. /\ x \in Engine /\ x.pos \in Position /\ Whole(x.pos) /\ o.pos # None
      /\ x.sink \in Seq(Action) /\ \A q \in Nat : q <= x.pos.qty => \E b \in B : q <= b
  BY OpenFacts
<1>2. n \in 0..x.pos.qty /\ x.pos.qty \in Nat /\ x.pos.runnerQty = x.pos.qty
  BY <1>1, Tp1CloseQtyBounds DEF Position, Whole
<1>3. Eng!HandleTp1(x, price) = Eng!CheckDailyLossLimit(rest)
  <2> DEFINE m == [x EXCEPT !.pos.tp1 = TRUE, !.pos.runnerQty = left]
             b == [m EXCEPT !.pnl = @ + g]
             s == Eng!Emit(Eng!Emit(b, c), d)
             r == Eng!Emit(IF n > 0 THEN s ELSE Eng!Emit(m, Eng!Alert), Eng!Notify("tp1"))
  <2>1. m = marked
    BY <1>1 DEF Engine, Position
  <2>2. marked.pnl = x.pnl
    BY <1>1 DEF Engine
  <2>3. Eng!HandleTp1(x, price)
          = Eng!CheckDailyLossLimit(IF left <= 0 THEN [r EXCEPT !.pos = None] ELSE r)
    BY DEF Eng!HandleTp1, Eng!StopLoss
  <2> HIDE DEF n, g, c, d, m, marked
  <2>4. b = booked
    BY <2>1, <2>2
  <2> HIDE DEF b, booked
  <2>5. r = told
    BY <2>1, <2>4
  <2> HIDE DEF r, told
  <2> QED
    BY <2>3, <2>5
<1> HIDE DEF n
<1>4. left \in Nat /\ left <= x.pos.qty /\ n \in Nat
  BY <1>2
<1>5. g \in Int /\ x.pnl + g \in Int
  <2>1. g \in Int
    BY <1>1, <1>4, PnlIsInt
  <2> HIDE DEF g
  <2> QED
    BY <1>1, <2>1 DEF Engine
<1>6. p \in Position /\ p # None /\ p.side = x.pos.side /\ p.qty = x.pos.qty
      /\ p.runnerQty = left /\ p.tp1
  BY <1>1, <1>4, OptionalAssumption DEF Position
<1> HIDE DEF g, p
<1>7. Whole(p) /\ Kept(x.pos, p)
  BY <1>2, <1>4, <1>6 DEF Whole, Kept
<1>8. /\ c \in Action /\ c.type = "close" /\ c.qty = n
      /\ d \in Action /\ (left > 0 => d.type = "modify_qty" /\ d.qty = left)
      /\ (left = 0 => d.type = "cancel" /\ d.ref = "stop_loss")
  BY <1>4 DEF Action, Eng!CloseMarket, Eng!ModifyQty, Eng!Cancel, Eng!StopLoss, OrderRefs
<1> HIDE DEF c, d
<1> DEFINE q == IF left > 0 THEN p ELSE None
<1>9. (q # None <=> left > 0) /\ q \in Position \cup {None}
  BY <1>6
<1>10. CASE n = 0
  <2> DEFINE y == [x EXCEPT !.pos = q]
  <2>1. /\ y \in Engine /\ SameBook(x, y) /\ y.pos = q /\ y.sink = x.sink
        /\ marked \in Engine
    BY <1>1, <1>6, <1>9 DEF Engine, SameBook, SameRange
  <2>2. told = marked
    BY <1>10, <2>1, EmitTold
  <2>3. rest = y
    <3> HIDE DEF told, n, left, c, d
    <3>1. rest = IF left > 0 THEN marked ELSE [marked EXCEPT !.pos = None]
      BY <1>4, <2>2
    <3>2. [marked EXCEPT !.pos = None] = [x EXCEPT !.pos = None]
      BY <1>1 DEF Engine
    <3> QED
      BY <3>1, <3>2
  <2> HIDE DEF y, q, rest
  <2>4. Runner(x) = left /\ Runner(y) = left
    <3>1. left = x.pos.qty
      BY <1>2, <1>10
    <3> QED
      BY <1>2, <1>4, <1>6, <1>9, <2>1, <3>1 DEF Runner, q
  <2>5. Continues(x, y) /\ (y.pos # None => Whole(y.pos))
    BY <1>7, <2>1 DEF Continues, q
  <2>6. Leads(B, o, x, y)
    BY <2>1, <2>4, <2>5, Changing
  <2> QED
    BY <1>3, <2>3, <2>6, CheckDailyLossLimitLeads, LeadsTransitive DEF Leads
<1>11. CASE n > 0
  <2> DEFINE u == [x EXCEPT !.pos = q, !.pnl = x.pnl + g, !.sink = Append(x.sink, c)]
             y == [u EXCEPT !.sink = Append(u.sink, d)]
  <2>1. Append(x.sink, c) \in Seq(Action) /\ Append(Append(x.sink, c), d) \in Seq(Action)
    BY <1>1, <1>8
  <2> HIDE DEF q
  <2>2. /\ u \in Engine /\ SameBook(x, u) /\ u.pos = q /\ u.sink = Append(x.sink, c)
        /\ y \in Engine /\ SameBook(u, y) /\ y.pos = q /\ y.sink = Append(u.sink, d)
    BY <1>1, <1>5, <1>9, <2>1 DEF Engine, SameBook, SameRange
  <2>3. rest = y
    <3>1. booked \in Engine /\ booked.sink = x.sink
      BY <1>1, <1>5, <1>6 DEF Engine
    <3> DEFINE m == Eng!Emit(booked, c)
    <3>2. m = [booked EXCEPT !.sink = Append(x.sink, c)] /\ m \in Engine
          /\ m.sink = Append(x.sink, c)
      BY <1>8, <3>1, EmitCall
    <3> HIDE DEF m
    <3>3. sized = [m EXCEPT !.sink = Append(m.sink, d)] /\ sized \in Engine
      BY <1>8, <3>2, EmitCall DEF m
    <3>4. told = sized
      BY <1>11, <3>3, EmitTold
    <3> HIDE DEF sized, told
    <3>5. sized = [booked EXCEPT !.sink = Append(Append(x.sink, c), d)]
      BY <3>1, <3>2, <3>3 DEF Engine
    <3>6. sized = [x EXCEPT !.pos = p, !.pnl = x.pnl + g, !.sink = Append(Append(x.sink, c), d)]
      BY <1>1, <3>5 DEF Engine
    <3>7. rest = [x EXCEPT !.pos = q, !.pnl = x.pnl + g, !.sink = Append(Append(x.sink, c), d)]
      <4> HIDE DEF left
      <4>1. rest = IF left > 0 THEN sized ELSE [sized EXCEPT !.pos = None]
        BY <1>4, <3>4
      <4> HIDE DEF rest
      <4>2. CASE left > 0
        BY <3>6, <4>1, <4>2 DEF q
      <4>3. CASE left = 0
        BY <1>1, <3>6, <4>1, <4>3 DEF q, Engine
      <4> QED
        BY <1>4, <4>2, <4>3
    <3> HIDE DEF rest
    <3>8. y = [x EXCEPT !.pos = q, !.pnl = x.pnl + g, !.sink = Append(Append(x.sink, c), d)]
      BY <1>1 DEF Engine
    <3> QED
      BY <3>7, <3>8
  <2> HIDE DEF u, y, rest
  <2>4. /\ Continues(x, u) /\ (u.pos # None => Whole(u.pos))
        /\ Continues(u, y) /\ (y.pos # None => Whole(y.pos))
    BY <1>4, <1>6, <1>7, <2>2 DEF Continues, q, Kept
  <2>5. Runner(u) = left /\ Runner(y) = left /\ Runner(x) = x.pos.qty
    BY <1>2, <1>4, <1>6, <1>9, <2>2 DEF Runner, q
  <2>6. Allowed(B, o, u, c) /\ CloseQty(c) = n
    BY <1>1, <1>2, <1>4, <1>8 DEF Allowed, Cancels, CloseQty
  <2>7. Allowed(B, o, y, d) /\ CloseQty(d) = 0 /\ d.type # "place"
    BY <1>1, <1>4, <1>6, <1>8, <2>2 DEF Allowed, Cancels, CloseQty, q
  <2>8. Manages(B, o, u) /\ Leads(B, o, x, u)
    <3>1. Runner(u) + CloseQty(c) = Runner(x)
      BY <1>2, <1>4, <2>5, <2>6
    <3> QED
      BY <1>8, <2>2, <2>4, <2>6, <3>1, Calling
  <2>9. Leads(B, o, u, y)
    <3>1. Runner(y) + CloseQty(d) = Runner(u)
      BY <1>4, <2>5, <2>7
    <3> QED
      BY <1>8, <2>2, <2>4, <2>7, <2>8, <3>1, Calling
  <2>10. Leads(B, o, x, y)
    BY <2>8, <2>9, LeadsTransitive
  <2> QED
    BY <1>3, <2>3, <2>10, CheckDailyLossLimitLeads, LeadsTransitive DEF Leads
<1> QED
  BY <1>4, <1>10, <1>11

(* What the indicators may know after a bar.                               *)
Known(candle) ==
  candle # None =>
    /\ candle.sma \in Int \cup {None} /\ candle.close \in Int
    /\ candle.trail # None => candle.trail.low \in Int /\ candle.trail.high \in Int

(* The old runner: the cap, the average as a trailing stop, the exit on a  *)
(* close beyond it.                                                        *)
LEMMA ManageRunnerOldLeads ==
  ASSUME NEW B, NEW o, NEW x, Manages(B, o, x), x.pos # None, NEW price \in Int,
         NEW candle, Known(candle)
  PROVE  Leads(B, o, x, Eng!ManageRunnerOld(x, price, candle))
<1> DEFINE trailed == Eng!RatchetStop(x, candle.sma)
           capped  == Eng!ExitPositionMarket(x, price)
           out     == Eng!ExitPositionMarket(trailed, price)
<1>1. Leads(B, o, x, x) /\ Leads(B, o, x, capped)
  BY LeadsReflexive, ExitPositionMarketLeads
<1>2. CASE candle = None
  BY <1>1, <1>2 DEF Eng!ManageRunnerOld
<1>3. CASE candle # None /\ candle.sma = None
  BY <1>1, <1>3 DEF Eng!ManageRunnerOld
<1>4. CASE candle # None /\ candle.sma # None
  <2>1. candle.sma \in Int
    BY <1>4 DEF Known
  <2>2. Leads(B, o, x, trailed) /\ trailed.pos # None
    BY <2>1, RatchetStopLeads DEF Held
  <2>3. Eng!ManageRunnerOld(x, price, candle) \in {capped, trailed, out}
    BY <1>4 DEF Eng!ManageRunnerOld
  <2> HIDE DEF trailed
  <2>4. Leads(B, o, trailed, out)
    BY <2>2, ExitPositionMarketLeads DEF Leads
  <2>5. Leads(B, o, x, out)
    BY <2>2, <2>4, LeadsTransitive
  <2> HIDE DEF capped, out
  <2> QED
    BY <1>1, <2>2, <2>3, <2>5
<1> QED
  BY <1>2, <1>3, <1>4

(* Phase B: the stop trails a candle.                                      *)
LEMMA TrailCandleLeads ==
  ASSUME NEW B, NEW o, NEW x, Manages(B, o, x), x.pos # None,
         NEW candle, Known(candle), candle # None
  PROVE  Leads(B, o, x, Eng!TrailCandle(x, candle))
<1>1. CASE candle.trail = None
  BY <1>1, LeadsReflexive DEF Eng!TrailCandle
<1>2. CASE candle.trail # None
  <2> DEFINE price == IF x.pos.side = "long" THEN candle.trail.low ELSE candle.trail.high
  <2>1. price \in Int
    BY <1>2 DEF Known
  <2>2. Eng!TrailCandle(x, candle) = Eng!RatchetStop(x, price)
    BY <1>2 DEF Eng!TrailCandle
  <2> HIDE DEF price
  <2> QED
    BY <2>1, <2>2, RatchetStopLeads
<1> QED
  BY <1>1, <1>2

(* Phase A: the stop follows the average.                                  *)
LEMMA FollowAverageLeads ==
  ASSUME NEW B, NEW o, NEW x, Manages(B, o, x), x.pos # None, NEW sma \in Int
  PROVE  LET y == Eng!FollowAverage(x, sma) IN Leads(B, o, x, y) /\ y.pos # None
<1> DEFINE price == IF x.pos.side = "long" THEN Eng!Greater(x.pos.entry, sma)
                    ELSE Eng!Smaller(x.pos.entry, sma)
           m == Eng!Emit([x EXCEPT !.pos.stop = price], Eng!ModifyPrice(price))
<1>1. price \in Int
  <2>1. x.pos.entry \in Int
    BY OpenFacts DEF Position
  <2> QED
    BY <2>1 DEF Eng!Greater, Eng!Smaller
<1>2. Eng!FollowAverage(x, sma) = m \/ Eng!FollowAverage(x, sma) = x
  BY DEF Eng!FollowAverage
<1> HIDE DEF price
<1>3. Leads(B, o, x, m) /\ m.pos # None
  <2>1. ASSUME NEW q \in Int
        PROVE  LET y == Eng!Emit([x EXCEPT !.pos.stop = q], Eng!ModifyPrice(q)) IN
               Leads(B, o, x, y) /\ y.pos = [x.pos EXCEPT !.stop = q] /\ y.pos # None
    BY MoveStopLeads
  <2> QED
    BY <1>1, <2>1
<1> HIDE DEF m
<1> QED
  BY <1>2, <1>3, LeadsReflexive

(* The new runner.                                                         *)
LEMMA ManageRunnerNewLeads ==
  ASSUME NEW B, NEW o, NEW x, Manages(B, o, x), x.pos # None, NEW candle, Known(candle)
  PROVE  Leads(B, o, x, Eng!ManageRunnerNew(x, candle))
<1>1. CASE candle = None \/ (candle # None /\ candle.sma = None)
  BY <1>1, LeadsReflexive DEF Eng!ManageRunnerNew
<1>2. CASE candle # None /\ candle.sma # None
  <2> DEFINE f == Eng!FollowAverage(x, candle.sma)
             c == Eng!Emit([f EXCEPT !.pos.phase = "B"], Eng!Notify("runner_phase_change"))
             a == Eng!TrailCandle(c, candle)
             b == Eng!TrailCandle(x, candle)
  <2>1. candle.sma \in Int
    BY <1>2 DEF Known
  <2>2. Leads(B, o, x, f) /\ f.pos # None
    BY <2>1, FollowAverageLeads
  <2>3. Leads(B, o, x, b)
    BY <1>2, TrailCandleLeads
  <2>4. Eng!ManageRunnerNew(x, candle) \in {f, a, b}
    BY <1>2 DEF Eng!ManageRunnerNew
  <2> HIDE DEF f, b
  <2>5. Leads(B, o, f, c) /\ c.pos # None
    <3> DEFINE p == [f.pos EXCEPT !.phase = "B"]
               u == [f EXCEPT !.pos = p]
    <3>1. Manages(B, o, f)
      BY <2>2 DEF Leads
    <3>2. f \in Engine /\ f.pos \in Position
      BY <2>2, <3>1, OpenFacts
    <3>3. /\ p \in Position /\ p.side = f.pos.side /\ p.qty = f.pos.qty
          /\ p.runnerQty = f.pos.runnerQty /\ p.tp1 = f.pos.tp1
      BY <3>2 DEF Position
    <3>4. [f EXCEPT !.pos.phase = "B"] = u
      BY <3>2 DEF Engine
    <3> HIDE DEF p
    <3>5. Leads(B, o, f, u) /\ u \in Engine /\ u.pos = p /\ p # None
      BY <2>2, <3>1, <3>3, RemarkLeads
    <3> HIDE DEF u
    <3>6. Eng!Emit(u, Eng!Notify("runner_phase_change")) = u
      BY <3>5, EmitTold
    <3> QED
      BY <3>4, <3>5, <3>6
  <2> HIDE DEF c
  <2>6. Leads(B, o, c, a)
    BY <1>2, <2>5, TrailCandleLeads DEF Leads
  <2> HIDE DEF a
  <2>7. Leads(B, o, x, a)
    BY <2>2, <2>5, <2>6, LeadsTransitive
  <2> QED
    BY <2>2, <2>3, <2>4, <2>7
<1> QED
  BY <1>1, <1>2

(* _manage_position_on_bar.                                                *)
LEMMA ManagePositionOnBarLeads ==
  ASSUME NEW B, NEW o, NEW x, Manages(B, o, x), x.pos # None, NEW price \in Int,
         NEW candle, Known(candle)
  PROVE  Leads(B, o, x, Eng!ManagePositionOnBar(x, price, candle))
<1> DEFINE s == Eng!MoveToBreakeven(x, price)
           h == Eng!HandleTp1(s, price)
           p == IF ~s.pos.tp1 /\ Eng!RAtLeast(s.pos, price, Tp1R) THEN h ELSE s
           r == Eng!ManageRunner(p, price, candle)
           y == Eng!ManagePositionOnBar(x, price, candle)
<1>1. Leads(B, o, x, s) /\ s.pos # None
  BY MoveToBreakevenLeads DEF Held
<1>3. p = h \/ p = s
  OBVIOUS
<1>4. ~s.pos.tp1 => Leads(B, o, s, h)
  <2> HIDE DEF s
  <2> QED
    BY <1>1, HandleTp1Leads DEF Leads
<1>5. Leads(B, o, s, p)
  <2>1. Leads(B, o, s, s)
    BY <1>1, LeadsReflexive DEF Leads
  <2> HIDE DEF s, h
  <2> QED
    BY <1>4, <2>1
<1>6. Leads(B, o, x, p)
  <2> HIDE DEF s, p
  <2> QED
    BY <1>1, <1>5, LeadsTransitive
<1>7. y = p \/ (y = r /\ p.pos # None)
  <2> HIDE DEF r
  <2> QED
    BY DEF Eng!ManagePositionOnBar, r
<1> HIDE DEF p
<1>8. p.pos # None => Leads(B, o, p, r)
  <2> HAVE p.pos # None
  <2>1. r = Eng!ManageRunnerOld(p, price, candle) \/ r = Eng!ManageRunnerNew(p, candle)
    BY DEF Eng!ManageRunner
  <2>2. Manages(B, o, p)
    BY <1>6 DEF Leads
  <2> QED
    BY <2>1, <2>2, ManageRunnerOldLeads, ManageRunnerNewLeads
<1> HIDE DEF r, y
<1> QED
  BY <1>6, <1>7, <1>8, LeadsTransitive DEF y

-----------------------------------------------------------------------------
(* Timers.                                                                 *)

(* The cutoff.                                                             *)
LEMMA EntryCutoffCheckLeads ==
  ASSUME NEW B, NEW o, NEW x, Manages(B, o, x), NEW m
  PROVE  Leads(B, o, x, Eng!EntryCutoffCheck(x, m))
<1> DEFINE c == Eng!CancelEntries(x)
           y == [c EXCEPT !.done = TRUE]
<1>1. Leads(B, o, x, x) /\ Leads(B, o, x, c)
  BY LeadsReflexive, CancelEntriesLeads
<1>2. \/ Eng!EntryCutoffCheck(x, m) = x
      \/ Eng!EntryCutoffCheck(x, m) = Eng!Emit(y, Eng!Notify("no_trade"))
  BY DEF Eng!EntryCutoffCheck
<1> HIDE DEF c
<1>3. c \in Engine
  BY <1>1 DEF Leads, Manages, EngineSound
<1>4. y \in Engine /\ SameBook(c, y) /\ y.pos = c.pos /\ y.sink = c.sink
  BY <1>3 DEF Engine, SameBook, SameRange
<1> HIDE DEF y
<1>5. Leads(B, o, c, y)
  BY <1>1, <1>4, MarkLeads DEF Leads
<1>6. Eng!Emit(y, Eng!Notify("no_trade")) = y
  BY <1>4, EmitTold
<1> QED
  BY <1>1, <1>2, <1>5, <1>6, LeadsTransitive

(* The flatten before an FOMC announcement.                                *)
LEMMA FomcCheckLeads ==
  ASSUME NEW B, NEW o, NEW x, Manages(B, o, x), NEW m
  PROVE  Leads(B, o, x, Eng!FomcCheck(x, m))
<1>1. \/ Eng!FomcCheck(x, m) = x
      \/ x.pos # None /\ Eng!FomcCheck(x, m) = Eng!ExitPositionMarket(x, Eng!RefPrice(x))
  BY DEF Eng!FomcCheck
<1>2. x.pos # None => Eng!RefPrice(x) \in Int
  BY RefPriceIsInt DEF Manages, EngineSound
<1> QED
  BY <1>1, <1>2, LeadsReflexive, ExitPositionMarketLeads

(* The hard close, from which on no entry is left.                         *)
LEMMA HardCloseCheckLeads ==
  ASSUME NEW B, NEW o, NEW x, Manages(B, o, x), NEW m
  PROVE  LET y == Eng!HardCloseCheck(x, m) IN
         Leads(B, o, x, y) /\ (m >= HardClose /\ m \in Int /\ y.placed => y.canceled)
<1> DEFINE y == Eng!HardCloseCheck(x, m)
           f == IF x.pos # None THEN Eng!ExitPositionMarket(x, Eng!RefPrice(x)) ELSE x
           z == [Eng!CancelEntries(f) EXCEPT !.done = TRUE]
<1>1. Leads(B, o, x, z) /\ (z.placed => z.canceled)
  BY FlattenLeads
<1>2. (m < HardClose => y = x) /\ (~(m < HardClose) => y = z)
  BY DEF Eng!HardCloseCheck
<1>3. m >= HardClose /\ m \in Int => ~(m < HardClose)
  BY SessionAssumption
<1> HIDE DEF y, z
<1>4. Leads(B, o, x, y) /\ (m >= HardClose /\ m \in Int /\ y.placed => y.canceled)
  BY <1>1, <1>2, <1>3, LeadsReflexive
<1> QED
  BY <1>4 DEF y

(* _check_time_based_actions.                                              *)
LEMMA CheckTimeBasedActionsLeads ==
  ASSUME NEW B, NEW o, NEW x, Manages(B, o, x), NEW m
  PROVE  LET y == Eng!CheckTimeBasedActions(x, m) IN
         Leads(B, o, x, y) /\ (m >= HardClose /\ m \in Int /\ y.placed => y.canceled)
<1> DEFINE c == Eng!EntryCutoffCheck(x, m)
           w == Eng!WhipsawCheck(c, m)
           f == Eng!FomcCheck(w, m)
           y == Eng!HardCloseCheck(f, m)
<1>1. Leads(B, o, x, c)
  BY EntryCutoffCheckLeads
<1>2. Eng!CheckTimeBasedActions(x, m) = y
  BY DEF Eng!CheckTimeBasedActions
<1> HIDE DEF c
<1>3. Leads(B, o, c, w)
  BY <1>1, WhipsawCheckLeads DEF Leads
<1> HIDE DEF w
<1>4. Leads(B, o, w, f)
  BY <1>3, FomcCheckLeads DEF Leads
<1> HIDE DEF f
<1>5. Leads(B, o, f, y) /\ (m >= HardClose /\ m \in Int /\ y.placed => y.canceled)
  BY <1>4, HardCloseCheckLeads DEF Leads
<1> HIDE DEF y
<1>6. Leads(B, o, x, y)
  BY <1>1, <1>3, <1>4, <1>5, LeadsTransitive
<1> QED
  BY <1>2, <1>5, <1>6

-----------------------------------------------------------------------------
(* The end of the opening range, and on_bar.                               *)

(* A size is a number of contracts, and not 0 unless it is refused.        *)
LEMMA SizeIsNat ==
  ASSUME NEW distance \in Int
  PROVE  Eng!ComputePositionSize(Equity, distance) \in Nat
<1> DEFINE raw == (Equity * RiskBp) \div (distance * PointValue * 10000)
           qty == IF SizingMode = "fixed" THEN FixedContracts ELSE Eng!Greater(MinContracts, raw)
<1>1. CASE distance <= 0
  BY <1>1 DEF Eng!ComputePositionSize, Eng!Refused
<1>2. CASE distance > 0
  <2> DEFINE a == Equity * RiskBp
             b == distance * PointValue * 10000
  <2>1. a \in Int
    BY LiveAssumption, RiskAssumption
  <2>2. b \in Int /\ b > 0
    <3> DEFINE k == distance * PointValue
    <3>1. k \in Int /\ k > 0
      BY <1>2, SafetyAssumption
    <3> HIDE DEF k
    <3> QED
      BY <3>1 DEF k
  <2> HIDE DEF a, b
  <2>3. a \div b \in Int
    BY <2>1, <2>2
  <2>4. raw = a \div b
    BY DEF a, b
  <2>5. qty \in Nat
    BY <2>3, <2>4, RiskAssumption, NoneAssumption DEF Eng!Greater
  <2> HIDE DEF qty
  <2>6. Eng!ComputePositionSize(Equity, distance) \in {Eng!Refused, qty}
    BY DEF Eng!ComputePositionSize, qty
  <2> QED
    BY <2>5, <2>6 DEF Eng!Refused
<1> QED
  BY <1>1, <1>2

(* What an engine that has called nothing may place.                       *)
LEMMA PlacingBoth ==
  ASSUME NEW B, NEW o, NEW x, Manages(B, o, x), x.sink = <<>>, ~o.orFinal, ~x.orFinal,
         NEW y \in Engine, y.placed, ~y.canceled, DaySound(y), y.pos = x.pos,
         y.halted = x.halted, NEW p \in Action, NEW s \in Action,
         y.sink = Append(<<p>>, s),
         Places(p, "entry_long"), p.side = "long", p.qty = y.entryQty,
         Places(s, "entry_short"), s.side = "short", s.qty = y.entryQty
  PROVE  Manages(B, o, y) /\ (Balanced(o, x) => Balanced(o, y))
<1>1. /\ o \in Engine /\ x \in Engine /\ ~o.placed /\ ~o.canceled /\ (o.halted => y.halted)
      /\ Continues(o, x) /\ y.orFinal /\ y.placed
  BY DEF Manages, EngineSound, DaySound
<1>2. /\ Len(y.sink) = 2 /\ y.sink[1] = p /\ y.sink[2] = s /\ <<p>> \in Seq(Action)
      /\ p.type = "place" /\ s.type = "place" /\ p.ref = "entry_long" /\ s.ref = "entry_short"
  BY DEF Places
<1>3. Continues(o, y)
  BY <1>1 DEF Continues
<1>4. ASSUME NEW i \in 1..Len(y.sink) PROVE Allowed(B, o, y, y.sink[i])
  <2>1. Allowed(B, o, y, p) /\ Allowed(B, o, y, s)
    BY <1>1, <1>2 DEF Allowed, Cancels, EntryRefs, EntrySide
  <2>2. i = 1 \/ i = 2
    BY <1>2
  <2> QED
    BY <1>2, <2>1, <2>2
<1>5. PlacedOnce(y.sink)
  <2>1. \A i \in 1..Len(y.sink) : i = 1 \/ i = 2
    BY <1>2
  <2> QED
    BY <1>2, <2>1 DEF PlacedOnce
<1>6. Manages(B, o, y)
  BY <1>1, <1>3, <1>4, <1>5 DEF Manages, EngineSound
<1>7. ASSUME Balanced(o, x) PROVE Balanced(o, y)
  <2>1. PICK n \in Int : Owes(<<>>, n) /\ Runner(o) = Runner(x) + n
    BY <1>7 DEF Balanced
  <2>2. Runner(y) = Runner(x) /\ <<>> \in Seq(Action) /\ <<p>> = Append(<<>>, p)
    BY DEF Runner
  <2>3. CloseQty(p) = 0 /\ CloseQty(s) = 0 /\ n + 0 = n
    BY <1>2 DEF CloseQty
  <2>4. Owes(<<p>>, n)
    BY <2>1, <2>2, <2>3, OwesMore
  <2>5. Owes(y.sink, n)
    BY <1>2, <2>3, <2>4, OwesMore
  <2> QED
    BY <2>1, <2>2, <2>5 DEF Balanced
<1> QED
  BY <1>6, <1>7

(* _finalize_opening_range places both entries or ends the day.            *)
LEMMA FinalizeOpeningRangeManages ==
  ASSUME NEW B, NEW o, NEW x, Manages(B, o, x), x.sink = <<>>, ~o.orFinal, ~x.orFinal
  PROVE  LET y == Eng!FinalizeOpeningRange(x) IN
         /\ Manages(B, o, y) /\ (Balanced(o, x) => Balanced(o, y))
         /\ y.orHigh = x.orHigh /\ y.orLow = x.orLow /\ y.pos = x.pos
<1> DEFINE final == [x EXCEPT !.orFinal = TRUE]
           stop  == [final EXCEPT !.done = TRUE]
           width == x.orHigh - x.orLow
           qty   == Eng!ComputePositionSize(Equity, width + 2 * Buffer)
           armed == [final EXCEPT !.entryQty = qty, !.placed = TRUE]
           p     == Eng!Place("entry_long", "long", x.orHigh + Buffer, qty)
           s     == Eng!Place("entry_short", "short", x.orLow - Buffer, qty)
           both  == Eng!Emit(Eng!Emit(armed, p), s)
           y     == Eng!FinalizeOpeningRange(x)
<1>1. x \in Engine /\ x.equity = Equity /\ ~x.placed /\ ~x.canceled /\ x.entryQty = 0
  BY DEF Manages, EngineSound, DaySound, Engine
<1>2. final \in Engine /\ stop \in Engine
  BY <1>1 DEF Engine
<1>3. \/ y = Eng!Emit(stop, Eng!Alert) \/ y = Eng!Emit(stop, Eng!Notify("no_trade"))
      \/ /\ x.orHigh # None /\ x.orLow # None
         /\ y = Eng!Emit(both, Eng!Notify("entry_orders_placed"))
  <2> HIDE DEF stop, final
  <2> QED
    BY <1>1 DEF Eng!FinalizeOpeningRange, Eng!LongEntry, Eng!ShortEntry, stop, final
<1> HIDE DEF y
<1>4. CASE y \in {Eng!Emit(stop, Eng!Alert), Eng!Emit(stop, Eng!Notify("no_trade"))}
  <2>1. y = stop
    BY <1>2, <1>4, EmitTold
  <2>2. /\ stop.orHigh = x.orHigh /\ stop.orLow = x.orLow /\ stop.pos = x.pos
        /\ stop.sink = x.sink /\ ~stop.placed /\ ~stop.canceled /\ stop.entryQty = 0
        /\ stop.halted = x.halted /\ stop.orFinal
    BY <1>1 DEF Engine
  <2> HIDE DEF stop
  <2>3. DaySound(stop) /\ Continues(o, stop) /\ Len(stop.sink) = 0
    BY <2>2 DEF Manages, EngineSound, DaySound, Continues
  <2>4. Manages(B, o, stop)
    BY <1>1, <1>2, <2>2, <2>3 DEF Manages, EngineSound, PlacedOnce
  <2>5. Balanced(o, x) => Balanced(o, stop)
    BY <2>2 DEF Balanced, Runner
  <2> QED
    BY <2>1, <2>2, <2>4, <2>5 DEF y
<1>5. CASE /\ x.orHigh # None /\ x.orLow # None
           /\ y = Eng!Emit(both, Eng!Notify("entry_orders_placed"))
  <2>1. x.orHigh \in Int /\ x.orLow \in Int
    BY <1>1, <1>5 DEF Engine
  <2>2. qty \in Nat
    <3>1. width + 2 * Buffer \in Int
      BY <2>1, RangeAssumption
    <3> HIDE DEF width
    <3> QED
      BY <3>1, SizeIsNat
  <2>3. /\ p \in Action /\ Places(p, "entry_long") /\ p.side = "long" /\ p.qty = qty
        /\ s \in Action /\ Places(s, "entry_short") /\ s.side = "short" /\ s.qty = qty
    <3> HIDE DEF qty
    <3> QED
      BY <2>1, <2>2, RangeAssumption DEF Action, Eng!Place, Places, OrderRefs, Sides
  <2>4. /\ armed \in Engine /\ armed.sink = <<>> /\ armed.entryQty = qty /\ armed.placed
        /\ ~armed.canceled /\ armed.pos = x.pos /\ armed.orHigh = x.orHigh
        /\ armed.orLow = x.orLow /\ armed.halted = x.halted /\ armed.orFinal
    <3> HIDE DEF qty
    <3> QED
      BY <1>1, <2>2 DEF Engine
  <2>5. qty = SizeOf(armed)
    <3> HIDE DEF armed
    <3> QED
      BY <2>4 DEF SizeOf
  <2>6. x.pos # None => Whole(x.pos)
    BY DEF Manages, EngineSound, DaySound
  <2> DEFINE m == Eng!Emit(armed, p)
  <2> HIDE DEF armed, p, s, qty
  <2>7. m = [armed EXCEPT !.sink = Append(armed.sink, p)] /\ m \in Engine
        /\ m.sink = Append(armed.sink, p)
    BY <2>3, <2>4, EmitCall
  <2>8. both = [m EXCEPT !.sink = Append(m.sink, s)] /\ both \in Engine
        /\ both.sink = Append(m.sink, s)
    <3> HIDE DEF m
    <3> QED
      BY <2>3, <2>7, EmitCall DEF m
  <2> HIDE DEF m, both
  <2>9. y = both
    BY <1>5, <2>8, EmitTold
  <2>10. m.sink = <<p>>
    BY <2>4, <2>7
  <2>11. /\ both.entryQty = qty /\ both.placed /\ ~both.canceled /\ both.pos = x.pos
         /\ both.orHigh = x.orHigh /\ both.orLow = x.orLow /\ both.halted = x.halted
         /\ both.orFinal
    BY <2>4, <2>7, <2>8 DEF Engine
  <2>12. DaySound(both)
    BY <1>5, <2>4, <2>5, <2>6, <2>11 DEF DaySound, SizeOf
  <2>13. Manages(B, o, both) /\ (Balanced(o, x) => Balanced(o, both))
    <3>1. both.sink = Append(<<p>>, s) /\ both \in Engine
      BY <2>8, <2>10
    <3>2. p.qty = both.entryQty /\ s.qty = both.entryQty /\ both.placed /\ ~both.canceled
          /\ both.pos = x.pos /\ both.halted = x.halted
      BY <2>3, <2>11
    <3> QED
      BY <2>3, <2>12, <3>1, <3>2, PlacingBoth
  <2> QED
    BY <2>9, <2>11, <2>13 DEF y
<1> QED
  BY <1>3, <1>4, <1>5

(* on_bar once the range is complete.                                      *)
LEMMA OnBarManages ==
  ASSUME NEW B, NEW o, Manages(B, o, o), Balanced(o, o), o.sink = <<>>,
         NEW bar, bar.time \in Int, bar.close \in Int, bar.time >= OrEnd,
         NEW candle, Known(candle)
  PROVE  LET y == Eng!OnBar(o, bar, candle) IN
         /\ Manages(B, o, y) /\ Balanced(o, y)
         /\ y.orHigh = o.orHigh /\ y.orLow = o.orLow
         /\ bar.time >= HardClose /\ y.placed => y.canceled
<1> DEFINE u == [o EXCEPT !.lastPrice = bar.close]
           r == Eng!ObserveRange(u, bar)
           g == IF r.pos # None THEN Eng!ManagePositionOnBar(r, bar.close, candle) ELSE r
           y == Eng!CheckTimeBasedActions(g, bar.time)
<1>1. o \in Engine
  BY DEF Manages, EngineSound
<1>2. u \in Engine /\ SameBook(o, u) /\ u.pos = o.pos /\ u.sink = o.sink
  BY <1>1 DEF Engine, SameBook, SameRange
<1>3. Eng!OnBar(o, bar, candle) = y
  BY DEF Eng!OnBar
<1> HIDE DEF u
<1>4. Leads(B, o, o, u)
  BY <1>2, MarkLeads
<1>5. /\ Manages(B, o, r) /\ Balanced(o, r)
      /\ r.orHigh = o.orHigh /\ r.orLow = o.orLow
  <2>1. CASE u.orFinal
    <3>1. r = u
      BY <2>1 DEF Eng!ObserveRange
    <3> QED
      BY <1>4, <3>1 DEF Leads, SameRange
  <2>2. CASE ~u.orFinal
    <3>1. ~(bar.time < OrEnd)
      BY SessionAssumption
    <3>2. r = Eng!FinalizeOpeningRange(u)
      BY <2>2, <3>1 DEF Eng!ObserveRange
    <3>3. ~o.orFinal
      BY <1>2, <2>2 DEF SameBook, SameRange
    <3> HIDE DEF r
    <3> QED
      BY <1>2, <1>4, <2>2, <3>2, <3>3, FinalizeOpeningRangeManages DEF Leads, SameRange
  <2> QED
    BY <2>1, <2>2
<1> HIDE DEF r
<1>6. Leads(B, o, r, g)
  BY <1>5, ManagePositionOnBarLeads, LeadsReflexive
<1> HIDE DEF g
<1>7. Leads(B, o, g, y) /\ (bar.time >= HardClose /\ y.placed => y.canceled)
  BY <1>6, CheckTimeBasedActionsLeads DEF Leads
<1> HIDE DEF y
<1>8. Leads(B, o, r, y)
  BY <1>6, <1>7, LeadsTransitive
<1> QED
  BY <1>3, <1>5, <1>7, <1>8 DEF Leads, SameRange

(* A bar and a timer before the end of the range, on a day that has done   *)
(* nothing yet: only the range and the last price move.                    *)
LEMMA EarlyBar ==
  ASSUME NEW o, EngineSound(o), o.sink = <<>>, o.pos = None, ~o.orFinal,
         NEW bar, bar.time \in Int, bar.close \in Int, bar.high \in Int, bar.low \in Int,
         bar.time < OrEnd, NEW candle
  PROVE  LET y == Eng!OnBar(o, bar, candle) IN
         /\ EngineSound(y) /\ y.sink = <<>> /\ y.pos = None /\ ~y.orFinal
         /\ ~y.placed /\ ~y.canceled /\ y.halted = o.halted
<1> DEFINE u == [o EXCEPT !.lastPrice = bar.close]
           v == Eng!UpdateRange(u, bar)
           r == Eng!ObserveRange(u, bar)
           y == Eng!OnBar(o, bar, candle)
<1>1. o \in Engine /\ ~o.placed /\ ~o.canceled /\ o.entryQty = 0
  BY DEF EngineSound, DaySound
<1>2. /\ u \in Engine /\ u.pos = None /\ ~u.orFinal /\ u.sink = <<>> /\ ~u.placed
      /\ ~u.canceled /\ u.entryQty = 0 /\ u.halted = o.halted
  BY <1>1 DEF Engine
<1> HIDE DEF u
<1>3. /\ v \in Engine /\ v.pos = None /\ ~v.orFinal /\ v.sink = <<>> /\ ~v.placed
      /\ ~v.canceled /\ v.entryQty = 0 /\ v.halted = o.halted
  <2> DEFINE h == IF u.orHigh = None THEN bar.high ELSE Eng!Greater(u.orHigh, bar.high)
             l == IF u.orLow = None THEN bar.low ELSE Eng!Smaller(u.orLow, bar.low)
  <2>1. h \in Int /\ l \in Int
    BY <1>2 DEF Engine, Eng!Greater, Eng!Smaller
  <2>2. v = [u EXCEPT !.orHigh = h, !.orLow = l]
    BY <1>2 DEF Eng!UpdateRange, Engine
  <2> HIDE DEF h, l, v
  <2> QED
    BY <1>2, <2>1, <2>2 DEF Engine
<1> HIDE DEF v
<1>4. r = u \/ r = v
  <2>1. ~(bar.time >= OrEnd)
    BY SessionAssumption
  <2> QED
    BY <1>2, <2>1 DEF Eng!ObserveRange, v
<1>5. ~(bar.time >= EntryCutoff) /\ bar.time < HardClose
  BY SessionAssumption
<1>6. y = Eng!CheckTimeBasedActions(IF r.pos # None
                                    THEN Eng!ManagePositionOnBar(r, bar.close, candle)
                                    ELSE r, bar.time)
  BY DEF Eng!OnBar, u, r
<1> HIDE DEF r, y
<1>7. y = Eng!CheckTimeBasedActions(r, bar.time)
  BY <1>2, <1>3, <1>4, <1>6
<1>8. y = r
  <2>1. r.pos = None
    BY <1>2, <1>3, <1>4
  <2>2. Eng!EntryCutoffCheck(r, bar.time) = r
    BY <1>5 DEF Eng!EntryCutoffCheck
  <2>3. Eng!WhipsawCheck(r, bar.time) = r /\ Eng!FomcCheck(r, bar.time) = r
        /\ Eng!HardCloseCheck(r, bar.time) = r
    BY <1>5, <2>1 DEF Eng!WhipsawCheck, Eng!FomcCheck, Eng!HardCloseCheck
  <2> QED
    BY <1>7, <2>2, <2>3 DEF Eng!CheckTimeBasedActions
<1> QED
  BY <1>2, <1>3, <1>4, <1>8 DEF EngineSound, DaySound, y

(* A timer at that time does nothing.                                      *)
LEMMA EarlyTimer ==
  ASSUME NEW o, EngineSound(o), o.pos = None, ~o.orFinal, NEW m \in Int, m < OrEnd
  PROVE  Eng!OnWallClock(o, m) = o
<1>1. ~(m >= EntryCutoff) /\ m < HardClose
  BY SessionAssumption
<1>2. Eng!EntryCutoffCheck(o, m) = o
  BY <1>1 DEF Eng!EntryCutoffCheck
<1>3. Eng!WhipsawCheck(o, m) = o /\ Eng!FomcCheck(o, m) = o /\ Eng!HardCloseCheck(o, m) = o
  BY <1>1 DEF Eng!WhipsawCheck, Eng!FomcCheck, Eng!HardCloseCheck
<1> QED
  BY <1>2, <1>3 DEF Eng!OnWallClock, Eng!CheckTimeBasedActions

-----------------------------------------------------------------------------
(* Order states and fills.                                                 *)

(* An entry that starts to work too late is cancelled.                     *)
LEMMA OnOrderWorkingLeads ==
  ASSUME NEW B, NEW o, NEW x, Manages(B, o, x), NEW ref \in OrderRefs
  PROVE  LET y == Eng!OnOrderWorking(x, ref) IN
         /\ Leads(B, o, x, y) /\ y = [x EXCEPT !.sink = y.sink]
         /\ y.canceled = x.canceled /\ y.halted = x.halted /\ y.pos = x.pos
<1> DEFINE a == Eng!Cancel(ref)
           m == Eng!Emit(x, a)
           y == Eng!OnOrderWorking(x, ref)
<1>1. x \in Engine /\ x = [x EXCEPT !.sink = x.sink]
  BY DEF Manages, EngineSound, Engine
<1>2. y = x \/ (ref \in EntryRefs /\ y = m)
  BY RefsAre DEF Eng!OnOrderWorking
<1> HIDE DEF y
<1> SUFFICES /\ Leads(B, o, x, y) /\ y = [x EXCEPT !.sink = y.sink]
             /\ y.canceled = x.canceled /\ y.halted = x.halted /\ y.pos = x.pos
  BY DEF y
<1>3. CASE y = x
  BY <1>1, <1>3, LeadsReflexive
<1>4. CASE ref \in EntryRefs /\ y = m
  <2>1. a \in Action /\ a.type = "cancel" /\ a.ref = ref
    BY DEF Action, Eng!Cancel
  <2> HIDE DEF a
  <2>2. m = [x EXCEPT !.sink = Append(x.sink, a)] /\ m \in Engine /\ m.sink = Append(x.sink, a)
    BY <1>1, <2>1, EmitCall
  <2> HIDE DEF m
  <2>3. SameBook(x, m) /\ m.pos = x.pos /\ m.canceled = x.canceled /\ m.halted = x.halted
        /\ m = [x EXCEPT !.sink = m.sink]
    BY <1>1, <2>2 DEF SameBook, SameRange, Engine
  <2>4. Continues(x, m) /\ (m.pos # None => Whole(m.pos)) /\ Runner(m) = Runner(x)
        /\ Runner(x) \in Nat
    BY <2>3, SamePosition DEF Manages
  <2>5. Allowed(B, o, m, a) /\ CloseQty(a) = 0 /\ a.type # "place"
    BY <1>4, <2>1, RefsAre DEF Allowed, Cancels, CloseQty
  <2>6. Runner(m) + CloseQty(a) = Runner(x)
    BY <2>4, <2>5
  <2>7. Leads(B, o, x, m)
    BY <2>1, <2>2, <2>3, <2>4, <2>5, <2>6, Calling
  <2> QED
    BY <1>4, <2>3, <2>7
<1> QED
  BY <1>2, <1>3, <1>4

(* A racing entry is closed and cancelled.                                 *)
LEMMA CleanUpRacingEntryManages ==
  ASSUME NEW B, NEW o, NEW x, Manages(B, o, x), o.pos # None, NEW fill,
         fill.ref \in EntryRefs, fill.qty \in Nat, fill.qty \in B
  PROVE  LET y == Eng!CleanUpRacingEntry(x, fill) IN
         /\ Manages(B, o, y) /\ SameRange(x, y)
         /\ ~y.halted => ~x.halted /\ y.canceled = x.canceled
<1> DEFINE c == Eng!CloseMarket(fill.qty)
           d == Eng!Cancel(fill.ref)
           u == Eng!Emit(x, c)
           v == Eng!Emit(u, d)
<1>1. x \in Engine /\ fill.ref \in OrderRefs /\ fill.ref # "stop_loss"
  BY RefsAre DEF Manages, EngineSound
<1>2. c \in Action /\ c.type = "close" /\ c.qty = fill.qty
      /\ d \in Action /\ d.type = "cancel" /\ d.ref = fill.ref
  BY <1>1 DEF Action, Eng!CloseMarket, Eng!Cancel
<1>3. Eng!CleanUpRacingEntry(x, fill) = Eng!CheckDailyLossLimit(v)
  BY <1>1, EmitTold DEF Eng!CleanUpRacingEntry
<1> HIDE DEF c, d
<1>4. u = [x EXCEPT !.sink = Append(x.sink, c)] /\ u \in Engine /\ u.sink = Append(x.sink, c)
  BY <1>1, <1>2, EmitCall
<1> HIDE DEF u
<1>5. v = [u EXCEPT !.sink = Append(u.sink, d)] /\ v \in Engine /\ v.sink = Append(u.sink, d)
  BY <1>2, <1>4, EmitCall
<1> HIDE DEF v
<1>6. SameBook(x, u) /\ u.pos = x.pos /\ SameBook(u, v) /\ v.pos = u.pos
  BY <1>1, <1>4, <1>5 DEF SameBook, SameRange, Engine
<1>7. Allowed(B, o, u, c) /\ Allowed(B, o, v, d) /\ c.type # "place" /\ d.type # "place"
  <2>1. \E b \in B : c.qty <= b
    BY <1>2
  <2> QED
    BY <1>1, <1>2, <2>1 DEF Allowed, Cancels
<1>8. Manages(B, o, u)
  <2>1. Continues(x, u) /\ (u.pos # None => Whole(u.pos))
    BY <1>6, SamePosition DEF Manages
  <2> QED
    BY <1>2, <1>4, <1>6, <1>7, <2>1, Calling
<1>9. Manages(B, o, v)
  <2>1. Continues(u, v) /\ (v.pos # None => Whole(v.pos))
    BY <1>6, <1>8, SamePosition DEF Manages
  <2> QED
    BY <1>2, <1>5, <1>6, <1>7, <1>8, <2>1, Calling
<1>10. PICK y : y = Eng!CheckDailyLossLimit(v)
  OBVIOUS
<1>11. Leads(B, o, v, y) /\ (y = v \/ y.halted)
  BY <1>9, <1>10, CheckDailyLossLimitLeads
<1>12. SameRange(x, y)
  BY <1>6, <1>11 DEF Leads, SameBook, SameRange
<1>13. ~y.halted => ~x.halted /\ y.canceled = x.canceled
  BY <1>6, <1>11 DEF SameBook
<1> QED
  BY <1>3, <1>10, <1>11, <1>12, <1>13 DEF Leads

(* The stop has filled: the engine is as if it had never held a position,  *)
(* has told of the exit, and may halt.                                     *)
LEMMA HandleStopFillIs ==
  ASSUME NEW o, EngineSound(o), o.sink = <<>>, o.pos # None, NEW fill,
         fill.price \in Int, fill.qty \in Nat
  PROVE  \E u, w : /\ EngineSound(u) /\ u.sink = <<>> /\ u.pos = None
                   /\ SameRange(o, u) /\ u.canceled = o.canceled /\ u.halted = o.halted
                   /\ \A B \in SUBSET Nat : Leads(B, u, u, w)
                   /\ w.pos = None /\ w.canceled = o.canceled /\ w.halted = o.halted
                   /\ Eng!HandleStopFill(o, fill) = Eng!CheckDailyLossLimit(w)
<1> DEFINE g == Eng!PnlUsd(o.pos, fill.price, fill.qty)
           n == Eng!Notify("exit")
           b == [o EXCEPT !.pnl = o.pnl + g]
           u == [b EXCEPT !.pos = None]
           w == [u EXCEPT !.sink = Append(<<>>, n)]
<1>1. o \in Engine /\ o.pos \in Position /\ o.pnl \in Int
  BY DEF EngineSound, Engine
<1>2. g \in Int
  BY <1>1, PnlIsInt
<1> HIDE DEF g
<1>3. b \in Engine
  <2>1. o.pnl + g \in Int
    BY <1>1, <1>2
  <2> QED
    BY <1>1, <2>1 DEF Engine
<1>7. n \in Action /\ n.type = "notify"
  BY DEF Action, Eng!Notify
<1>4. Eng!HandleStopFill(o, fill) = Eng!CheckDailyLossLimit(w)
  <2>1. Eng!HandleStopFill(o, fill)
          = Eng!CheckDailyLossLimit([Eng!Emit(b, n) EXCEPT !.pos = None])
    BY DEF Eng!HandleStopFill, g
  <2> HIDE DEF n
  <2>2. Eng!Emit(b, n) = [b EXCEPT !.sink = Append(b.sink, n)] /\ b.sink = <<>>
    BY <1>1, <1>3, <1>7, EmitCall DEF Engine
  <2>3. [Eng!Emit(b, n) EXCEPT !.pos = None] = w
    <3> HIDE DEF b
    <3> QED
      BY <1>3, <2>2 DEF Engine
  <2> HIDE DEF b, w
  <2> QED
    BY <2>1, <2>3
<1>5. /\ u \in Engine /\ u.sink = <<>> /\ u.pos = None /\ SameRange(o, u)
      /\ u.canceled = o.canceled /\ u.halted = o.halted
  BY <1>1, <1>3 DEF Engine, SameRange
<1> HIDE DEF u
<1>6. EngineSound(u)
  BY <1>1, <1>5, SameRangeSound DEF EngineSound, SameRange
<1> HIDE DEF n
<1>8. Append(<<>>, n) \in Seq(Action)
  BY <1>7
<1>9. /\ w \in Engine /\ w.sink = Append(u.sink, n) /\ w.pos = None /\ SameBook(u, w)
      /\ w.canceled = u.canceled /\ w.halted = u.halted
  BY <1>5, <1>8 DEF Engine, SameBook, SameRange
<1> HIDE DEF w
<1>10. ASSUME NEW B \in SUBSET Nat PROVE Leads(B, u, u, w)
  <2>1. Manages(B, u, u) /\ Balanced(u, u)
    BY <1>5, <1>6, HandlerBegins
  <2>2. Continues(u, w) /\ Allowed(B, u, w, n) /\ Runner(w) + CloseQty(n) = Runner(u)
    BY <1>5, <1>7, <1>9 DEF Continues, Allowed, Cancels, Runner, CloseQty
  <2> QED
    BY <1>5, <1>7, <1>9, <2>1, <2>2, Calling
<1> QED
  BY <1>4, <1>5, <1>6, <1>9, <1>10

(* An entry has filled: the position has the day's size, its stop the      *)
(* same, and the opposite entry is withdrawn.                              *)
LEMMA HandleEntryFillIs ==
  ASSUME NEW o, EngineSound(o), o.sink = <<>>, o.pos = None,
         o.orHigh # None, o.orLow # None, NEW fill, fill.ref \in EntryRefs, fill.price \in Int
  PROVE  LET y == Eng!HandleEntryFill(o, fill) IN
         /\ EngineSound(y) /\ SameRange(o, y) /\ y.canceled = o.canceled /\ y.halted = o.halted
         /\ y.pos # None /\ y.pos \in Position /\ y.pos.side = EntrySide(fill.ref)
         /\ y.pos.qty = o.entryQty /\ y.pos.runnerQty = o.entryQty
         /\ \E c, s \in Action :
              /\ Len(y.sink) = 2 /\ y.sink[1] = c /\ y.sink[2] = s
              /\ c.type = "cancel" /\ c.ref \in EntryRefs
              /\ Places(s, "stop_loss") /\ s.side = Opposite(y.pos.side)
              /\ s.qty = o.entryQty
<1> DEFINE side  == IF fill.ref = "entry_long" THEN "long" ELSE "short"
           stop  == Eng!InitialStop(o, side)
           p     == Eng!OpenedBy(o, side, fill.price)
           c     == Eng!Cancel(Eng!EntryRef(Eng!Opposite(side)))
           s     == Eng!Place("stop_loss", Eng!Opposite(side), p.stop, p.qty)
           alone == Eng!Emit(o, c)
           open  == [alone EXCEPT !.pos = p, !.done = TRUE]
           guard == Eng!Emit(open, s)
           y     == Eng!HandleEntryFill(o, fill)
<1>1. o \in Engine /\ DaySound(o) /\ o.entryQty \in Nat /\ o.orHigh \in Int /\ o.orLow \in Int
  BY DEF EngineSound, Engine
<1>2. side \in Sides /\ side = EntrySide(fill.ref)
  BY DEF Sides, EntrySide
<1>3. stop \in Int
  BY <1>1, RangeAssumption DEF Eng!InitialStop
<1>4. y = Eng!Emit(guard, Eng!Notify("entry"))
  BY DEF Eng!HandleEntryFill, Eng!LongEntry, Eng!StopLoss
<1> HIDE DEF side, y
<1>5. /\ p \in Position /\ p.side = side /\ p.qty = o.entryQty /\ p.runnerQty = o.entryQty
      /\ p.stop = stop /\ ~p.tp1 /\ p # None
  <2> DEFINE r == Eng!Magnitude(fill.price - stop)
  <2>1. r \in Int
    <3> HIDE DEF stop
    <3> QED
      BY <1>3 DEF Eng!Magnitude
  <2>2. p = [side |-> side, entry |-> fill.price, qty |-> o.entryQty, initialStop |-> stop,
             rUnit |-> r, stop |-> stop, beMoved |-> FALSE, whipsaw |-> FALSE,
             tp1 |-> FALSE, runnerQty |-> o.entryQty, mode |-> RunnerMode,
             phase |-> IF RunnerMode = "new" THEN "A" ELSE "none"]
    BY DEF Eng!OpenedBy
  <2> HIDE DEF r, stop, p
  <2>3. p \in Position
    BY <1>1, <1>2, <1>3, <2>1, <2>2, ExitsAssumption DEF Position
  <2> QED
    BY <2>2, <2>3, OptionalAssumption
<1>6. c \in Action /\ c.type = "cancel" /\ c.ref \in EntryRefs
  BY <1>2 DEF Action, Eng!Cancel, Eng!EntryRef, Eng!LongEntry, Eng!ShortEntry, EntryRefs,
              OrderRefs
<1>7. /\ s \in Action /\ Places(s, "stop_loss") /\ s.side = Opposite(side)
      /\ s.qty = o.entryQty
  <2> HIDE DEF p, stop
  <2>1. Eng!Opposite(side) = Opposite(side) /\ Opposite(side) \in Sides
    BY DEF Eng!Opposite, Opposite, Sides
  <2> QED
    BY <1>1, <1>3, <1>5, <2>1 DEF Action, Eng!Place, Places, OrderRefs
<1> HIDE DEF p, c, s
<1>8. alone = [o EXCEPT !.sink = Append(o.sink, c)] /\ alone \in Engine
      /\ alone.sink = Append(o.sink, c)
  BY <1>1, <1>6, EmitCall
<1> HIDE DEF alone
<1>9. open \in Engine /\ open.sink = <<c>>
  <2>1. alone.sink = <<c>>
    BY <1>6, <1>8
  <2>2. open \in Engine /\ open.sink = alone.sink
    BY <1>5, <1>8 DEF Engine
  <2> QED
    BY <2>1, <2>2
<1>10. /\ open.pos = p /\ open.orHigh = o.orHigh /\ open.orLow = o.orLow
       /\ open.orFinal = o.orFinal /\ open.placed = o.placed /\ open.entryQty = o.entryQty
       /\ open.canceled = o.canceled /\ open.halted = o.halted
  BY <1>1, <1>8 DEF Engine
<1> HIDE DEF open
<1>11. guard = [open EXCEPT !.sink = Append(open.sink, s)] /\ guard \in Engine
       /\ guard.sink = Append(open.sink, s)
  BY <1>7, <1>9, EmitCall
<1> HIDE DEF guard
<1>12. y = guard /\ Len(guard.sink) = 2 /\ guard.sink[1] = c /\ guard.sink[2] = s
  <2>1. <<c>> \in Seq(Action) /\ Len(<<c>>) = 1 /\ (<<c>>)[1] = c
    BY <1>6
  <2>2. Len(guard.sink) = 2 /\ guard.sink[1] = c /\ guard.sink[2] = s
    BY <1>7, <1>9, <1>11, <2>1
  <2>3. y = guard
    BY <1>4, <1>11, EmitTold
  <2> QED
    BY <2>2, <2>3
<1>13. /\ SameRange(o, guard) /\ guard.pos = p
       /\ guard.canceled = o.canceled /\ guard.halted = o.halted
  BY <1>9, <1>10, <1>11 DEF Engine, SameRange
<1>14. Whole(p)
  BY <1>1, <1>5 DEF Whole
<1>15. EngineSound(guard)
  BY <1>1, <1>11, <1>13, <1>14, SameRangeSound DEF EngineSound, SameRange
<1>16. \E a, b \in Action :
         /\ Len(y.sink) = 2 /\ y.sink[1] = a /\ y.sink[2] = b
         /\ a.type = "cancel" /\ a.ref \in EntryRefs
         /\ Places(b, "stop_loss") /\ b.side = Opposite(y.pos.side) /\ b.qty = o.entryQty
  <2>1. y.pos.side = side
    BY <1>5, <1>12, <1>13
  <2> QED
    BY <1>6, <1>7, <1>12, <2>1
<1> QED
  BY <1>2, <1>5, <1>12, <1>13, <1>15, <1>16 DEF y

(* /flatten.                                                               *)
LEMMA ManualFlattenLeads ==
  ASSUME NEW B, NEW o, NEW x, Manages(B, o, x)
  PROVE  LET y == Eng!ManualFlatten(x) IN
         Leads(B, o, x, y) /\ y.pos = None /\ (y.placed => y.canceled)
BY FlattenLeads DEF Eng!ManualFlatten
=============================================================================
