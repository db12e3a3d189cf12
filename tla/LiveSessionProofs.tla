-------------------------- MODULE LiveSessionProofs -------------------------
(***************************************************************************)
(* Safety of the live session, for every configuration, every number of    *)
(* orders and every order in which the tasks' calls, the fills and the     *)
(* mishaps can come.                                                       *)
(*                                                                         *)
(* Inv is the invariant of every day: it gives the types, and that a close *)
(* goes out against an entry that filled and for no more than it brought.  *)
(* Its parts take the values they speak of as parameters, so that a lemma  *)
(* can say what a change of one of them leaves intact.                     *)
(*                                                                         *)
(* Orderly and OneTrade stand on it: Orderly follows the entries of a day  *)
(* on which nothing has raised until they are withdrawn, OneTrade the      *)
(* trade of such a day on which one entry fills.                           *)
(***************************************************************************)
EXTENDS LiveEngineProofs, FiniteSetTheorems

Order ==
  [ref : OrderRefs, side : Sides, price : Int, qty : Nat,
   state : {"working", "filled", "cancelled"}]

Frame ==
  [type : {"order"}, id : Nat] \cup [type : {"fill"}, id : Nat, price : Int, qty : Nat]

Broker ==
  [ids : [OrderRefs -> Nat \cup {None}], names : SUBSET [id : Nat, ref : OrderRefs],
   side : Sides \cup {None}, qty : Nat]

Types ==
  /\ EngineSound(e) /\ e.sink = <<>>
  /\ saved \in Day \cup {None} /\ (saved # None => DaySound(saved))
  /\ now \in 0..EndTime /\ paused \in BOOLEAN /\ deaf \in BOOLEAN
  /\ t \in Broker
  /\ todo \in [Tasks -> Seq(Action)]
  /\ asked \in [Tasks -> Nat \cup {None}] /\ tries \in [Tasks -> 0..1]
  /\ orders \in Seq(Order) /\ net \in Int /\ frames \in Seq(Frame)
  /\ mishaps \subseteq Mishaps /\ Cardinality(mishaps) <= MaxMishaps
  /\ rows \in 0..MaxRows /\ missed \subseteq EntryRefs

(* Ids and references are paired, and a placement that waits for its       *)
(* answer is its task's next call.                                         *)
Paired(b, os, ask, td) ==
  /\ \A n \in b.names : n.id \in DOMAIN os /\ os[n.id].ref = n.ref
  /\ \A ref \in OrderRefs : b.ids[ref] # None => [id |-> b.ids[ref], ref |-> ref] \in b.names
  /\ \A task \in Tasks : ask[task] # None =>
       /\ td[task] # <<>> /\ ask[task] \in DOMAIN os
       /\ Places(Head(td[task]), os[ask[task]].ref)

(* A fill is told once, and as it happened.                                *)
FramesTrue(fs, os) ==
  /\ \A i \in DOMAIN fs : fs[i].id \in DOMAIN os
  /\ \A i \in DOMAIN fs : fs[i].type = "fill" =>
       /\ os[fs[i].id].state = "filled" /\ fs[i].qty = os[fs[i].id].qty
       /\ \A j \in DOMAIN fs : fs[j].type = "fill" /\ fs[j].id = fs[i].id => i = j

(* An entry has the side of its reference and the size of the range.       *)
Bracket(d, o) ==
  d.orHigh # None /\ d.orLow # None /\ o.side = EntrySide(o.ref) /\ o.qty = SizeOf(d)

(* Contracts that some filled entry has brought in.                        *)
FilledEntries(os) == {id \in DOMAIN os : os[id].ref \in EntryRefs /\ os[id].state = "filled"}

Backed(os, q) == \E id \in FilledEntries(os) : q <= os[id].qty

(* What a task may still have to do: the loop places entries, the reader   *)
(* stops, and nothing is closed that no entry has brought in.              *)
CallSound(d, os, task, a) ==
  /\ a.type = "place" =>
       \/ a.ref = "stop_loss" /\ task = "reader"
       \/ a.ref \in EntryRefs /\ task = "loop" /\ Bracket(d, a)
  /\ a.type = "close" => Backed(os, a.qty)

Brackets(d, os, td) ==
  /\ \A id \in DOMAIN os : os[id].ref \in EntryRefs => Bracket(d, os[id])
  /\ \A task \in Tasks : \A i \in 1..Len(td[task]) : CallSound(d, os, task, td[task][i])

(* The range does not change between two saves.                            *)
RangeSaved(d, s) ==
  IF s = None THEN d.orHigh = None /\ d.orLow = None
  ELSE s.orHigh = d.orHigh /\ s.orLow = d.orLow

(* Positions and the broker's side come from entries that filled.          *)
Backings(d, os, s, side) ==
  /\ d.pos # None => Backed(os, d.pos.qty)
  /\ s # None => (s.pos # None => Backed(os, s.pos.qty))
  /\ side # None => \E id \in FilledEntries(os) : os[id].side = side

(* Before the end of the range nothing happens but bars.                   *)
Unbegun(d) == d.pos = None /\ ~d.orFinal

Early ==
  now < OrEnd =>
    /\ orders = <<>> /\ \A task \in Tasks : todo[task] = <<>>
    /\ Unbegun(e) /\ (saved # None => Unbegun(saved))

Inv ==
  /\ Types /\ Paired(t, orders, asked, todo) /\ FramesTrue(frames, orders)
  /\ Brackets(e, orders, todo) /\ RangeSaved(e, saved) /\ Backings(e, orders, saved, t.side)
  /\ Early

-----------------------------------------------------------------------------
(* Facts about values.                                                     *)

(* The exchange's orders later: more of them, those that filled the same,  *)
(* an entry of the same size.                                              *)
Grown(os, ns) ==
  /\ os \in Seq(Order) /\ ns \in Seq(Order) /\ DOMAIN os \subseteq DOMAIN ns
  /\ \A id \in DOMAIN os :
       /\ ns[id].ref = os[id].ref /\ ns[id].side = os[id].side
       /\ os[id].ref \in EntryRefs => ns[id].qty = os[id].qty
       /\ os[id].state = "filled" => ns[id] = os[id]

(* What has filled stays filled.                                           *)
LEMMA GrownBacks ==
  ASSUME NEW os, NEW ns, Grown(os, ns)
  PROVE  /\ FilledEntries(os) \subseteq FilledEntries(ns)
         /\ \A id \in FilledEntries(os) : id \in DOMAIN os /\ ns[id] = os[id]
         /\ \A q : Backed(os, q) => Backed(ns, q)
<1>1. FilledEntries(os) \subseteq FilledEntries(ns)
  BY DEF Grown, FilledEntries
<1>2. \A id \in FilledEntries(os) : id \in DOMAIN os /\ ns[id] = os[id]
  BY DEF Grown, FilledEntries
<1> QED
  BY <1>1, <1>2 DEF Backed

(* Every part of the invariant outlives a growth of the orders, if a new   *)
(* entry is as it should be.                                               *)
LEMMA GrownKeeps ==
  ASSUME NEW os, NEW ns, Grown(os, ns), NEW b, NEW ask, NEW td, NEW fs, NEW d, NEW s,
         NEW side
  PROVE  /\ Paired(b, os, ask, td) => Paired(b, ns, ask, td)
         /\ FramesTrue(fs, os) => FramesTrue(fs, ns)
         /\ /\ Brackets(d, os, td)
            /\ \A id \in DOMAIN ns \ DOMAIN os :
                 ns[id].ref \in EntryRefs => Bracket(d, ns[id])
            => Brackets(d, ns, td)
         /\ Backings(d, os, s, side) => Backings(d, ns, s, side)
<1>1. Paired(b, os, ask, td) => Paired(b, ns, ask, td)
  BY DEF Paired, Grown
<1>2. FramesTrue(fs, os) => FramesTrue(fs, ns)
  BY DEF FramesTrue, Grown
<1>3. ASSUME Brackets(d, os, td),
             \A id \in DOMAIN ns \ DOMAIN os : ns[id].ref \in EntryRefs => Bracket(d, ns[id])
      PROVE  Brackets(d, ns, td)
  <2>1. ASSUME NEW id \in DOMAIN os, ns[id].ref \in EntryRefs PROVE Bracket(d, ns[id])
    <3>1. /\ ns[id].ref = os[id].ref /\ ns[id].side = os[id].side
          /\ (os[id].ref \in EntryRefs => ns[id].qty = os[id].qty)
      BY DEF Grown
    <3>2. Bracket(d, os[id])
      BY <1>3, <2>1, <3>1 DEF Brackets
    <3> QED
      BY <2>1, <3>1, <3>2 DEF Bracket
  <2>2. ASSUME NEW task \in Tasks, NEW i \in 1..Len(td[task])
        PROVE  CallSound(d, ns, task, td[task][i])
    <3>1. CallSound(d, os, task, td[task][i])
      BY <1>3 DEF Brackets
    <3> QED
      BY <3>1, GrownBacks DEF CallSound
  <2> QED
    BY <1>3, <2>1, <2>2 DEF Brackets
<1>4. Backings(d, os, s, side) => Backings(d, ns, s, side)
  BY GrownBacks DEF Backings
<1> QED
  BY <1>1, <1>2, <1>3, <1>4

(* A task's list with its first call done, or given up.                    *)
LEMMA TailFacts ==
  ASSUME NEW q \in Seq(Action), q # <<>>
  PROVE  /\ Tail(q) \in Seq(Action) /\ Len(q) \in Nat \ {0} /\ Len(Tail(q)) = Len(q) - 1
         /\ \A i \in 1..Len(Tail(q)) : i + 1 \in 1..Len(q) /\ Tail(q)[i] = q[i + 1]
         /\ Head(q) = q[1] /\ 1 \in 1..Len(q) /\ Head(q) \in Action
OBVIOUS

(* A call leaves a task's list, or the whole list is dropped.              *)
LEMMA ShorterKeeps ==
  ASSUME NEW td \in [Tasks -> Seq(Action)], NEW task \in Tasks, NEW q,
         q = <<>> \/ (td[task] # <<>> /\ q = Tail(td[task])),
         NEW b, NEW os, NEW ask \in [Tasks -> Nat \cup {None}], NEW d
  PROVE  LET nd == [td EXCEPT ![task] = q] IN
         /\ nd \in [Tasks -> Seq(Action)]
         /\ Paired(b, os, ask, td) => Paired(b, os, [ask EXCEPT ![task] = None], nd)
         /\ ask[task] = None => [ask EXCEPT ![task] = None] = ask
         /\ Brackets(d, os, td) => Brackets(d, os, nd)
<1> DEFINE nd == [td EXCEPT ![task] = q]
<1>1. q \in Seq(Action) /\ nd \in [Tasks -> Seq(Action)] /\ nd[task] = q
      /\ \A other \in Tasks \ {task} : nd[other] = td[other]
  <2>1. td[task] \in Seq(Action)
    OBVIOUS
  <2>2. q = Tail(td[task]) /\ td[task] # <<>> => q \in Seq(Action)
    BY <2>1, TailFacts
  <2>3. <<>> \in Seq(Action)
    OBVIOUS
  <2>4. q \in Seq(Action)
    BY <2>2, <2>3
  <2> QED
    BY <2>4
<1>2. \A i \in 1..Len(q) : i + 1 \in 1..Len(td[task]) /\ q[i] = td[task][i + 1]
  BY TailFacts
<1> HIDE DEF nd
<1>3. Paired(b, os, ask, td) => Paired(b, os, [ask EXCEPT ![task] = None], nd)
  BY <1>1 DEF Paired
<1>4. Brackets(d, os, td) => Brackets(d, os, nd)
  <2> SUFFICES ASSUME Brackets(d, os, td), NEW other \in Tasks, NEW i \in 1..Len(nd[other])
               PROVE  CallSound(d, os, other, nd[other][i])
    BY DEF Brackets
  <2>1. CASE other = task
    BY <1>1, <1>2, <2>1 DEF Brackets
  <2>2. CASE other # task
    BY <1>1, <2>2 DEF Brackets
  <2> QED
    BY <2>1, <2>2
<1> QED
  BY <1>1, <1>3, <1>4 DEF nd

(* The range a list of calls was made for may be another engine's.         *)
LEMMA SameRangeBrackets ==
  ASSUME NEW d, NEW f, f.orHigh = d.orHigh, f.orLow = d.orLow, NEW os, NEW td
  PROVE  Brackets(d, os, td) => Brackets(f, os, td)
<1>1. SizeOf(f) = SizeOf(d)
  BY DEF SizeOf
<1>2. \A o : Bracket(d, o) => Bracket(f, o)
  BY <1>1 DEF Bracket
<1> QED
  BY <1>2 DEF Brackets, CallSound

(* The part of an engine that is saved, and the engine that resumes it.    *)
LEMMA DayOfFacts ==
  ASSUME NEW x, EngineSound(x)
  PROVE  LET d == Eng!DayOf(x) IN
         /\ d \in Day /\ d # None /\ DaySound(d) /\ RangeSaved(x, d) /\ d.pos = x.pos
         /\ d.orFinal = x.orFinal
<1> DEFINE d == Eng!DayOf(x)
<1>1. /\ d.orHigh = x.orHigh /\ d.orLow = x.orLow /\ d.orFinal = x.orFinal
      /\ d.placed = x.placed /\ d.entryQty = x.entryQty /\ d.pos = x.pos
  BY DEF Eng!DayOf
<1>2. d \in Day
  BY DEF Eng!DayOf, Day, EngineSound, Engine
<1> HIDE DEF d
<1>3. d # None
  BY <1>2, OptionalAssumption
<1>4. SizeOf(d) = SizeOf(x)
  BY <1>1 DEF SizeOf
<1>5. DaySound(d)
  BY <1>1, <1>4 DEF DaySound, EngineSound
<1> QED
  BY <1>1, <1>2, <1>3, <1>5 DEF RangeSaved, d

(* The engine that a session starts with.                                  *)
LEMMA ResumedFacts ==
  ASSUME Types, RangeSaved(e, saved)
  PROVE  /\ EngineSound(Resumed) /\ Resumed.sink = <<>> /\ RangeSaved(Resumed, saved)
         /\ Resumed.orHigh = e.orHigh /\ Resumed.orLow = e.orLow
         /\ Resumed.pos # None => saved # None /\ saved.pos = Resumed.pos
         /\ (saved # None => Unbegun(saved)) => Unbegun(Resumed)
<1> DEFINE d == IF saved = None THEN Eng!FreshDay ELSE saved
           r == Eng!NewEngine(d, Equity, <<>>)
<1>1. Eng!FreshDay \in Day /\ DaySound(Eng!FreshDay)
      /\ Eng!FreshDay.pos = None /\ ~Eng!FreshDay.orFinal
      /\ Eng!FreshDay.orHigh = None /\ Eng!FreshDay.orLow = None
  BY DEF Eng!FreshDay, Day, DaySound
<1>2. d \in Day /\ DaySound(d)
  BY <1>1 DEF Types
<1>3. d.orHigh = e.orHigh /\ d.orLow = e.orLow
  BY <1>1 DEF RangeSaved
<1>4. /\ d.pos # None => saved # None /\ saved.pos = d.pos
      /\ (saved # None => Unbegun(saved)) => Unbegun(d)
  BY <1>1 DEF Unbegun
<1>5. Resumed = r
  BY DEF Resumed
<1> HIDE DEF d
<1>6. /\ r.orHigh = d.orHigh /\ r.orLow = d.orLow /\ r.orFinal = d.orFinal
      /\ r.placed = d.placed /\ r.entryQty = d.entryQty /\ r.pos = d.pos
      /\ r.sink = <<>> /\ r.canceled = FALSE
  BY DEF Eng!NewEngine
<1>7. r \in Engine
  <2>1. <<>> \in Seq(Action) /\ Equity \in {Equity}
    OBVIOUS
  <2> QED
    BY <1>2, <2>1 DEF Eng!NewEngine, Day, Engine
<1> HIDE DEF r
<1>8. DaySound(r)
  <2>1. SizeOf(r) = SizeOf(d)
    BY <1>6 DEF SizeOf
  <2> QED
    BY <1>2, <1>6, <2>1 DEF DaySound
<1>9. RangeSaved(r, saved)
  BY <1>3, <1>6 DEF RangeSaved
<1> QED
  BY <1>3, <1>4, <1>5, <1>6, <1>7, <1>8, <1>9 DEF EngineSound, Unbegun

(* A mishap is counted.                                                    *)
LEMMA MishapCounted ==
  ASSUME Types, NEW m \in Mishaps, Befalls(m)
  PROVE  mishaps' \subseteq Mishaps /\ Cardinality(mishaps') <= MaxMishaps
<1>1. IsFiniteSet(Mishaps)
  <2>1. IsFiniteSet({"cancel_fails"}) /\ IsFiniteSet({"rejected"}) /\ IsFiniteSet({"raises"})
        /\ IsFiniteSet({"restart"}) /\ IsFiniteSet({"flatten"})
    BY FS_Singleton
  <2>2. Mishaps = {"cancel_fails"} \cup ({"rejected"} \cup ({"raises"} \cup
                    ({"restart"} \cup {"flatten"})))
    BY DEF Mishaps
  <2> QED
    BY <2>1, <2>2, FS_Union
<1>2. mishaps \subseteq Mishaps /\ IsFiniteSet(mishaps) /\ Cardinality(mishaps) \in Nat
  BY <1>1, FS_Subset, FS_CardinalityType DEF Types
<1>3. Cardinality(mishaps') = Cardinality(mishaps) + 1
  BY <1>2, FS_AddElement DEF Befalls
<1>4. rows \in Nat /\ Cardinality(mishaps) + rows < MaxMishaps
  BY LiveAssumption DEF Types, Befalls
<1> QED
  BY <1>2, <1>3, <1>4, LiveAssumption DEF Befalls

(* The reference of an order that the broker knows.                        *)
LEMMA RefOfIs ==
  ASSUME NEW b, NEW os, NEW ask, NEW td, Paired(b, os, ask, td), NEW id, RefOf(b, id) # None
  PROVE  /\ id \in DOMAIN os /\ RefOf(b, id) = os[id].ref
         /\ \E n \in b.names : n.id = id /\ n.ref = os[id].ref
<1>1. \E n \in b.names : n.id = id
  BY DEF RefOf
<1> DEFINE n == CHOOSE m \in b.names : m.id = id
<1>2. n \in b.names /\ n.id = id
  BY <1>1
<1>3. RefOf(b, id) = n.ref
  BY <1>1 DEF RefOf
<1> HIDE DEF n
<1> QED
  BY <1>2, <1>3 DEF Paired

(* Before the end of the range no task, no frame and no order can move.    *)
LEMMA EarlyIsQuiet ==
  ASSUME Inv, now < OrEnd
  PROVE  /\ DOMAIN orders = {} /\ frames = <<>> /\ e.pos = None /\ ~e.orFinal
         /\ \A task \in Tasks : Idle(task) /\ asked[task] = None
<1>1. orders = <<>> /\ \A task \in Tasks : todo[task] = <<>>
  BY DEF Inv, Early
<1>2. DOMAIN orders = {}
  BY <1>1
<1>3. frames \in Seq(Frame) /\ DOMAIN frames = {}
  BY <1>2 DEF Inv, Types, FramesTrue
<1>4. frames = <<>>
  BY <1>3
<1> QED
  BY <1>1, <1>2, <1>4 DEF Inv, Early, Unbegun, Idle, Paired

-----------------------------------------------------------------------------
(* The calls.                                                              *)

(* A task whose first call is done, whatever the call did elsewhere.       *)
LEMMA FinishedKeeps ==
  ASSUME Inv, NEW task \in Tasks, todo[task] # <<>>, Finished(task)
  PROVE  /\ todo' = [todo EXCEPT ![task] = Tail(todo[task])]
         /\ todo' \in [Tasks -> Seq(Action)] /\ paused' \in BOOLEAN
         /\ saved' \in Day \cup {None} /\ (saved' # None => DaySound(saved'))
         /\ RangeSaved(e, saved') /\ Backings(e, orders, saved', t.side)
         /\ Paired(t, orders, [asked EXCEPT ![task] = None], todo')
         /\ Brackets(e, orders, todo')
         /\ ~(now < OrEnd)
<1>1. /\ Types /\ todo \in [Tasks -> Seq(Action)] /\ asked \in [Tasks -> Nat \cup {None}]
      /\ EngineSound(e) /\ paused \in BOOLEAN
  BY DEF Inv, Types
<1>2. todo' = [todo EXCEPT ![task] = Tail(todo[task])]
  BY DEF Finished
<1>3. /\ todo' \in [Tasks -> Seq(Action)]
      /\ Paired(t, orders, [asked EXCEPT ![task] = None], todo')
      /\ Brackets(e, orders, todo')
  BY <1>1, <1>2, ShorterKeeps DEF Inv
<1>4. saved' = saved \/ saved' = Eng!DayOf(e)
  BY DEF Finished, SaveWhenDone
<1>5. paused' \in BOOLEAN
  BY <1>1 DEF Finished
<1>6. /\ saved' \in Day \cup {None} /\ (saved' # None => DaySound(saved'))
      /\ RangeSaved(e, saved') /\ Backings(e, orders, saved', t.side)
  <2>1. CASE saved' = saved
    BY <1>1, <2>1 DEF Inv, Types
  <2>2. CASE saved' = Eng!DayOf(e)
    BY <1>1, <2>2, DayOfFacts DEF Inv, Backings
  <2> QED
    BY <1>4, <2>1, <2>2
<1>7. ~(now < OrEnd)
  BY DEF Inv, Early
<1> QED
  BY <1>2, <1>3, <1>5, <1>6, <1>7

(* The steps that touch neither the engine, the broker nor an order.       *)
LEMMA LeavesOrders ==
  ASSUME Inv, NEW task \in Tasks, todo[task] # <<>>, asked[task] = None, Finished(task),
         UNCHANGED <<e, now, t, asked, deaf, orders, frames>>,
         tries' \in [Tasks -> 0..1], net' \in Int,
         mishaps' \subseteq Mishaps, Cardinality(mishaps') <= MaxMishaps, UNCHANGED record
  PROVE  Inv'
<1>1. /\ todo' \in [Tasks -> Seq(Action)] /\ paused' \in BOOLEAN
      /\ saved' \in Day \cup {None} /\ (saved' # None => DaySound(saved'))
      /\ RangeSaved(e, saved') /\ Backings(e, orders, saved', t.side)
      /\ Paired(t, orders, [asked EXCEPT ![task] = None], todo')
      /\ Brackets(e, orders, todo') /\ ~(now < OrEnd)
  BY FinishedKeeps
<1>2. asked \in [Tasks -> Nat \cup {None}]
  BY DEF Inv, Types
<1>3. [asked EXCEPT ![task] = None] = asked
  BY <1>2
<1>4. Types'
  BY <1>1 DEF Inv, Types, record
<1>5. Paired(t, orders, asked, todo)' /\ FramesTrue(frames, orders)'
      /\ Brackets(e, orders, todo)' /\ RangeSaved(e, saved)'
      /\ Backings(e, orders, saved, t.side)'
  BY <1>1, <1>3 DEF Inv
<1>6. Early'
  BY <1>1 DEF Early
<1> QED
  BY <1>4, <1>5, <1>6 DEF Inv

(* A placement the paused broker skips only shortens its handler's list of calls: no order, no
   frame and no day changes. *)
LEMMA SkipPlaceKeeps == ASSUME Inv, NEW task \in Tasks, SkipPlace(task) PROVE Inv'
<1>1. /\ todo[task] # <<>> /\ asked[task] = None /\ Finished(task)
      /\ tries' \in [Tasks -> 0..1] /\ net' \in Int
      /\ mishaps' \subseteq Mishaps /\ Cardinality(mishaps') <= MaxMishaps
  BY DEF SkipPlace, Ready, Idle, exchange, Inv, Types
<1> QED
  BY <1>1, LeavesOrders DEF SkipPlace, exchange

(* A placement the exchange refuses is logged and drops out of its handler's list: one mishap
   is counted, and no order comes into being. *)
LEMMA PlaceRejectedKeeps == ASSUME Inv, NEW task \in Tasks, PlaceRejected(task) PROVE Inv'
<1>1. /\ todo[task] # <<>> /\ asked[task] = None /\ Finished(task)
      /\ tries' \in [Tasks -> 0..1] /\ net' \in Int
  BY DEF PlaceRejected, Ready, Idle, exchange, Inv, Types
<1>2. mishaps' \subseteq Mishaps /\ Cardinality(mishaps') <= MaxMishaps
  BY MishapCounted DEF PlaceRejected, Mishaps, Inv
<1> QED
  BY <1>1, <1>2, LeavesOrders DEF PlaceRejected, exchange

(* A cancel that fails leaves its order where it is and counts one mishap; it is tried again,
   or given up and dropped from its handler's list. *)
LEMMA CancelFailsKeeps == ASSUME Inv, NEW task \in Tasks, CancelFails(task) PROVE Inv'
<1>1. /\ todo[task] # <<>> /\ asked[task] = None /\ net' \in Int
      /\ tries \in [Tasks -> 0..1]
  BY DEF CancelFails, Ready, Idle, exchange, Inv, Types
<1>2. mishaps' \subseteq Mishaps /\ Cardinality(mishaps') <= MaxMishaps
  BY MishapCounted DEF CancelFails, Mishaps, Inv
<1>3. CASE TryAgain(tries[task] + 1)
  <2>1. tries' = [tries EXCEPT ![task] = tries[task] + 1] /\ tries[task] + 1 \in 0..1
    <3>1. tries' = [tries EXCEPT ![task] = tries[task] + 1] /\ tries[task] + 1 < 2
      BY <1>3 DEF CancelFails, TryAgain
    <3>2. tries[task] \in 0..1
      BY <1>1
    <3> QED
      BY <3>1, <3>2
  <2>2. tries' \in [Tasks -> 0..1]
    BY <1>1, <2>1
  <2>3. UNCHANGED <<todo, saved, paused, e, now, t, asked, deaf, orders, net, frames>>
    BY <1>3 DEF CancelFails, exchange
  <2>4. Types'
    BY <1>2, <2>2, <2>3 DEF Inv, Types, CancelFails, record
  <2> QED
    BY <2>3, <2>4 DEF Inv, Early
<1>4. CASE ~TryAgain(tries[task] + 1)
  <2>1. tries' = [tries EXCEPT ![task] = 0] /\ Finished(task)
    BY <1>4 DEF CancelFails
  <2>2. tries' \in [Tasks -> 0..1]
    BY <1>1, <2>1
  <2> QED
    BY <1>1, <1>2, <2>1, <2>2, LeavesOrders DEF CancelFails, exchange
<1> QED
  BY <1>3, <1>4

(* A market close moves the net position by a number.                      *)
LEMMA CloseMoves ==
  ASSUME Inv, NEW task \in Tasks, CloseArrives(task)
  PROVE  net' \in Int
<1>1. todo[task] # <<>> /\ todo[task] \in Seq(Action) /\ Head(todo[task]).type = "close"
  BY DEF CloseArrives, Ready, Next1, Idle, Inv, Types
<1>2. Head(todo[task]).qty \in Nat
  BY <1>1, TailFacts DEF Action
<1>3. SignedQty(ClosingSide(t), Head(todo[task]).qty) \in Int
  BY <1>2 DEF SignedQty
<1> QED
  BY <1>3 DEF CloseArrives, Next1, Inv, Types

(* A market close moves the net position, which the invariant says nothing of, and shortens its
   handler's list. *)
LEMMA CloseMarketKeeps == ASSUME Inv, NEW task \in Tasks, CloseMarket(task) PROVE Inv'
<1>1. /\ todo[task] # <<>> /\ asked[task] = None /\ Finished(task)
      /\ tries' \in [Tasks -> 0..1]
      /\ mishaps' \subseteq Mishaps /\ Cardinality(mishaps') <= MaxMishaps
  BY DEF CloseMarket, CloseArrives, Ready, Idle, Inv, Types
<1>2. net' \in Int
  BY CloseMoves DEF CloseMarket
<1> QED
  BY <1>1, <1>2, LeavesOrders DEF CloseMarket, CloseArrives

(* What the reader is told of an exit only shortens its list.              *)
LEMMA ExitPrintedKeeps == ASSUME Inv, NEW task \in Tasks, ExitPrinted(task) PROVE Inv'
<1>1. /\ todo[task] # <<>> /\ asked[task] = None /\ Finished(task)
      /\ tries' \in [Tasks -> 0..1] /\ net' \in Int
      /\ mishaps' \subseteq Mishaps /\ Cardinality(mishaps') <= MaxMishaps
  BY DEF ExitPrinted, Ready, Idle, exchange, Inv, Types
<1> QED
  BY <1>1, LeavesOrders DEF ExitPrinted, exchange

(* An order the broker knows by a reference is one of that reference.      *)
LEMMA IdsAre ==
  ASSUME Inv, NEW ref \in OrderRefs, t.ids[ref] # None
  PROVE  t.ids[ref] \in DOMAIN orders /\ orders[t.ids[ref]].ref = ref
BY DEF Inv, Paired

(* An order that changes, and keeps what has to be kept.                   *)
LEMMA ExceptGrows ==
  ASSUME NEW os \in Seq(Order), NEW id \in DOMAIN os, NEW o \in Order,
         o.ref = os[id].ref, o.side = os[id].side,
         os[id].ref \in EntryRefs => o.qty = os[id].qty,
         os[id].state = "filled" => o = os[id]
  PROVE  LET ns == [os EXCEPT ![id] = o] IN
         /\ Grown(os, ns) /\ DOMAIN ns = DOMAIN os /\ ns[id] = o
         /\ \A i \in DOMAIN os : i # id => ns[i] = os[i]
<1> DEFINE ns == [os EXCEPT ![id] = o]
<1>1. /\ ns \in Seq(Order) /\ DOMAIN ns = DOMAIN os /\ ns[id] = o
      /\ \A i \in DOMAIN os : i # id => ns[i] = os[i]
  BY ExceptSeq
<1> HIDE DEF ns
<1>2. ASSUME NEW i \in DOMAIN os
      PROVE  /\ ns[i].ref = os[i].ref /\ ns[i].side = os[i].side
             /\ os[i].ref \in EntryRefs => ns[i].qty = os[i].qty
             /\ os[i].state = "filled" => ns[i] = os[i]
  BY <1>1
<1> QED
  BY <1>1, <1>2 DEF Grown, ns

(* The steps that change an order.                                         *)
LEMMA ChangesOrders ==
  ASSUME Inv, NEW task \in Tasks, todo[task] # <<>>, asked[task] = None, Finished(task),
         UNCHANGED <<e, now, t, asked, deaf, frames, net, mishaps, record>>,
         tries' \in [Tasks -> 0..1], Grown(orders, orders'), DOMAIN orders' = DOMAIN orders
  PROVE  Inv'
<1>1. /\ todo' \in [Tasks -> Seq(Action)] /\ paused' \in BOOLEAN
      /\ saved' \in Day \cup {None} /\ (saved' # None => DaySound(saved'))
      /\ RangeSaved(e, saved') /\ Backings(e, orders, saved', t.side)
      /\ Paired(t, orders, [asked EXCEPT ![task] = None], todo')
      /\ Brackets(e, orders, todo') /\ ~(now < OrEnd)
  BY FinishedKeeps
<1>2. asked \in [Tasks -> Nat \cup {None}]
  BY DEF Inv, Types
<1>3. [asked EXCEPT ![task] = None] = asked
  BY <1>2
<1>4. Types'
  BY <1>1 DEF Inv, Types, Grown, record
<1>5. /\ Paired(t, orders', asked, todo') /\ FramesTrue(frames, orders')
      /\ Brackets(e, orders', todo') /\ Backings(e, orders', saved', t.side)
  BY <1>1, <1>3, GrownKeeps DEF Inv
<1>6. Early'
  BY <1>1 DEF Early
<1> QED
  BY <1>1, <1>4, <1>5, <1>6 DEF Inv

(* A cancel withdraws one working order: its reference, side, price and quantity stay, and so
   every bracket and every backing. *)
LEMMA CancelKeeps == ASSUME Inv, NEW task \in Tasks, Cancel(task) PROVE Inv'
<1>1. /\ todo[task] # <<>> /\ asked[task] = None /\ Finished(task)
      /\ todo[task] \in Seq(Action) /\ Head(todo[task]).type = "cancel"
      /\ tries' \in [Tasks -> 0..1] /\ orders \in Seq(Order)
  BY DEF Cancel, Ready, Next1, Idle, Inv, Types
<1> DEFINE ref == Head(todo[task]).ref
           id == t.ids[ref]
<1>2. ref \in OrderRefs
  BY <1>1, TailFacts DEF Action
<1>3. id # None => id \in DOMAIN orders
  BY <1>2, IdsAre
<1>4. orders' = IF id = None THEN orders ELSE Withdrawn(orders, id)
  BY DEF Cancel, Next1
<1> HIDE DEF id
<1>5. CASE orders' = orders
  BY <1>1, <1>5, ChangesOrders DEF Cancel, Grown
<1>6. CASE /\ id # None /\ orders[id].state = "working"
           /\ orders' = [orders EXCEPT ![id].state = "cancelled"]
  <2> DEFINE o == [orders[id] EXCEPT !.state = "cancelled"]
  <2>0. id \in DOMAIN orders
    BY <1>3, <1>6
  <2>1. orders[id] \in Order
    BY <1>1, <2>0
  <2>2. orders' = [orders EXCEPT ![id] = o]
    BY <1>6
  <2>4. /\ o \in Order /\ o.ref = orders[id].ref /\ o.side = orders[id].side
        /\ o.qty = orders[id].qty
    BY <2>1 DEF Order
  <2> HIDE DEF o
  <2>3. orders[id].state = "filled" => o = orders[id]
    BY <1>6
  <2>5. Grown(orders, orders') /\ DOMAIN orders' = DOMAIN orders
    BY <1>1, <2>0, <2>2, <2>3, <2>4, ExceptGrows
  <2> QED
    BY <1>1, <2>3, <2>5, ChangesOrders DEF Cancel
<1> QED
  BY <1>4, <1>5, <1>6 DEF Withdrawn

(* A modified stop keeps its side and its reference; only its quantity or its price moves. *)
LEMMA ModifyMoves ==
  ASSUME Inv, NEW task \in Tasks, ModifyArrives(task)
  PROVE  Grown(orders, orders') /\ DOMAIN orders' = DOMAIN orders
<1> DEFINE a == Head(todo[task])
           id == t.ids[a.ref]
           o == Changed(orders[id], a)
<1>1. /\ todo[task] # <<>>
      /\ todo[task] \in Seq(Action) /\ a.type \in {"modify_price", "modify_qty"}
      /\ orders \in Seq(Order)
  BY DEF ModifyArrives, Ready, Next1, Idle, Inv, Types
<1>2. /\ a.ref = "stop_loss" /\ (a.type = "modify_price" => a.price \in Int)
      /\ (a.type = "modify_qty" => a.qty \in Nat)
  BY <1>1, TailFacts DEF Action
<1>3. id # None => id \in DOMAIN orders /\ orders[id].ref = "stop_loss"
  BY <1>2, IdsAre, RefsAre
<1>4. orders' = IF id = None THEN orders ELSE [orders EXCEPT ![id] = o]
  BY DEF ModifyArrives, Next1
<1> HIDE DEF id, a
<1>5. CASE id = None
  BY <1>1, <1>4, <1>5 DEF Grown
<1>6. CASE id # None
  <2>1. orders[id] \in Order
    BY <1>1, <1>3, <1>6
  <2>2. /\ o \in Order /\ o.ref = orders[id].ref /\ o.side = orders[id].side
        /\ o.state = orders[id].state /\ (orders[id].state # "working" => o = orders[id])
    BY <1>1, <1>2, <2>1 DEF Changed, Order
  <2> HIDE DEF o
  <2>3. id \in DOMAIN orders /\ orders[id].ref \notin EntryRefs
    BY <1>3, <1>6, RefsAre
  <2>4. orders[id].state = "filled" => o = orders[id]
    BY <2>2
  <2>5. orders' = [orders EXCEPT ![id] = o]
    BY <1>4, <1>6
  <2> QED
    BY <1>1, <2>2, <2>3, <2>4, <2>5, ExceptGrows
<1> QED
  BY <1>5, <1>6

(* A modification that arrives and is answered also leaves its handler's list. *)
LEMMA ModifyKeeps == ASSUME Inv, NEW task \in Tasks, Modify(task) PROVE Inv'
<1>1. /\ todo[task] # <<>> /\ asked[task] = None /\ Finished(task)
      /\ tries' \in [Tasks -> 0..1]
  BY DEF Modify, ModifyArrives, Ready, Idle, Inv, Types
<1>2. Grown(orders, orders') /\ DOMAIN orders' = DOMAIN orders
  BY ModifyMoves DEF Modify
<1> QED
  BY <1>1, <1>2, ChangesOrders DEF Modify, ModifyArrives

(* A sequence with one more element.                                       *)
LEMMA AppendIs ==
  ASSUME NEW S, NEW q \in Seq(S), NEW a \in S
  PROVE  LET r == Append(q, a) IN
         /\ r \in Seq(S) /\ Len(q) \in Nat /\ Len(r) = Len(q) + 1
         /\ DOMAIN q = 1..Len(q) /\ DOMAIN r = 1..(Len(q) + 1)
         /\ \A i \in DOMAIN q : r[i] = q[i]
         /\ r[Len(q) + 1] = a
OBVIOUS

(* The request of a placement appends an order the handler announced: an entry of the bracket
   on disk, or a close against the entry that filled. *)
LEMMA SendPlaceKeeps == ASSUME Inv, NEW task \in Tasks, SendPlace(task) PROVE Inv'
<1> DEFINE a == Head(todo[task])
           o == [ref |-> a.ref, side |-> a.side, price |-> a.price, qty |-> a.qty,
                 state |-> "working"]
           n == Len(orders) + 1
           f == [type |-> "order", id |-> n]
<1>1. /\ todo[task] # <<>> /\ asked[task] = None /\ todo[task] \in Seq(Action)
      /\ a.type = "place" /\ orders \in Seq(Order) /\ frames \in Seq(Frame)
      /\ asked \in [Tasks -> Nat \cup {None}] /\ todo \in [Tasks -> Seq(Action)]
      /\ orders' = Append(orders, o) /\ asked' = [asked EXCEPT ![task] = Len(orders')]
      /\ frames' = Append(frames, [type |-> "order", id |-> Len(orders')])
      /\ UNCHANGED <<e, now, t, todo, tries, deaf, saved, paused, net, mishaps, rows, missed>>
  BY DEF SendPlace, Ready, Next1, Idle, Inv, Types, record
<1>2. a \in Action /\ 1 \in 1..Len(todo[task]) /\ a = todo[task][1]
  BY <1>1, TailFacts
<1> HIDE DEF a
<1>3. o \in Order
  BY <1>1, <1>2 DEF Order, Action
<1>4. /\ o.ref = a.ref /\ o.side = a.side /\ o.qty = a.qty /\ o.state = "working"
  OBVIOUS
<1> HIDE DEF o
<1>5. /\ orders' \in Seq(Order) /\ DOMAIN orders = 1..Len(orders) /\ DOMAIN orders' = 1..n
      /\ Len(orders) \in Nat /\ Len(orders') = n /\ orders'[n] = o
      /\ \A id \in DOMAIN orders : orders'[id] = orders[id]
  BY <1>1, <1>3, AppendIs
<1>6. n \in Nat /\ n \in DOMAIN orders' /\ f \in Frame
  BY <1>5 DEF Frame
<1>7. /\ frames' = Append(frames, f) /\ asked' = [asked EXCEPT ![task] = n]
  BY <1>1, <1>5
<1> HIDE DEF n
<1>8. /\ frames' \in Seq(Frame) /\ DOMAIN frames = 1..Len(frames)
      /\ DOMAIN frames' = 1..(Len(frames) + 1) /\ Len(frames) \in Nat
      /\ frames'[Len(frames) + 1] = f
      /\ \A i \in DOMAIN frames : frames'[i] = frames[i]
  BY <1>1, <1>6, <1>7, AppendIs
<1>9. Grown(orders, orders')
  BY <1>1, <1>5 DEF Grown, n
<1>10. asked' \in [Tasks -> Nat \cup {None}] /\ asked'[task] = n
       /\ \A other \in Tasks \ {task} : asked'[other] = asked[other]
  BY <1>1, <1>6, <1>7
<1>11. Types'
  BY <1>1, <1>5, <1>8, <1>10 DEF Inv, Types
<1>12. Paired(t, orders', asked', todo)
  <2>1. Paired(t, orders', asked, todo)
    BY <1>9, GrownKeeps DEF Inv
  <2>2. Places(a, orders'[n].ref) /\ Head(todo[task]) = a
    BY <1>1, <1>4, <1>5 DEF Places, a
  <2> QED
    BY <1>1, <1>6, <1>10, <2>1, <2>2 DEF Paired
<1>13. FramesTrue(frames', orders')
  <2>1. FramesTrue(frames, orders')
    BY <1>9, GrownKeeps DEF Inv
  <2>2. \A i \in DOMAIN frames' : i \in DOMAIN frames \/ i = Len(frames) + 1
    BY <1>8
  <2>3. f.id = n /\ f.type # "fill"
    OBVIOUS
  <2> HIDE DEF f
  <2> QED
    BY <1>6, <1>8, <2>1, <2>2, <2>3 DEF FramesTrue
<1>14. Brackets(e, orders', todo) /\ Backings(e, orders', saved, t.side)
  <2>1. ASSUME NEW id \in DOMAIN orders' \ DOMAIN orders, orders'[id].ref \in EntryRefs
        PROVE  Bracket(e, orders'[id])
    <3>1. orders'[id] = o
      BY <1>5, <2>1 DEF n
    <3>2. CallSound(e, orders, task, a)
      BY <1>2 DEF Inv, Brackets
    <3>3. Bracket(e, a)
      BY <1>1, <1>4, <2>1, <3>1, <3>2, RefsAre DEF CallSound
    <3> QED
      BY <1>4, <3>1, <3>3 DEF Bracket
  <2> QED
    BY <1>9, <2>1, GrownKeeps DEF Inv
<1>15. ~(now < OrEnd)
  BY <1>1 DEF Inv, Early
<1>16. Early'
  BY <1>1, <1>15 DEF Early
<1>17. RangeSaved(e, saved)
  BY DEF Inv
<1> QED
  BY <1>1, <1>11, <1>12, <1>13, <1>14, <1>16, <1>17 DEF Inv

(* The answer of a placement stores the identifier under the reference that was asked for: the
   broker's table then names the order that its frames will speak of. *)
LEMMA PlaceAnsweredKeeps == ASSUME Inv, NEW task \in Tasks, PlaceAnswered(task) PROVE Inv'
<1> DEFINE a == Head(todo[task])
           n == [id |-> asked[task], ref |-> a.ref]
<1>1. /\ asked[task] # None /\ todo[task] # <<>> /\ todo[task] \in Seq(Action)
      /\ asked[task] \in DOMAIN orders /\ Places(a, orders[asked[task]].ref)
      /\ asked \in [Tasks -> Nat \cup {None}] /\ t \in Broker /\ Finished(task)
      /\ t' = Placed(t, a.ref, asked[task]) /\ asked' = [asked EXCEPT ![task] = None]
      /\ UNCHANGED <<e, now, tries, deaf, orders, net, frames, mishaps, rows, missed>>
  BY DEF PlaceAnswered, Next1, exchange, record, Inv, Types, Paired
<1>2. a.ref \in OrderRefs /\ asked[task] \in Nat /\ orders[asked[task]].ref = a.ref
  BY <1>1, TailFacts DEF Action, Places
<1> HIDE DEF a
<1>3. /\ t'.ids = [t.ids EXCEPT ![a.ref] = asked[task]] /\ t'.names = t.names \cup {n}
      /\ t'.side = t.side /\ t'.qty = t.qty /\ t' \in Broker
  <2> DEFINE i == [t.ids EXCEPT ![a.ref] = asked[task]]
             m == t.names \cup {n}
  <2>1. /\ t.ids \in [OrderRefs -> Nat \cup {None}]
        /\ t.names \in SUBSET [id : Nat, ref : OrderRefs]
        /\ t = [ids |-> t.ids, names |-> t.names, side |-> t.side, qty |-> t.qty]
        /\ t.side \in Sides \cup {None} /\ t.qty \in Nat
    BY <1>1 DEF Broker
  <2>2. i \in [OrderRefs -> Nat \cup {None}]
    BY <1>2, <2>1
  <2>3. n \in [id : Nat, ref : OrderRefs]
    BY <1>2
  <2>4. m \in SUBSET [id : Nat, ref : OrderRefs]
    <3> HIDE DEF n
    <3> QED
      BY <2>1, <2>3
  <2>5. t' = [t EXCEPT !.ids = i, !.names = m]
    BY <1>1, <2>1 DEF Placed
  <2> HIDE DEF i, m, n
  <2>6. t' = [ids |-> i, names |-> m, side |-> t.side, qty |-> t.qty]
    BY <2>1, <2>5
  <2>7. t' \in Broker
    BY <2>1, <2>2, <2>4, <2>6 DEF Broker
  <2> QED
    BY <2>6, <2>7 DEF i, m
<1>4. /\ todo' \in [Tasks -> Seq(Action)] /\ paused' \in BOOLEAN
      /\ saved' \in Day \cup {None} /\ (saved' # None => DaySound(saved'))
      /\ RangeSaved(e, saved') /\ Backings(e, orders, saved', t.side)
      /\ Paired(t, orders, asked', todo') /\ Brackets(e, orders, todo') /\ ~(now < OrEnd)
  BY <1>1, FinishedKeeps
<1>5. asked' \in [Tasks -> Nat \cup {None}]
  BY <1>1
<1>6. Types'
  BY <1>1, <1>3, <1>4, <1>5 DEF Inv, Types
<1>7. Paired(t', orders, asked', todo')
  <2>1. n.id \in DOMAIN orders /\ orders[n.id].ref = n.ref
    BY <1>1, <1>2
  <2>2. \A m \in t'.names : m.id \in DOMAIN orders /\ orders[m.id].ref = m.ref
    BY <1>3, <1>4, <2>1 DEF Paired
  <2>3. ASSUME NEW ref \in OrderRefs, t'.ids[ref] # None
        PROVE  [id |-> t'.ids[ref], ref |-> ref] \in t'.names
    <3>1. t.ids \in [OrderRefs -> Nat \cup {None}]
      BY <1>1 DEF Broker
    <3>2. CASE ref = a.ref
      BY <1>2, <1>3, <3>1, <3>2
    <3>3. CASE ref # a.ref
      <4>1. t'.ids[ref] = t.ids[ref]
        BY <1>2, <1>3, <3>1, <3>3
      <4> QED
        BY <1>3, <1>4, <2>3, <4>1 DEF Paired
    <3> QED
      BY <3>2, <3>3
  <2> QED
    BY <1>4, <2>2, <2>3 DEF Paired
<1>8. Early'
  BY <1>1, <1>4 DEF Early
<1>9. FramesTrue(frames, orders)
  BY DEF Inv
<1> QED
  BY <1>1, <1>3, <1>4, <1>6, <1>7, <1>8, <1>9 DEF Inv

(* A fill at the exchange marks the order filled and queues a frame that tells the truth about
   it; the net position is the only other thing that moves. *)
LEMMA ExchangeFillKeeps == ASSUME Inv, ExchangeFill PROVE Inv'
<1>1. PICK id \in DOMAIN orders :
        /\ orders[id].state = "working"
        /\ orders' = [orders EXCEPT ![id].state = "filled"]
        /\ net' = net + SignedQty(orders[id].side, orders[id].qty)
        /\ frames' = Append(frames, [type |-> "fill", id |-> id, price |-> orders[id].price,
                                     qty |-> orders[id].qty])
        /\ UNCHANGED <<e, now, t, todo, asked, tries, deaf, saved, paused, mishaps, rows,
                       missed>>
  BY DEF ExchangeFill, record
<1> DEFINE o == [orders[id] EXCEPT !.state = "filled"]
           f == [type |-> "fill", id |-> id, price |-> orders[id].price, qty |-> orders[id].qty]
<1>2. orders \in Seq(Order) /\ frames \in Seq(Frame) /\ net \in Int /\ orders[id] \in Order
  BY DEF Inv, Types
<1>3. o \in Order /\ o.ref = orders[id].ref /\ o.side = orders[id].side /\ o.qty = orders[id].qty
      /\ o.state = "filled"
  BY <1>2 DEF Order
<1>4. orders' = [orders EXCEPT ![id] = o] /\ orders[id].state # "filled"
  BY <1>1
<1> HIDE DEF o
<1>5. Grown(orders, orders') /\ DOMAIN orders' = DOMAIN orders /\ orders'[id] = o
  BY <1>2, <1>3, <1>4, ExceptGrows
<1>6. f \in Frame /\ f.type = "fill" /\ f.id = id /\ f.qty = o.qty
  BY <1>2, <1>3 DEF Frame, Order
<1>7. net' \in Int
  BY <1>1, <1>2 DEF SignedQty, Order
<1>8. frames' = Append(frames, f)
  BY <1>1
<1> HIDE DEF f
<1>9. /\ frames' \in Seq(Frame) /\ DOMAIN frames = 1..Len(frames) /\ Len(frames) \in Nat
      /\ DOMAIN frames' = 1..(Len(frames) + 1) /\ frames'[Len(frames) + 1] = f
      /\ \A i \in DOMAIN frames : frames'[i] = frames[i]
  BY <1>2, <1>6, <1>8, AppendIs
<1>10. Types'
  BY <1>1, <1>5, <1>7, <1>9 DEF Inv, Types, Grown
<1>11. /\ Paired(t, orders', asked, todo) /\ FramesTrue(frames, orders')
       /\ Brackets(e, orders', todo) /\ Backings(e, orders', saved, t.side)
  BY <1>5, GrownKeeps DEF Inv
<1>12. FramesTrue(frames', orders')
  <2>1. \A i \in DOMAIN frames' : i \in DOMAIN frames \/ i = Len(frames) + 1
    BY <1>9
  <2>2. \A i \in DOMAIN frames : frames[i].type = "fill" => frames[i].id # id
    BY <1>4 DEF Inv, FramesTrue
  <2>3. \A i \in DOMAIN frames' : frames'[i].id \in DOMAIN orders'
    BY <1>5, <1>6, <1>9, <1>11, <2>1 DEF FramesTrue
  <2>4. ASSUME NEW i \in DOMAIN frames', frames'[i].type = "fill"
        PROVE  /\ orders'[frames'[i].id].state = "filled"
               /\ frames'[i].qty = orders'[frames'[i].id].qty
               /\ \A j \in DOMAIN frames' :
                    frames'[j].type = "fill" /\ frames'[j].id = frames'[i].id => i = j
    <3>1. CASE i \in DOMAIN frames
      BY <1>6, <1>9, <1>11, <2>1, <2>2, <2>4, <3>1 DEF FramesTrue
    <3>2. CASE i = Len(frames) + 1
      BY <1>3, <1>5, <1>6, <1>9, <2>1, <2>2, <3>2
    <3> QED
      BY <2>1, <3>1, <3>2
  <2> QED
    BY <2>3, <2>4 DEF FramesTrue
<1>13. ~(now < OrEnd)
  BY EarlyIsQuiet
<1>14. Early'
  BY <1>1, <1>13 DEF Early
<1>15. RangeSaved(e, saved)
  BY DEF Inv
<1> QED
  BY <1>1, <1>10, <1>11, <1>12, <1>14, <1>15 DEF Inv

-----------------------------------------------------------------------------
(* Errors and restarts.                                                    *)

(* A restart throws the engine, the broker and the handlers away and keeps the orders and the
   disk: the resumed day stands on the same range and the same trade as before. *)
LEMMA RestartKeeps == ASSUME Inv, Restart PROVE Inv'
<1>1. /\ e' = Resumed /\ t' = NewBroker /\ frames' = <<>>
      /\ todo' = [task \in Tasks |-> <<>>] /\ asked' = [task \in Tasks |-> None]
      /\ tries' = [task \in Tasks |-> 0] /\ deaf' = FALSE
      /\ UNCHANGED <<now, saved, paused, orders, net, rows, missed>>
  BY DEF Restart, record
<1>2. mishaps' \subseteq Mishaps /\ Cardinality(mishaps') <= MaxMishaps
  BY MishapCounted DEF Restart, Mishaps, Inv
<1>3. /\ EngineSound(e') /\ e'.sink = <<>> /\ RangeSaved(e', saved)
      /\ e'.orHigh = e.orHigh /\ e'.orLow = e.orLow
      /\ (e'.pos # None => saved # None /\ saved.pos = e'.pos)
      /\ ((saved # None => Unbegun(saved)) => Unbegun(e'))
  BY <1>1, ResumedFacts DEF Inv
<1>4. <<>> \in Seq(Action) /\ <<>> \in Seq(Frame) /\ Len(<<>>) = 0 /\ DOMAIN <<>> = {}
  OBVIOUS
<1>5. t' \in Broker /\ t'.side = None /\ t'.names = {} /\ \A ref \in OrderRefs : t'.ids[ref] = None
  BY <1>1 DEF NewBroker, Broker
<1>6. /\ todo' \in [Tasks -> Seq(Action)] /\ asked' \in [Tasks -> Nat \cup {None}]
      /\ tries' \in [Tasks -> 0..1] /\ \A task \in Tasks : todo'[task] = <<>> /\ asked'[task] = None
  BY <1>1, <1>4
<1>7. Types'
  BY <1>1, <1>2, <1>3, <1>4, <1>5, <1>6 DEF Inv, Types
<1>8. Paired(t', orders, asked', todo') /\ FramesTrue(frames', orders)
  BY <1>1, <1>4, <1>5, <1>6 DEF Paired, FramesTrue
<1>9. Brackets(e', orders, todo')
  <2>1. Brackets(e, orders, todo')
    BY <1>4, <1>6 DEF Inv, Brackets
  <2> QED
    BY <1>3, <2>1, SameRangeBrackets
<1>10. Backings(e', orders, saved, t'.side)
  BY <1>3, <1>5 DEF Inv, Backings
<1>11. Early'
  BY <1>1, <1>3, <1>6 DEF Inv, Early
<1> QED
  BY <1>1, <1>3, <1>7, <1>8, <1>9, <1>10, <1>11 DEF Inv

(* A task that is aborted drops the rest of its list; when it was the main loop the day is
   resumed from disk, and when it was the reader no frame is read again. *)
LEMMA AbortedKeeps ==
  ASSUME Inv, NEW task \in Tasks, todo[task] # <<>>, Aborted(task), UNCHANGED <<orders, frames>>,
         net' \in Int, mishaps' \subseteq Mishaps, Cardinality(mishaps') <= MaxMishaps,
         rows' \in 0..MaxRows, missed' = missed
  PROVE  Inv'
<1>1. /\ todo' = [todo EXCEPT ![task] = <<>>] /\ asked' = [asked EXCEPT ![task] = None]
      /\ e' = (IF task = "loop" THEN Resumed ELSE e) /\ deaf' = (deaf \/ task = "reader")
      /\ UNCHANGED <<now, t, tries, saved, paused, orders, frames>>
  BY DEF Aborted
<1>3. /\ EngineSound(e') /\ e'.sink = <<>> /\ RangeSaved(e', saved)
      /\ e'.orHigh = e.orHigh /\ e'.orLow = e.orLow
      /\ Backings(e', orders, saved, t.side)
  <2>1. CASE e' = e
    BY <2>1 DEF Inv, Types
  <2>2. CASE e' = Resumed
    BY <2>2, ResumedFacts DEF Inv, Backings
  <2> QED
    BY <1>1, <2>1, <2>2
<1>4. todo \in [Tasks -> Seq(Action)] /\ asked \in [Tasks -> Nat \cup {None}]
  BY DEF Inv, Types
<1>5. /\ todo' \in [Tasks -> Seq(Action)] /\ Paired(t, orders, asked', todo')
      /\ Brackets(e, orders, todo')
  BY <1>1, <1>4, ShorterKeeps DEF Inv
<1>6. asked' \in [Tasks -> Nat \cup {None}] /\ deaf' \in BOOLEAN
  BY <1>1, <1>4 DEF Inv, Types
<1>7. Types'
  BY <1>1, <1>3, <1>5, <1>6 DEF Inv, Types
<1>8. Brackets(e', orders, todo')
  BY <1>3, <1>5, SameRangeBrackets
<1>9. ~(now < OrEnd)
  BY EarlyIsQuiet DEF Idle
<1>10. Early'
  BY <1>1, <1>9 DEF Early
<1>11. FramesTrue(frames, orders)
  BY DEF Inv
<1> QED
  BY <1>1, <1>3, <1>5, <1>7, <1>8, <1>10, <1>11 DEF Inv

(* A change of an order that keeps what has to be kept, by itself.         *)
LEMMA GrowthKeeps ==
  ASSUME Inv, NEW os, Grown(orders, os), DOMAIN os = DOMAIN orders
  PROVE  /\ os \in Seq(Order) /\ Paired(t, os, asked, todo) /\ FramesTrue(frames, os)
         /\ Brackets(e, os, todo) /\ Backings(e, os, saved, t.side)
<1>1. os \in Seq(Order)
  BY DEF Grown
<1> QED
  BY <1>1, GrownKeeps DEF Inv

(* A call that raises has never arrived, or it has and its answer is lost; the rest of its
   handler's list is dropped and one mishap is counted. *)
LEMMA CallRaisesKeeps == ASSUME Inv, NEW task \in Tasks, CallRaises(task) PROVE Inv'
<1>1. todo[task] # <<>> /\ missed' = missed /\ rows' \in 0..MaxRows
  BY DEF CallRaises, MayRaise, Ready, Idle, Inv, Types, Paired, record
<1>2. mishaps' \subseteq Mishaps /\ Cardinality(mishaps') <= MaxMishaps
  BY MishapCounted DEF CallRaises, Mishaps, Inv
<1>3. CASE UNCHANGED <<orders, frames>>
  <2>1. net' \in Int
    BY CloseMoves DEF CallRaises, ModifyArrives, exchange, Inv, Types
  <2> QED
    BY <1>1, <1>2, <1>3, <2>1, AbortedKeeps DEF CallRaises
<1>4. CASE ModifyArrives(task)
  <2>1. Grown(orders, orders') /\ DOMAIN orders' = DOMAIN orders
    BY <1>4, ModifyMoves
  <2>2. /\ orders' \in Seq(Order) /\ Paired(t, orders', asked, todo) /\ FramesTrue(frames, orders')
        /\ Brackets(e, orders', todo) /\ Backings(e, orders', saved, t.side)
    BY <2>1, GrowthKeeps
  <2>3. /\ todo' = [todo EXCEPT ![task] = <<>>] /\ asked' = [asked EXCEPT ![task] = None]
        /\ e' = (IF task = "loop" THEN Resumed ELSE e) /\ deaf' = (deaf \/ task = "reader")
        /\ UNCHANGED <<now, t, tries, saved, paused, frames, net>>
    BY <1>4 DEF CallRaises, Aborted, ModifyArrives
  <2>4. /\ EngineSound(e') /\ e'.sink = <<>> /\ RangeSaved(e', saved)
        /\ e'.orHigh = e.orHigh /\ e'.orLow = e.orLow
        /\ Backings(e', orders', saved, t.side)
    <3>1. CASE e' = e
      BY <2>2, <3>1 DEF Inv, Types
    <3>2. CASE e' = Resumed
      BY <2>2, <3>2, ResumedFacts DEF Inv, Backings
    <3> QED
      BY <2>3, <3>1, <3>2
  <2>5. todo \in [Tasks -> Seq(Action)] /\ asked \in [Tasks -> Nat \cup {None}]
    BY DEF Inv, Types
  <2>6. /\ todo' \in [Tasks -> Seq(Action)] /\ Paired(t, orders', asked', todo')
        /\ Brackets(e, orders', todo')
    BY <2>2, <2>3, <2>5, ShorterKeeps
  <2>7. asked' \in [Tasks -> Nat \cup {None}] /\ deaf' \in BOOLEAN
    BY <2>3, <2>5 DEF Inv, Types
  <2>8. Types'
    BY <1>1, <1>2, <2>2, <2>3, <2>4, <2>6, <2>7 DEF Inv, Types
  <2>9. Brackets(e', orders', todo')
    BY <2>4, <2>6, SameRangeBrackets
  <2>10. ~(now < OrEnd)
    BY <1>1, EarlyIsQuiet DEF Idle
  <2>11. Early'
    BY <2>3, <2>10 DEF Early
  <2> QED
    BY <2>2, <2>3, <2>4, <2>6, <2>8, <2>9, <2>11 DEF Inv
<1> QED
  BY <1>3, <1>4 DEF CallRaises, CloseArrives, exchange

(* A row that fails drops what follows it in its task's list.              *)
LEMMA RowFailsKeeps == ASSUME Inv, NEW task \in Tasks, RowFails(task) PROVE Inv'
<1>1. todo[task] # <<>> /\ missed' = missed
  BY DEF RowFails, Ready, Idle
<1>2. rows' \in 0..MaxRows
  BY LiveAssumption DEF RowFails, Inv, Types
<1>3. /\ UNCHANGED <<orders, frames>> /\ net' \in Int
      /\ mishaps' \subseteq Mishaps /\ Cardinality(mishaps') <= MaxMishaps
  BY DEF RowFails, exchange, Inv, Types
<1> QED
  BY <1>1, <1>2, <1>3, AbortedKeeps DEF RowFails

-----------------------------------------------------------------------------
(* The handlers.                                                           *)

(* What entries have brought in.                                           *)
Entered == {orders[id].qty : id \in FilledEntries(orders)}

(* What a handler makes of the engine, and of its calls, is sound.         *)
Answers(task, y) ==
  /\ EngineSound(y)
  /\ \A i \in 1..Len(y.sink) : CallSound(y, orders, task, y.sink[i])
  /\ y.pos # None => Backed(orders, y.pos.qty)

(* What a handler finds when it begins: the engine as it is, with nothing delivered yet,
   manages and balances trivially. *)
LEMMA HandlerMayBegin == ASSUME Inv PROVE Manages(Entered, e, e) /\ Balanced(e, e)
<1>1. EngineSound(e) /\ e.sink = <<>> /\ orders \in Seq(Order)
  BY DEF Inv, Types
<1>2. \A id \in DOMAIN orders : orders[id].qty \in Nat
  <2>1. \A id \in DOMAIN orders : orders[id] \in Order
    BY <1>1
  <2> QED
    BY <2>1 DEF Order
<1>3. Entered \in SUBSET Nat
  BY <1>2 DEF Entered, FilledEntries
<1>4. e.pos # None => \E b \in Entered : e.pos.qty <= b
  BY DEF Inv, Backings, Backed, Entered
<1> QED
  BY <1>1, <1>3, <1>4, HandlerBegins

(* A handler that manages the engine answers for it; only the loop's ever  *)
(* places an entry.                                                        *)
LEMMA ManagedAnswers ==
  ASSUME NEW y, Manages(Entered, e, y), NEW task \in Tasks, task = "loop" \/ SameRange(e, y)
  PROVE  Answers(task, y)
<1>1. EngineSound(y) /\ EngineSound(e) /\ DaySound(y) /\ DaySound(e) /\ Continues(e, y)
  BY DEF Manages, EngineSound
<1>2. ASSUME NEW i \in 1..Len(y.sink) PROVE CallSound(y, orders, task, y.sink[i])
  <2> DEFINE a == y.sink[i]
  <2>1. Allowed(Entered, e, y, a)
    BY DEF Manages
  <2> HIDE DEF a
  <2>2. a.type = "place" => a.ref \in EntryRefs /\ task = "loop" /\ Bracket(y, a)
    BY <1>1, <2>1 DEF Allowed, DaySound, Bracket, SameRange
  <2>3. a.type = "close" => Backed(orders, a.qty)
    BY <2>1 DEF Allowed, Entered, Backed
  <2> QED
    BY <2>2, <2>3 DEF CallSound, a
<1>3. y.pos # None => Backed(orders, y.pos.qty)
  <2> HAVE y.pos # None
  <2>1. e.pos # None /\ y.pos.qty = e.pos.qty
    BY <1>1 DEF Continues, Kept
  <2>2. \E b \in Entered : e.pos.qty <= b
    BY <2>1 DEF Manages
  <2> QED
    BY <2>1, <2>2 DEF Entered, Backed
<1> QED
  BY <1>1, <1>2, <1>3 DEF Answers

(* What a handler leaves when it is done.                                  *)
LEMMA HandledKeeps ==
  ASSUME Inv, NEW task \in Tasks, todo[task] = <<>>, NEW y, Answers(task, y),
         Handled(task, y), UNCHANGED <<asked, orders>>,
         \/ y.orHigh = e.orHigh /\ y.orLow = e.orLow
         \/ /\ task = "loop" /\ y.sink = <<>> /\ orders = <<>>
            /\ \A other \in Tasks : todo[other] = <<>>
  PROVE  /\ EngineSound(e') /\ e'.sink = <<>> /\ e'.pos = y.pos /\ e'.orFinal = y.orFinal
         /\ todo' = [todo EXCEPT ![task] = y.sink] /\ todo' \in [Tasks -> Seq(Action)]
         /\ missed' \subseteq EntryRefs
         /\ saved' \in Day \cup {None} /\ (saved' # None => DaySound(saved'))
         /\ saved' = saved \/ (saved' # None /\ saved'.pos = y.pos /\ saved'.orFinal = y.orFinal)
         /\ RangeSaved(e', saved') /\ Backings(e', orders, saved', t.side)
         /\ Paired(t, orders, asked, todo') /\ Brackets(e', orders, todo')
<1>1. /\ EngineSound(y) /\ y \in Engine /\ y.sink \in Seq(Action)
      /\ todo \in [Tasks -> Seq(Action)] /\ asked \in [Tasks -> Nat \cup {None}]
  BY DEF Answers, EngineSound, Engine, Inv, Types
<1>2. /\ e' = [y EXCEPT !.sink = <<>>] /\ todo' = [todo EXCEPT ![task] = y.sink]
      /\ saved' = IF task = "loop" /\ y.sink = <<>> THEN Eng!DayOf(y) ELSE saved
  BY DEF Handled, SaveWhenDone
<1>3. /\ e' \in Engine /\ e'.sink = <<>> /\ SameRange(y, e') /\ e'.pos = y.pos
      /\ e'.canceled = y.canceled
  <2>1. <<>> \in Seq(Action)
    OBVIOUS
  <2> QED
    BY <1>1, <1>2, <2>1 DEF Engine, SameRange
<1>4. EngineSound(e')
  BY <1>1, <1>3, SameRangeSound DEF EngineSound, DaySound, SameRange
<1>5. /\ todo' \in [Tasks -> Seq(Action)] /\ todo'[task] = y.sink
      /\ \A other \in Tasks \ {task} : todo'[other] = todo[other]
  BY <1>1, <1>2
<1>12. missed' \subseteq EntryRefs
  BY RefsAre DEF Handled, BeingPlaced, Inv, Types
<1>6. saved' = saved \/ saved' = Eng!DayOf(y)
  BY <1>2
<1>7. /\ Eng!DayOf(y) \in Day /\ Eng!DayOf(y) # None /\ DaySound(Eng!DayOf(y))
      /\ RangeSaved(y, Eng!DayOf(y)) /\ Eng!DayOf(y).pos = y.pos
      /\ Eng!DayOf(y).orFinal = y.orFinal
  BY <1>1, DayOfFacts
<1>8. RangeSaved(e', saved')
  <2>1. CASE saved' = Eng!DayOf(y)
    BY <1>3, <1>7, <2>1 DEF RangeSaved, SameRange
  <2>2. CASE y.orHigh = e.orHigh /\ y.orLow = e.orLow /\ saved' = saved
    BY <1>3, <2>2 DEF Inv, RangeSaved, SameRange
  <2> QED
    BY <1>2, <2>1, <2>2
<1>9. Backings(e', orders, saved', t.side)
  <2>1. e'.pos # None => Backed(orders, e'.pos.qty)
    BY <1>3 DEF Answers
  <2>2. saved' # None => (saved'.pos # None => Backed(orders, saved'.pos.qty))
    <3>1. CASE saved' = saved
      BY <3>1 DEF Inv, Backings
    <3>2. CASE saved' = Eng!DayOf(y)
      BY <1>7, <3>2 DEF Answers
    <3> QED
      BY <1>6, <3>1, <3>2
  <2> QED
    BY <2>1, <2>2 DEF Inv, Backings
<1>10. Paired(t, orders, asked, todo')
  BY <1>5 DEF Inv, Paired
<1>11. Brackets(e', orders, todo')
  <2>1. ASSUME NEW other \in Tasks, NEW i \in 1..Len(todo'[other])
        PROVE  CallSound(y, orders, other, todo'[other][i])
    <3>1. CASE other = task
      BY <1>5, <3>1 DEF Answers
    <3>2. CASE other # task
      <4>1. todo'[other] = todo[other]
        BY <1>5, <3>2
      <4>2. y.orHigh = e.orHigh /\ y.orLow = e.orLow
        <5>1. ~(\A o \in Tasks : todo[o] = <<>>)
          BY <2>1, <4>1
        <5> QED
          BY <5>1
      <4>3. Brackets(y, orders, todo)
        BY <4>2, SameRangeBrackets DEF Inv
      <4> QED
        BY <4>1, <4>3 DEF Brackets
    <3> QED
      BY <3>1, <3>2
  <2>2. ASSUME NEW id \in DOMAIN orders, orders[id].ref \in EntryRefs
        PROVE  Bracket(y, orders[id])
    <3>1. orders # <<>>
      OBVIOUS
    <3>2. Brackets(y, orders, todo)
      BY <3>1, SameRangeBrackets DEF Inv
    <3> QED
      BY <2>2, <3>2 DEF Brackets
  <2>3. Brackets(y, orders, todo')
    BY <2>1, <2>2 DEF Brackets
  <2> QED
    BY <1>3, <2>3, SameRangeBrackets DEF SameRange
<1> QED
  BY <1>2, <1>3, <1>4, <1>5, <1>6, <1>7, <1>8, <1>9, <1>10, <1>11, <1>12
     DEF Inv, Types, SameRange

(* The loop's handlers at a time m.                                        *)
LEMMA LoopTurnKeeps ==
  ASSUME Inv, todo["loop"] = <<>>, NEW m \in Times, NEW y, Answers("loop", y),
         Handled("loop", y), now' = m,
         UNCHANGED <<t, asked, tries, deaf, paused, orders, net, frames, mishaps, rows>>,
         m < OrEnd => y.sink = <<>> /\ y.pos = None /\ ~y.orFinal,
         ~(m < OrEnd) => y.orHigh = e.orHigh /\ y.orLow = e.orLow
  PROVE  Inv'
<1>1. m \in Int /\ now \in Int /\ now <= m /\ m \in 0..EndTime
  BY SessionAssumption, LiveAssumption DEF Times, Inv, Types
<1>2. m < OrEnd => orders = <<>> /\ \A task \in Tasks : todo[task] = <<>>
  BY <1>1, SessionAssumption DEF Inv, Early
<1>3. "loop" \in Tasks
  BY DEF Tasks
<1>4. /\ EngineSound(e') /\ e'.sink = <<>> /\ e'.pos = y.pos /\ e'.orFinal = y.orFinal
      /\ todo' = [todo EXCEPT !["loop"] = y.sink] /\ todo' \in [Tasks -> Seq(Action)]
      /\ missed' \subseteq EntryRefs
      /\ saved' \in Day \cup {None} /\ (saved' # None => DaySound(saved'))
      /\ saved' = saved \/ (saved' # None /\ saved'.pos = y.pos /\ saved'.orFinal = y.orFinal)
      /\ RangeSaved(e', saved') /\ Backings(e', orders, saved', t.side)
      /\ Paired(t, orders, asked, todo') /\ Brackets(e', orders, todo')
  BY <1>2, <1>3, HandledKeeps
<1>5. Types'
  BY <1>1, <1>4 DEF Inv, Types
<1>6. Early'
  <2> SUFFICES ASSUME m < OrEnd
               PROVE  /\ orders = <<>> /\ \A task \in Tasks : todo'[task] = <<>>
                      /\ Unbegun(e') /\ (saved' # None => Unbegun(saved'))
    BY DEF Early
  <2>1. now < OrEnd
    BY <1>1, SessionAssumption
  <2>2. saved # None => Unbegun(saved)
    BY <2>1 DEF Inv, Early
  <2> QED
    BY <1>2, <1>3, <1>4, <2>2 DEF Unbegun, Inv, Types
<1>7. FramesTrue(frames, orders)
  BY DEF Inv
<1> QED
  BY <1>4, <1>5, <1>6, <1>7 DEF Inv

(* A bar of the feed: whatever branch on_bar takes, its calls manage the trade of the day, so
   the list it leaves to its task keeps every order backed. *)
LEMMA BarKeeps == ASSUME Inv, Bar PROVE Inv'
<1>1. PICK m \in Times, candle \in Candles :
        \E shape \in IF m < OrEnd THEN RangeShapes ELSE BarShapes :
          LET bar == [time |-> m, high |-> shape.high, low |-> shape.low,
                      close |-> shape.close]
          IN  Handled("loop", Eng!OnBar(e, bar, candle)) /\ now' = m
  BY DEF Bar
<1>2. PICK bar :
        /\ \E shape \in RangeShapes \cup BarShapes :
             bar = [time |-> m, high |-> shape.high, low |-> shape.low, close |-> shape.close]
        /\ Handled("loop", Eng!OnBar(e, bar, candle)) /\ now' = m
  BY <1>1
<1>3. PICK y : y = Eng!OnBar(e, bar, candle)
  OBVIOUS
<1>4. bar.time = m /\ bar.close \in Int /\ bar.high \in Int /\ bar.low \in Int
  BY <1>2, LiveAssumption
<1>5. m \in Int /\ now \in Int /\ now <= m
  BY SessionAssumption, LiveAssumption DEF Times, Inv, Types
<1>6. Known(candle)
  BY LiveAssumption DEF Known
<1>7. Answers("loop", y) /\ (m < OrEnd => y.sink = <<>> /\ y.pos = None /\ ~y.orFinal)
      /\ (~(m < OrEnd) => y.orHigh = e.orHigh /\ y.orLow = e.orLow)
  <2>1. CASE m < OrEnd
    <3>1. EngineSound(e) /\ e.sink = <<>> /\ e.pos = None /\ ~e.orFinal
      BY <1>5, <2>1, SessionAssumption, EarlyIsQuiet DEF Inv, Types
    <3>2. EngineSound(y) /\ y.sink = <<>> /\ y.pos = None /\ ~y.orFinal
      BY <1>3, <1>4, <1>5, <2>1, <3>1, EarlyBar
    <3>3. Answers("loop", y)
      BY <3>2 DEF Answers
    <3> QED
      BY <2>1, <3>2, <3>3
  <2>2. CASE ~(m < OrEnd)
    <3>1. m >= OrEnd
      BY <1>5, <2>2, SessionAssumption
    <3>2. Manages(Entered, e, y) /\ y.orHigh = e.orHigh /\ y.orLow = e.orLow
      <4>1. Manages(Entered, e, e) /\ Balanced(e, e) /\ e.sink = <<>>
        BY HandlerMayBegin DEF Inv, Types
      <4> QED
        BY <1>3, <1>4, <1>5, <1>6, <3>1, <4>1, OnBarManages
    <3>3. Answers("loop", y)
      BY <3>2, ManagedAnswers DEF Tasks
    <3> QED
      BY <2>2, <3>2, <3>3
  <2> QED
    BY <2>1, <2>2
<1>8. /\ todo["loop"] = <<>>
      /\ UNCHANGED <<t, asked, tries, deaf, paused, orders, net, frames, mishaps, rows>>
  BY DEF Bar, Idle, exchange
<1> QED
  BY <1>2, <1>3, <1>7, <1>8, LoopTurnKeeps

(* A turn of the clock: the timers the scheduler owes are run in order, each with calls that
   manage the trade of the day. *)
LEMMA WallClockKeeps == ASSUME Inv, WallClock PROVE Inv'
<1>1. PICK m \in Times : Handled("loop", Eng!OnWallClock(e, m)) /\ now' = m
  BY DEF WallClock
<1>2. PICK y : y = Eng!OnWallClock(e, m)
  OBVIOUS
<1>3. m \in Int /\ now \in Int /\ now <= m
  BY SessionAssumption, LiveAssumption DEF Times, Inv, Types
<1>4. Manages(Entered, e, e) /\ EngineSound(e) /\ e.sink = <<>>
  BY HandlerMayBegin DEF Inv, Types
<1>5. Leads(Entered, e, e, y)
  BY <1>2, <1>4, CheckTimeBasedActionsLeads DEF Eng!OnWallClock
<1>6. Answers("loop", y)
  BY <1>5, ManagedAnswers DEF Leads, Tasks
<1>7. m < OrEnd => y.sink = <<>> /\ y.pos = None /\ ~y.orFinal
  <2> HAVE m < OrEnd
  <2>1. e.pos = None /\ ~e.orFinal
    BY <1>3, SessionAssumption, EarlyIsQuiet
  <2>2. y = e
    BY <1>2, <1>3, <1>4, <2>1, EarlyTimer
  <2> QED
    BY <1>4, <2>1, <2>2
<1>8. y.orHigh = e.orHigh /\ y.orLow = e.orLow
  BY <1>5 DEF Leads, SameRange
<1>9. /\ todo["loop"] = <<>>
      /\ UNCHANGED <<t, asked, tries, deaf, paused, orders, net, frames, mishaps, rows>>
  BY DEF WallClock, Idle, exchange
<1> QED
  BY <1>1, <1>2, <1>6, <1>7, <1>8, <1>9, LoopTurnKeeps

(* The operator's /flatten: it only pauses without a position, and otherwise the calls of
   manual_flatten manage the trade that is open. *)
LEMMA FlattenKeeps == ASSUME Inv, Flatten PROVE Inv'
<1>1. mishaps' \subseteq Mishaps /\ Cardinality(mishaps') <= MaxMishaps
  BY MishapCounted DEF Flatten, Mishaps, Inv
<1>2. /\ UNCHANGED <<now, t, asked, tries, deaf, orders, net, frames, rows>>
      /\ todo["operator"] = <<>>
  BY DEF Flatten, exchange, Idle
<1>3. CASE e.pos = None
  <2>1. paused' = TRUE /\ UNCHANGED <<e, todo, saved, missed>>
    BY <1>3 DEF Flatten
  <2>2. Types'
    BY <1>1, <1>2, <2>1 DEF Inv, Types
  <2> QED
    BY <1>2, <2>1, <2>2 DEF Inv, Early
<1>4. CASE e.pos # None
  <2>1. PICK y : y = Eng!ManualFlatten(e)
    OBVIOUS
  <2>2. Handled("operator", y) /\ paused' = paused
    BY <1>4, <2>1 DEF Flatten
  <2>3. Leads(Entered, e, e, y)
    BY <2>1, HandlerMayBegin, ManualFlattenLeads
  <2>4. Answers("operator", y) /\ y.orHigh = e.orHigh /\ y.orLow = e.orLow
    BY <2>3, ManagedAnswers DEF Leads, Tasks, SameRange
  <2>5. /\ EngineSound(e') /\ e'.sink = <<>>
        /\ todo' = [todo EXCEPT !["operator"] = y.sink] /\ todo' \in [Tasks -> Seq(Action)]
        /\ missed' \subseteq EntryRefs
        /\ saved' \in Day \cup {None} /\ (saved' # None => DaySound(saved'))
        /\ RangeSaved(e', saved') /\ Backings(e', orders, saved', t.side)
        /\ Paired(t, orders, asked, todo') /\ Brackets(e', orders, todo')
    BY <1>2, <2>2, <2>4, HandledKeeps DEF Tasks
  <2>6. Types'
    BY <1>1, <1>2, <2>2, <2>5 DEF Inv, Types
  <2>7. ~(now < OrEnd)
    BY <1>4, EarlyIsQuiet
  <2>8. Early'
    BY <1>2, <2>7 DEF Early
  <2>9. FramesTrue(frames, orders)
    BY DEF Inv
  <2> QED
    BY <1>2, <2>5, <2>6, <2>8, <2>9 DEF Inv
<1> QED
  BY <1>3, <1>4

(* The four branches of on_fill.                                           *)
LEMMA OnFillIs ==
  ASSUME NEW x, NEW fill, fill.ref \in OrderRefs
  PROVE  /\ fill.ref \in EntryRefs /\ x.pos # None =>
              Eng!OnFill(x, fill) = Eng!CleanUpRacingEntry(x, fill)
         /\ fill.ref \in EntryRefs /\ x.pos = None =>
              Eng!OnFill(x, fill) = Eng!HandleEntryFill(x, fill)
         /\ fill.ref = "stop_loss" /\ x.pos # None =>
              Eng!OnFill(x, fill) = Eng!HandleStopFill(x, fill)
         /\ fill.ref = "stop_loss" /\ x.pos = None =>
              Eng!OnFill(x, fill) = Eng!Emit(x, Eng!Alert)
         /\ fill.ref \in EntryRefs \/ fill.ref = "stop_loss"
<1>1. fill.ref \in EntryRefs \/ fill.ref = "stop_loss"
  BY DEF OrderRefs, EntryRefs
<1>2. ~("stop_loss" \in EntryRefs)
  BY RefsAre
<1>3. fill.ref \in EntryRefs /\ x.pos # None =>
        Eng!OnFill(x, fill) = Eng!CleanUpRacingEntry(x, fill)
  BY <1>2, RefsAre DEF Eng!OnFill
<1>4. fill.ref \in EntryRefs /\ x.pos = None =>
        Eng!OnFill(x, fill) = Eng!HandleEntryFill(x, fill)
  BY <1>2, RefsAre DEF Eng!OnFill
<1>5. fill.ref = "stop_loss" /\ x.pos # None =>
        Eng!OnFill(x, fill) = Eng!HandleStopFill(x, fill)
  BY <1>2, RefsAre DEF Eng!OnFill
<1>6. fill.ref = "stop_loss" /\ x.pos = None =>
        Eng!OnFill(x, fill) = Eng!Emit(x, Eng!Alert)
  BY <1>2, RefsAre DEF Eng!OnFill
<1> QED
  BY <1>1, <1>3, <1>4, <1>5, <1>6

(* A fill of an order that did fill.                                       *)
LEMMA FillAnswers ==
  ASSUME Inv, NEW id \in DOMAIN orders, orders[id].state = "filled",
         NEW fill, fill.ref = orders[id].ref, fill.qty = orders[id].qty, fill.price \in Int,
         NEW y, y = Eng!OnFill(e, fill)
  PROVE  Answers("reader", y) /\ SameRange(e, y)
<1>1. /\ EngineSound(e) /\ e \in Engine /\ e.sink = <<>> /\ orders \in Seq(Order)
      /\ Manages(Entered, e, e)
  BY HandlerMayBegin DEF Inv, Types, EngineSound
<1>2. orders[id] \in Order
  BY <1>1
<1>3. fill.ref \in OrderRefs /\ fill.qty \in Nat
  BY <1>2 DEF Order
<1>4. "reader" \in Tasks
  BY DEF Tasks
<1>5. CASE fill.ref \in EntryRefs /\ e.pos # None
  <2>1. fill.qty \in Entered
    BY <1>5 DEF Entered, FilledEntries
  <2>2. y = Eng!CleanUpRacingEntry(e, fill)
    BY <1>3, <1>5, OnFillIs
  <2>3. Manages(Entered, e, y) /\ SameRange(e, y)
    BY <1>1, <1>3, <1>5, <2>1, <2>2, CleanUpRacingEntryManages
  <2> QED
    BY <1>4, <2>3, ManagedAnswers
<1>6. CASE fill.ref \in EntryRefs /\ e.pos = None
  <2>1. Bracket(e, orders[id])
    BY <1>6 DEF Inv, Brackets
  <2>2. y = Eng!HandleEntryFill(e, fill)
    BY <1>3, <1>6, OnFillIs
  <2>3. /\ EngineSound(y) /\ SameRange(e, y) /\ y.pos # None /\ y.pos.qty = e.entryQty
        /\ \E c, s \in Action :
             /\ Len(y.sink) = 2 /\ y.sink[1] = c /\ y.sink[2] = s
             /\ c.type = "cancel" /\ Places(s, "stop_loss")
    BY <1>1, <1>6, <2>1, <2>2, HandleEntryFillIs DEF Bracket
  <2>4. e.entryQty <= orders[id].qty
    <3>1. e.entryQty = orders[id].qty \/ e.entryQty = 0
      BY <1>1, <2>1 DEF Bracket, EngineSound, DaySound
    <3>2. orders[id].qty \in Nat
      BY <1>2 DEF Order
    <3> QED
      BY <3>1, <3>2
  <2>5. Backed(orders, y.pos.qty)
    BY <1>6, <2>3, <2>4 DEF Backed, FilledEntries
  <2>6. ASSUME NEW i \in 1..Len(y.sink) PROVE CallSound(y, orders, "reader", y.sink[i])
    <3>1. i = 1 \/ i = 2
      BY <2>3
    <3> QED
      BY <2>3, <3>1 DEF CallSound, Places
  <2> QED
    BY <2>3, <2>5, <2>6 DEF Answers
<1>7. CASE fill.ref = "stop_loss" /\ e.pos # None
  <2>1. y = Eng!HandleStopFill(e, fill)
    BY <1>3, <1>7, OnFillIs
  <2>3. Entered \in SUBSET Nat
    BY <1>1 DEF Manages
  <2>2. PICK u, w : /\ EngineSound(u) /\ u.sink = <<>> /\ u.pos = None
                    /\ SameRange(e, u) /\ u.canceled = e.canceled /\ u.halted = e.halted
                    /\ \A B \in SUBSET Nat : Leads(B, u, u, w)
                    /\ w.pos = None /\ w.canceled = e.canceled /\ w.halted = e.halted
                    /\ Eng!HandleStopFill(e, fill) = Eng!CheckDailyLossLimit(w)
    BY <1>1, <1>3, <1>7, HandleStopFillIs
  <2>4. Leads(Entered, u, u, w) /\ Manages(Entered, u, w)
    BY <2>2, <2>3 DEF Leads
  <2>5. Leads(Entered, u, u, y) /\ y.pos = None
    BY <2>1, <2>2, <2>4, CheckDailyLossLimitLeads, LeadsTransitive
  <2>6. ASSUME NEW i \in 1..Len(y.sink) PROVE CallSound(y, orders, "reader", y.sink[i])
    <3>1. Allowed(Entered, u, y, y.sink[i]) /\ SameRange(u, y)
      BY <2>5 DEF Leads, Manages
    <3>2. y.sink[i].type # "place" /\ y.sink[i].type # "close"
      BY <2>2, <3>1 DEF Allowed, SameRange, EngineSound, DaySound
    <3> QED
      BY <3>2 DEF CallSound
  <2> QED
    BY <2>2, <2>5, <2>6 DEF Answers, Leads, Manages, SameRange
<1>8. CASE fill.ref = "stop_loss" /\ e.pos = None
  <2>1. y = e
    BY <1>1, <1>3, <1>8, OnFillIs, EmitTold
  <2> QED
    BY <1>1, <1>4, <2>1, ManagedAnswers DEF SameRange
<1> QED
  BY <1>3, <1>5, <1>6, <1>7, <1>8, OnFillIs

(* A sequence without its first element.                                   *)
LEMMA TailIs ==
  ASSUME NEW S, NEW q \in Seq(S), q # <<>>
  PROVE  /\ Tail(q) \in Seq(S) /\ Len(q) \in Nat \ {0} /\ Head(q) = q[1] /\ q[1] \in S
         /\ DOMAIN q = 1..Len(q) /\ DOMAIN Tail(q) = 1..(Len(q) - 1)
         /\ \A i \in DOMAIN Tail(q) : i + 1 \in DOMAIN q /\ Tail(q)[i] = q[i + 1]
         /\ 1 \in DOMAIN q
OBVIOUS

(* Frames leave in order.                                                  *)
LEMMA TailTrue ==
  ASSUME NEW fs \in Seq(Frame), fs # <<>>, NEW os, FramesTrue(fs, os)
  PROVE  Tail(fs) \in Seq(Frame) /\ FramesTrue(Tail(fs), os)
<1>1. /\ Tail(fs) \in Seq(Frame) /\ DOMAIN fs = 1..Len(fs) /\ Len(fs) \in Nat \ {0}
      /\ DOMAIN Tail(fs) = 1..(Len(fs) - 1)
      /\ \A i \in DOMAIN Tail(fs) : i + 1 \in DOMAIN fs /\ Tail(fs)[i] = fs[i + 1]
  BY TailIs
<1> DEFINE r == Tail(fs)
<1> HIDE DEF r
<1>2. \A i \in DOMAIN r : r[i].id \in DOMAIN os
  BY <1>1 DEF FramesTrue, r
<1>3. ASSUME NEW i \in DOMAIN r, r[i].type = "fill"
      PROVE  /\ os[r[i].id].state = "filled" /\ r[i].qty = os[r[i].id].qty
             /\ \A j \in DOMAIN r : r[j].type = "fill" /\ r[j].id = r[i].id => i = j
  <2>1. i + 1 \in DOMAIN fs /\ r[i] = fs[i + 1]
    BY <1>1 DEF r
  <2>2. os[r[i].id].state = "filled" /\ r[i].qty = os[r[i].id].qty
    BY <1>3, <2>1 DEF FramesTrue
  <2>3. ASSUME NEW j \in DOMAIN r, r[j].type = "fill", r[j].id = r[i].id PROVE i = j
    <3>1. j + 1 \in DOMAIN fs /\ r[j] = fs[j + 1]
      BY <1>1 DEF r
    <3>2. i + 1 = j + 1
      BY <1>3, <2>1, <2>3, <3>1 DEF FramesTrue
    <3>3. i \in Int /\ j \in Int
      BY <1>1 DEF r
    <3> QED
      BY <3>2, <3>3
  <2> QED
    BY <2>2, <2>3
<1>4. FramesTrue(r, os)
  BY <1>2, <1>3 DEF FramesTrue
<1> QED
  BY <1>1, <1>4 DEF r

(* What a fill does to the broker's tracking.                              *)
LEMMA TrackFillIs ==
  ASSUME NEW b \in Broker, NEW ref \in OrderRefs, NEW qty \in Nat
  PROVE  LET c == TrackFill(b, ref, qty) IN
         /\ c \in Broker /\ c.ids = b.ids /\ c.names = b.names
         /\ ref = "stop_loss" => c.side = b.side \/ c.side = None
         /\ ref # "stop_loss" => c.side = EntrySide(ref) /\ c.qty = qty
<1>1. Greater(0, b.qty - qty) \in Nat
  BY DEF Broker, Greater
<1> DEFINE left == Greater(0, b.qty - qty)
<1> HIDE DEF left
<1>2. left \in Nat
  BY <1>1 DEF left
<1>3. TrackFill(b, ref, qty) =
        IF ref = "stop_loss"
        THEN [b EXCEPT !.qty = left, !.side = IF left = 0 THEN None ELSE b.side]
        ELSE [b EXCEPT !.side = EntrySide(ref), !.qty = qty]
  BY DEF TrackFill, EntrySide, left
<1>4. EntrySide(ref) \in Sides
  BY DEF EntrySide, Sides
<1>5. CASE ref = "stop_loss"
  BY <1>2, <1>3, <1>5 DEF Broker
<1>6. CASE ref # "stop_loss"
  BY <1>3, <1>4, <1>6 DEF Broker
<1> QED
  BY <1>5, <1>6

(* A frame of the WebSocket: the broker tracks the fill, the engine handles it, and the calls
   of its answer manage the trade that the fill opened, resized or closed. *)
LEMMA ReadFrameKeeps == ASSUME Inv, ReadFrame PROVE Inv'
<1>1. PICK frame, ref : frame = Head(frames) /\ ref = RefOf(t, frame.id)
  OBVIOUS
<1>2. /\ frames # <<>> /\ frames \in Seq(Frame) /\ frames' = Tail(frames)
      /\ todo["reader"] = <<>>
      /\ UNCHANGED <<now, asked, tries, deaf, paused, orders, net, mishaps, rows>>
  BY DEF ReadFrame, Idle, Inv, Types
<1>3. /\ frames' \in Seq(Frame) /\ FramesTrue(frames', orders)
      /\ 1 \in DOMAIN frames /\ frame = frames[1] /\ frame \in Frame
  BY <1>1, <1>2, TailTrue, TailIs DEF Inv
<1>4. ~(now < OrEnd)
  BY <1>2, EarlyIsQuiet
<1>5. Early'
  BY <1>2, <1>4 DEF Early
<1>6. CASE ref = None
  <2>1. UNCHANGED <<e, t, todo, saved, missed>>
    BY <1>1, <1>6 DEF ReadFrame
  <2>2. Types'
    BY <1>2, <1>3, <2>1 DEF Inv, Types
  <2> QED
    BY <1>2, <1>3, <1>5, <2>1, <2>2 DEF Inv
<1>7. CASE ref # None
  <2> DEFINE id == frame.id
  <2>1. id \in DOMAIN orders /\ ref = orders[id].ref
    BY <1>1, <1>7, RefOfIs DEF Inv
  <2>2. orders[id] \in Order /\ orders \in Seq(Order) /\ t \in Broker
    BY <2>1 DEF Inv, Types
  <2>3. ref \in OrderRefs /\ orders[id].qty \in Nat
    BY <2>1, <2>2 DEF Order
  <2>4. \E y : /\ Answers("reader", y) /\ SameRange(e, y) /\ Handled("reader", y)
               /\ t' \in Broker /\ t'.ids = t.ids /\ t'.names = t.names
               /\ t'.side # None => \E f \in FilledEntries(orders) : orders[f].side = t'.side
    <3>1. t.side # None => \E f \in FilledEntries(orders) : orders[f].side = t.side
      BY DEF Inv, Backings
    <3>2. CASE frame.type = "fill"
      <4>1. PICK fill, y : /\ fill = [ref |-> ref, price |-> frame.price, qty |-> frame.qty]
                           /\ y = Eng!OnFill(e, fill)
        OBVIOUS
      <4>2. Handled("reader", y) /\ t' = TrackFill(t, ref, frame.qty)
        BY <1>1, <1>7, <3>2, <4>1 DEF ReadFrame
      <4>3. /\ orders[id].state = "filled" /\ frame.qty = orders[id].qty
            /\ frame.price \in Int
        BY <1>3, <3>2 DEF Inv, FramesTrue, Frame
      <4>4. fill.ref = orders[id].ref /\ fill.qty = orders[id].qty /\ fill.price \in Int
        BY <2>1, <4>1, <4>3
      <4> HIDE DEF id
      <4>5. Answers("reader", y) /\ SameRange(e, y)
        BY <2>1, <4>1, <4>3, <4>4, FillAnswers
      <4>6. /\ t' \in Broker /\ t'.ids = t.ids /\ t'.names = t.names
            /\ ref = "stop_loss" => t'.side = t.side \/ t'.side = None
            /\ ref # "stop_loss" => t'.side = EntrySide(ref)
        BY <2>2, <2>3, <4>2, <4>3, TrackFillIs
      <4>7. ref # "stop_loss" => id \in FilledEntries(orders) /\ orders[id].side = EntrySide(ref)
        <5> HAVE ref # "stop_loss"
        <5>1. ref \in EntryRefs
          BY <2>3, RefsAre DEF OrderRefs, EntryRefs
        <5>2. Bracket(e, orders[id])
          BY <2>1, <5>1 DEF Inv, Brackets
        <5> QED
          BY <2>1, <4>3, <5>1, <5>2 DEF FilledEntries, Bracket
      <4> QED
        BY <3>1, <4>2, <4>5, <4>6, <4>7
    <3>3. CASE frame.type # "fill"
      <4>1. PICK y : y = Eng!OnOrderWorking(e, ref)
        OBVIOUS
      <4>2. Handled("reader", y) /\ t' = t
        BY <1>1, <1>7, <3>3, <4>1 DEF ReadFrame
      <4>3. Leads(Entered, e, e, y)
        BY <2>3, <4>1, HandlerMayBegin, OnOrderWorkingLeads
      <4>4. Answers("reader", y) /\ SameRange(e, y)
        BY <4>3, ManagedAnswers DEF Leads, Tasks
      <4> QED
        BY <2>2, <3>1, <4>2, <4>4
    <3> QED
      BY <3>2, <3>3
  <2>5. PICK y : /\ Answers("reader", y) /\ SameRange(e, y) /\ Handled("reader", y)
                 /\ t' \in Broker /\ t'.ids = t.ids /\ t'.names = t.names
                 /\ t'.side # None => \E f \in FilledEntries(orders) : orders[f].side = t'.side
    BY <2>4
  <2>6. /\ EngineSound(e') /\ e'.sink = <<>> /\ todo' \in [Tasks -> Seq(Action)]
        /\ missed' \subseteq EntryRefs
        /\ saved' \in Day \cup {None} /\ (saved' # None => DaySound(saved'))
        /\ RangeSaved(e', saved') /\ Backings(e', orders, saved', t.side)
        /\ Paired(t, orders, asked, todo') /\ Brackets(e', orders, todo')
    BY <1>2, <2>5, HandledKeeps DEF Tasks, SameRange
  <2>7. Types'
    BY <1>2, <1>3, <2>5, <2>6 DEF Inv, Types
  <2>8. Paired(t', orders, asked, todo') /\ Backings(e', orders, saved', t'.side)
    BY <2>5, <2>6 DEF Paired, Backings
  <2> QED
    BY <1>2, <1>3, <1>5, <2>6, <2>7, <2>8 DEF Inv
<1> QED
  BY <1>6, <1>7

-----------------------------------------------------------------------------
(* The invariant.                                                          *)

(* The invariant holds of the process that has just started on a fresh day. *)
LEMMA InitInv == ASSUME Init PROVE Inv
<1>1. /\ e = Eng!NewEngine(Eng!FreshDay, Equity, <<>>) /\ saved = None /\ t = NewBroker
      /\ todo = [task \in Tasks |-> <<>>] /\ asked = [task \in Tasks |-> None]
      /\ tries = [task \in Tasks |-> 0] /\ frames = <<>> /\ orders = <<>>
      /\ now = 0 /\ paused = FALSE /\ deaf = FALSE /\ net = 0 /\ mishaps = {}
      /\ rows = 0 /\ missed = {}
  BY DEF Init
<1>2. /\ <<>> \in Seq(Action) /\ <<>> \in Seq(Frame) /\ <<>> \in Seq(Order)
      /\ Len(<<>>) = 0 /\ DOMAIN <<>> = {}
  OBVIOUS
<1>3. e \in Engine /\ e.sink = <<>> /\ e.pos = None /\ ~e.orFinal /\ ~e.placed /\ ~e.canceled
      /\ e.entryQty = 0 /\ e.orHigh = None /\ e.orLow = None
  <2>1. e = [orHigh |-> None, orLow |-> None, orFinal |-> FALSE, entryQty |-> 0,
             placed |-> FALSE, pos |-> None, done |-> FALSE, halted |-> FALSE, pnl |-> 0,
             equity |-> Equity, lastPrice |-> None, canceled |-> FALSE, sink |-> <<>>]
    BY <1>1 DEF Eng!NewEngine, Eng!FreshDay
  <2>2. e \in Engine
    BY <1>2, <2>1 DEF Engine
  <2> QED
    BY <2>1, <2>2
<1>4. EngineSound(e)
  BY <1>3 DEF EngineSound, DaySound
<1>5. t \in Broker /\ t.side = None /\ t.names = {} /\ \A ref \in OrderRefs : t.ids[ref] = None
  BY <1>1 DEF NewBroker, Broker
<1>6. /\ todo \in [Tasks -> Seq(Action)] /\ asked \in [Tasks -> Nat \cup {None}]
      /\ tries \in [Tasks -> 0..1] /\ \A task \in Tasks : todo[task] = <<>> /\ asked[task] = None
  BY <1>1, <1>2
<1>7. mishaps \subseteq Mishaps /\ Cardinality(mishaps) <= MaxMishaps
  BY <1>1, FS_EmptySet, LiveAssumption
<1>8. Types
  <2>1. now \in 0..EndTime
    BY <1>1, LiveAssumption
  <2>2. paused \in BOOLEAN /\ deaf \in BOOLEAN /\ saved = None
    BY <1>1
  <2>3. net \in Int
    BY <1>1
  <2>4. orders = <<>> /\ frames = <<>>
    BY <1>1
  <2>5. orders \in Seq(Order) /\ frames \in Seq(Frame)
    BY <1>2, <2>4
  <2>6. rows \in 0..MaxRows /\ missed \subseteq EntryRefs
    BY <1>1, LiveAssumption
  <2> QED
    BY <1>3, <1>4, <1>5, <1>6, <1>7, <2>1, <2>2, <2>3, <2>5, <2>6 DEF Types
<1>9. Paired(t, orders, asked, todo) /\ FramesTrue(frames, orders)
  BY <1>1, <1>2, <1>5, <1>6 DEF Paired, FramesTrue
<1>10. Brackets(e, orders, todo) /\ RangeSaved(e, saved) /\ Backings(e, orders, saved, t.side)
  BY <1>1, <1>2, <1>3, <1>5, <1>6 DEF Brackets, RangeSaved, Backings
<1>11. Early
  BY <1>1, <1>3, <1>6 DEF Early, Unbegun
<1> QED
  BY <1>8, <1>9, <1>10, <1>11 DEF Inv

(* Every step of the session keeps the invariant: one lemma per action. *)
LEMMA NextInv == ASSUME Inv, [Next]_vars PROVE Inv'
<1>1. CASE UNCHANGED vars
  BY <1>1 DEF vars, exchange, record, Inv, Types, Early, Unbegun
<1>2. CASE Bar \/ WallClock \/ ReadFrame \/ Flatten \/ ExchangeFill \/ Restart
  BY <1>2, BarKeeps, WallClockKeeps, ReadFrameKeeps, FlattenKeeps, ExchangeFillKeeps,
     RestartKeeps
<1>3. ASSUME NEW task \in Tasks, Step(task) PROVE Inv'
  BY <1>3, SkipPlaceKeeps, SendPlaceKeeps, PlaceAnsweredKeeps, PlaceRejectedKeeps,
     CancelKeeps, CancelFailsKeeps, ModifyKeeps, CloseMarketKeeps, ExitPrintedKeeps,
     CallRaisesKeeps, RowFailsKeeps DEF Step
<1> QED
  BY <1>1, <1>2, <1>3 DEF Next

(* In every execution of the live session, with any candles, any number of orders and any
   interleaving of the handlers, the frames, the clock, the operator and the restarts, the
   parts of the invariant hold together (app.py's handlers, tradovate_broker.py's calls and
   fills). *)
THEOREM Invariant == Spec => []Inv
<1>1. Init => Inv
  BY InitInv
<1>2. Inv /\ [Next]_vars => Inv'
  BY NextInv
<1> QED
  BY <1>1, <1>2, PTL DEF Spec

(* The types, and that the broker's two maps agree on every order of the   *)
(* exchange.                                                               *)
THEOREM Typed == Spec => []TypeOK
<1>1. Inv => TypeOK
  <2> SUFFICES ASSUME Inv PROVE TypeOK
    OBVIOUS
  <2>1. \A id \in DOMAIN orders : orders[id].state \in {"working", "filled", "cancelled"}
    <3>1. \A id \in DOMAIN orders : orders[id] \in Order
      BY DEF Inv, Types
    <3> QED
      BY <3>1 DEF Order
  <2>2. t.side \in Sides \cup {None} /\ t.qty \in Nat
    BY DEF Inv, Types, Broker
  <2>3. \A n \in t.names : n.id \in DOMAIN orders /\ orders[n.id].ref = n.ref
    BY DEF Inv, Paired
  <2>4. ASSUME NEW ref \in OrderRefs, t.ids[ref] # None
        PROVE  RefOf(t, t.ids[ref]) = ref
    <3> DEFINE n == [id |-> t.ids[ref], ref |-> ref]
    <3>1. n \in t.names /\ n.id = t.ids[ref] /\ n.ref = ref
      BY <2>4 DEF Inv, Paired
    <3>2. RefOf(t, n.id) # None
      <4> HIDE DEF n
      <4>1. \E m \in t.names : m.id = n.id
        BY <3>1
      <4> DEFINE c == CHOOSE m \in t.names : m.id = n.id
      <4>2. c \in t.names /\ RefOf(t, n.id) = c.ref
        BY <4>1 DEF RefOf
      <4>3. c.ref \in OrderRefs
        <5> HIDE DEF c
        <5> QED
          BY <4>2 DEF Inv, Types, Broker
      <4> QED
        BY <4>2, <4>3, OptionalAssumption
    <3> HIDE DEF n
    <3>3. RefOf(t, n.id) = orders[n.id].ref
      BY <3>2, RefOfIs DEF Inv
    <3> QED
      BY <2>3, <3>1, <3>3
  <2>5. \A task \in Tasks : asked[task] \in DOMAIN orders \cup {None} /\ tries[task] \in 0..1
    BY DEF Inv, Paired, Types
  <2> QED
    BY <2>1, <2>2, <2>3, <2>4, <2>5, RefsAre DEF TypeOK, Inv, Types
<1> QED
  BY <1>1, Invariant, PTL

(* A set of at most one element.                                           *)
LEMMA AtMostOne ==
  ASSUME NEW S, IsFiniteSet(S), Cardinality(S) <= 1, NEW i \in S, NEW j \in S
  PROVE  i = j
<1>1. Cardinality({i, j}) <= Cardinality(S) /\ IsFiniteSet({i, j})
  BY FS_Subset
<1>2. i # j => Cardinality({i, j}) = 2
  <2> HAVE i # j
  <2>1. IsFiniteSet({i}) /\ Cardinality({i}) = 1
    BY FS_Singleton
  <2>2. {i, j} = {i} \cup {j} /\ j \notin {i}
    OBVIOUS
  <2>3. Cardinality({i} \cup {j}) = Cardinality({i}) + 1
    BY <2>1, <2>2, FS_AddElement
  <2> QED
    BY <2>1, <2>2, <2>3
<1>3. Cardinality(S) \in Nat
  BY FS_CardinalityType
<1> QED
  BY <1>1, <1>2, <1>3

(* An exchange has finitely many orders.                                   *)
LEMMA FilledAreFinite ==
  ASSUME NEW os \in Seq(Order) PROVE IsFiniteSet(FilledEntries(os))
<1>1. DOMAIN os = 1..Len(os) /\ Len(os) \in Nat
  OBVIOUS
<1>2. IsFiniteSet(DOMAIN os)
  BY <1>1, FS_Interval
<1> QED
  BY <1>2, FS_Subset DEF FilledEntries

(* A filled entry is the only one.                                         *)
LEMMA OneEntryIsOne ==
  ASSUME Inv, Cardinality(EntriesFilled) <= 1, NEW i \in EntriesFilled, NEW j \in EntriesFilled
  PROVE  i = j
<1>1. EntriesFilled = FilledEntries(orders)
  BY RefsAre DEF EntriesFilled, FilledEntries
<1>2. IsFiniteSet(EntriesFilled)
  BY <1>1, FilledAreFinite DEF Inv, Types
<1> QED
  BY <1>2, AtMostOne

(* A change by at most b contracts.                                        *)
LEMMA ChangeWithin ==
  ASSUME NEW m \in Int, NEW n, NEW q \in Nat, NEW b \in Nat, q <= b, n # m
  PROVE  /\ n = m - q => n - m \in -b..-1
         /\ n = m + q => n - m \in 1..b
OBVIOUS

(* A market close goes out against the entry that filled, and for no more  *)
(* than it brought in.                                                     *)
THEOREM ClosesOppose == Spec => ClosesOpposeTheEntry
<1>1. Inv /\ [Next]_vars =>
        [Cardinality(EntriesFilled) <= 1 /\ orders' = orders /\ net' # net
           => \E id \in EntriesFilled :
                net' - net \in IF orders[id].side = "long" THEN -orders[id].qty..-1
                               ELSE 1..orders[id].qty]_vars
  <2> SUFFICES ASSUME Inv, Next, Cardinality(EntriesFilled) <= 1, orders' = orders, net' # net
               PROVE  \E id \in EntriesFilled :
                        net' - net \in IF orders[id].side = "long" THEN -orders[id].qty..-1
                                       ELSE 1..orders[id].qty
    BY DEF vars, exchange, record
  <2>1. ~ExchangeFill
    <3> SUFFICES ASSUME ExchangeFill PROVE FALSE
      OBVIOUS
    <3>1. PICK id \in DOMAIN orders :
            orders[id].state = "working" /\ orders' = [orders EXCEPT ![id].state = "filled"]
      BY DEF ExchangeFill
    <3>2. orders[id] \in Order /\ orders \in Seq(Order)
      BY DEF Inv, Types
    <3>3. orders'[id].state = "filled"
      BY <3>1, <3>2 DEF Order
    <3> QED
      BY <3>1, <3>3
  <2>2. PICK task \in Tasks : CloseArrives(task)
    <3>1. PICK task \in Tasks : Step(task)
      BY <2>1 DEF Next, Bar, WallClock, ReadFrame, Flatten, Restart, exchange
    <3>2. CloseMarket(task) \/ CallRaises(task)
      BY <3>1 DEF Step, SkipPlace, SendPlace, PlaceAnswered, PlaceRejected, Cancel, CancelFails,
                  Modify, ModifyArrives, ExitPrinted, RowFails, exchange
    <3>3. ~UNCHANGED exchange /\ ~ModifyArrives(task)
      BY DEF ModifyArrives, exchange
    <3> QED
      BY <3>2, <3>3 DEF CloseMarket, CallRaises
  <2> DEFINE a == Head(todo[task])
  <2>3. /\ todo[task] # <<>> /\ todo[task] \in Seq(Action) /\ a.type = "close"
        /\ net' = IF ClosingSide(t) = None THEN net ELSE net + SignedQty(ClosingSide(t), a.qty)
        /\ net \in Int /\ orders \in Seq(Order) /\ t \in Broker
    BY <2>2 DEF CloseArrives, Ready, Next1, Idle, Inv, Types
  <2>4. a.qty \in Nat /\ 1 \in 1..Len(todo[task]) /\ a = todo[task][1]
    BY <2>3, TailFacts DEF Action
  <2>5. CallSound(e, orders, task, a)
    BY <2>4 DEF Inv, Brackets
  <2> HIDE DEF a
  <2>6. EntriesFilled = FilledEntries(orders)
    BY RefsAre DEF EntriesFilled, FilledEntries
  <2>7. PICK id \in EntriesFilled : a.qty <= orders[id].qty
    BY <2>3, <2>5, <2>6 DEF CallSound, Backed
  <2>8. t.side # None
    BY <2>3 DEF ClosingSide
  <2>9. orders[id].side = t.side
    <3>1. PICK f \in EntriesFilled : orders[f].side = t.side
      BY <2>6, <2>8 DEF Inv, Backings
    <3> QED
      BY <3>1, OneEntryIsOne
  <2>10. t.side \in Sides /\ orders[id].qty \in Nat
    <3>1. orders[id] \in Order
      BY <2>3 DEF EntriesFilled
    <3> QED
      BY <2>3, <2>8, <3>1 DEF Broker, Order
  <2>11. net' = net + SignedQty(Opposite(t.side), a.qty)
    BY <2>3, <2>8, <2>10, NoneAssumption DEF ClosingSide, Opposite
  <2>12. CASE t.side = "long"
    <3>1. net' = net - a.qty
      BY <2>3, <2>4, <2>11, <2>12 DEF Opposite, SignedQty
    <3>2. net' - net \in -orders[id].qty..-1
      BY <2>3, <2>4, <2>7, <2>10, <3>1, ChangeWithin
    <3> QED
      BY <2>9, <2>12, <3>2
  <2>13. CASE t.side = "short"
    <3>1. net' = net + a.qty
      BY <2>3, <2>4, <2>11, <2>13 DEF Opposite, SignedQty
    <3>2. net' - net \in 1..orders[id].qty
      BY <2>3, <2>4, <2>7, <2>10, <3>1, ChangeWithin
    <3> QED
      BY <2>9, <2>13, <3>2
  <2> QED
    BY <2>10, <2>12, <2>13 DEF Sides
<1> QED
  BY <1>1, Invariant, PTL DEF Spec, ClosesOpposeTheEntry

-----------------------------------------------------------------------------
(* The entries of a day on which nothing has raised.                       *)

(* An entry is placed once, and the broker knows its id, or is about to be *)
(* told it.                                                                *)
Tracked(b, os, q, ask, ref) ==
  \A id \in DOMAIN os : os[id].ref = ref =>
    /\ ask = id \/ b.ids[ref] = id
    /\ \A other \in DOMAIN os : os[other].ref = ref => other = id
    /\ \A i \in 1..Len(q) : Places(q[i], ref) => i = 1 /\ ask = id

Standing(os, ref) == \E id \in DOMAIN os : os[id].ref = ref /\ os[id].state = "working"

(* The references that the reader or the operator is about to cancel.      *)
Withdrawing(td) == {ref \in OrderRefs : \E task \in Tasks \ {"loop"} : WillCancel(td[task], ref)}

(* No order of the reference will be left, once the loop has executed its  *)
(* list q and the other tasks have cancelled those of W.                   *)
Gone(os, q, W, ref) ==
  \/ WillCancel(q, ref)
  \/ (ref \in W \/ ~Standing(os, ref)) /\ ~WillPlace(q, ref)

(* Entries exist, or are going to.                                         *)
Armed(os, q) ==
  \/ \E id \in DOMAIN os : os[id].ref \in EntryRefs
  \/ \E ref \in EntryRefs : WillPlace(q, ref)

(* A day d whose loop has the calls q ahead keeps its entries in order: those *)
(* there are were recorded in the day, and each is placed once.            *)
EntriesKept(d, b, os, q, ask) ==
  /\ Armed(os, q) => d.placed
  /\ PlacedOnce(q)
  /\ \A ref \in EntryRefs : Tracked(b, os, q, ask, ref)

(* Once withdrawn, none will be left but those of M.                       *)
EntriesLeave(d, os, q, W, M) == d.canceled => \A ref \in EntryRefs \ M : Gone(os, q, W, ref)

(* The hard close withdraws the entries.                                   *)
Closed(d, m) == d.placed /\ m >= HardClose => d.canceled

Tidy ==
  /\ EntriesKept(e, t, orders, todo["loop"], asked["loop"])
  /\ EntriesLeave(e, orders, todo["loop"], Withdrawing(todo), missed)
  /\ Closed(e, now)

(* A call is tried again only after it has failed.                         *)
TriesSeen == \A task \in Tasks : tries[task] # 0 => "cancel_fails" \in mishaps

(* The invariant behind EntriesGoneAtHardClose.                            *)
Orderly == TriesSeen /\ (Unbroken => Tidy)

(* The exchange's orders later, without a new one: none begins to work.    *)
Withers(os, ns) ==
  /\ DOMAIN ns = DOMAIN os
  /\ \A id \in DOMAIN os :
       ns[id].ref = os[id].ref /\ (ns[id].state = "working" => os[id].state = "working")

(* The broker still knows what it knew of the entries.                     *)
Knows(os, b, ask, c, n) ==
  \A id \in DOMAIN os :
    os[id].ref \in EntryRefs /\ (ask = id \/ b.ids[os[id].ref] = id)
      => n = id \/ c.ids[os[id].ref] = id

(* A list that has its first call done cancels what it did, but for that   *)
(* call.                                                                   *)
LEMMA TailCancels ==
  ASSUME NEW q \in Seq(Action), q # <<>>, NEW ref
  PROVE  /\ WillPlace(Tail(q), ref) => WillPlace(q, ref)
         /\ WillCancel(q, ref) =>
              WillCancel(Tail(q), ref) \/ (Cancels(Head(q), ref) /\ ~WillPlace(Tail(q), ref))
<1> DEFINE r == Tail(q)
<1>1. /\ r \in Seq(Action) /\ Len(q) \in Nat \ {0} /\ Len(r) = Len(q) - 1
      /\ \A i \in 1..Len(r) : i + 1 \in 1..Len(q) /\ r[i] = q[i + 1]
      /\ Head(q) = q[1] /\ 1 \in 1..Len(q)
  BY TailFacts
<1> HIDE DEF r
<1>2. WillPlace(r, ref) => WillPlace(q, ref)
  BY <1>1 DEF WillPlace
<1>3. ASSUME WillCancel(q, ref)
      PROVE  WillCancel(r, ref) \/ (Cancels(Head(q), ref) /\ ~WillPlace(r, ref))
  <2>1. PICK i \in 1..Len(q) :
          Cancels(q[i], ref) /\ \A j \in (i + 1)..Len(q) : ~Places(q[j], ref)
    BY <1>3 DEF WillCancel
  <2>2. CASE i = 1
    <3>1. ASSUME NEW j \in 1..Len(r) PROVE ~Places(r[j], ref)
      <4>1. j + 1 \in (1 + 1)..Len(q) /\ r[j] = q[j + 1]
        BY <1>1
      <4> QED
        BY <2>1, <2>2, <4>1
    <3> QED
      BY <1>1, <2>1, <2>2, <3>1 DEF WillPlace
  <2>3. CASE i # 1
    <3>1. i - 1 \in 1..Len(r) /\ r[i - 1] = q[i]
      BY <1>1, <2>3
    <3>2. ASSUME NEW j \in (i - 1 + 1)..Len(r) PROVE ~Places(r[j], ref)
      <4>1. j + 1 \in (i + 1)..Len(q) /\ j \in 1..Len(r)
        BY <1>1, <2>3
      <4>2. r[j] = q[j + 1]
        BY <1>1, <4>1
      <4> QED
        BY <2>1, <4>1, <4>2
    <3> QED
      BY <2>1, <3>1, <3>2 DEF WillCancel
  <2> QED
    BY <2>2, <2>3
<1> QED
  BY <1>2, <1>3 DEF r

(* The loop's list has its first call done.                                *)
LEMMA TailKept ==
  ASSUME NEW d, NEW b, NEW c, NEW os, NEW ns, Withers(os, ns), NEW ask, NEW n,
         Knows(os, b, ask, c, n),
         NEW q \in Seq(Action), q # <<>>, EntriesKept(d, b, os, q, ask)
  PROVE  EntriesKept(d, c, ns, Tail(q), n)
<1> DEFINE r == Tail(q)
<1>1. /\ r \in Seq(Action) /\ Len(q) \in Nat \ {0} /\ Len(r) = Len(q) - 1
      /\ \A i \in 1..Len(r) : i + 1 \in 1..Len(q) /\ r[i] = q[i + 1]
      /\ Head(q) = q[1] /\ 1 \in 1..Len(q)
  BY TailFacts
<1> HIDE DEF r
<1>2. \A ref : WillPlace(r, ref) => WillPlace(q, ref)
  BY <1>1 DEF WillPlace
<1>3. Armed(ns, r) => d.placed
  BY <1>2 DEF Armed, Withers, EntriesKept
<1>4. PlacedOnce(r)
  <2> SUFFICES ASSUME NEW i \in 1..Len(r), NEW j \in 1..Len(r),
                      r[i].type = "place", r[j].type = "place", r[i].ref = r[j].ref
               PROVE  i = j
    BY DEF PlacedOnce
  <2>1. i + 1 \in 1..Len(q) /\ r[i] = q[i + 1] /\ j + 1 \in 1..Len(q) /\ r[j] = q[j + 1]
    BY <1>1
  <2>2. i + 1 = j + 1
    BY <2>1 DEF EntriesKept, PlacedOnce
  <2> QED
    BY <1>1, <2>2
<1>5. ASSUME NEW ref \in EntryRefs PROVE Tracked(c, ns, r, n, ref)
  <2> SUFFICES ASSUME NEW id \in DOMAIN ns, ns[id].ref = ref
               PROVE  /\ n = id \/ c.ids[ref] = id
                      /\ \A other \in DOMAIN ns : ns[other].ref = ref => other = id
                      /\ \A i \in 1..Len(r) : Places(r[i], ref) => i = 1 /\ n = id
    BY DEF Tracked
  <2>1. id \in DOMAIN os /\ os[id].ref = ref /\ Tracked(b, os, q, ask, ref)
    BY DEF Withers, EntriesKept
  <2>2. n = id \/ c.ids[ref] = id
    BY <2>1 DEF Knows, Tracked
  <2>3. \A other \in DOMAIN ns : ns[other].ref = ref => other = id
    BY <2>1 DEF Tracked, Withers
  <2>4. ASSUME NEW i \in 1..Len(r) PROVE ~Places(r[i], ref)
    <3>1. i + 1 \in 1..Len(q) /\ r[i] = q[i + 1] /\ i + 1 # 1
      BY <1>1
    <3> QED
      BY <2>1, <3>1 DEF Tracked
  <2> QED
    BY <2>2, <2>3, <2>4
<1> QED
  BY <1>3, <1>4, <1>5 DEF EntriesKept, r

(* And what it has cancelled is gone.                                      *)
LEMMA TailLeaves ==
  ASSUME NEW d, NEW os, NEW ns, Withers(os, ns), NEW W, NEW M,
         NEW q \in Seq(Action), q # <<>>,
         \A ref \in EntryRefs : Cancels(Head(q), ref) => ~Standing(ns, ref)
  PROVE  EntriesLeave(d, os, q, W, M) => EntriesLeave(d, ns, Tail(q), W, M)
<1> SUFFICES ASSUME d.canceled, NEW ref \in EntryRefs, Gone(os, q, W, ref)
             PROVE  Gone(ns, Tail(q), W, ref)
  BY DEF EntriesLeave
<1>1. CASE WillCancel(q, ref)
  BY <1>1, TailCancels DEF Gone
<1>2. CASE (ref \in W \/ ~Standing(os, ref)) /\ ~WillPlace(q, ref)
  <2>1. ~Standing(os, ref) => ~Standing(ns, ref)
    BY DEF Withers, Standing
  <2> QED
    BY <1>2, <2>1, TailCancels DEF Gone
<1> QED
  BY <1>1, <1>2 DEF Gone

(* The loop's list stays as it is.                                         *)
LEMMA WithersKept ==
  ASSUME NEW d, NEW f, f.placed = d.placed,
         NEW b, NEW c, NEW os, NEW ns, Withers(os, ns), NEW ask,
         \A ref \in EntryRefs : c.ids[ref] = b.ids[ref], NEW q
  PROVE  EntriesKept(d, b, os, q, ask) => EntriesKept(f, c, ns, q, ask)
<1> HAVE EntriesKept(d, b, os, q, ask)
<1>1. Armed(ns, q) => f.placed
  BY DEF EntriesKept, Armed, Withers
<1>2. \A ref \in EntryRefs : Tracked(c, ns, q, ask, ref)
  BY DEF EntriesKept, Tracked, Withers
<1> QED
  BY <1>1, <1>2 DEF EntriesKept

(* What another task no longer has to cancel is gone.                      *)
LEMMA WithersLeave ==
  ASSUME NEW d, NEW os, NEW ns, Withers(os, ns), NEW q, NEW W, NEW V, NEW M,
         \A ref \in EntryRefs : ref \in W \ V /\ ~WillPlace(q, ref) => ~Standing(ns, ref)
  PROVE  EntriesLeave(d, os, q, W, M) => EntriesLeave(d, ns, q, V, M)
<1>1. \A ref : ~Standing(os, ref) => ~Standing(ns, ref)
  BY DEF Withers, Standing
<1> QED
  BY <1>1 DEF EntriesLeave, Gone

(* The loop's placement arrives: an entry of which there is none yet.      *)
LEMMA EntryAppended ==
  ASSUME NEW d, NEW b, NEW os \in Seq(Order), NEW o \in Order, o.ref \in EntryRefs,
         NEW q \in Seq(Action), q # <<>>, Places(Head(q), o.ref),
         EntriesKept(d, b, os, q, None)
  PROVE  EntriesKept(d, b, Append(os, o), q, Len(os) + 1)
<1> DEFINE ns == Append(os, o)
           n == Len(os) + 1
<1>1. /\ Len(os) \in Nat /\ DOMAIN os = 1..Len(os) /\ DOMAIN ns = 1..n /\ ns[n] = o
      /\ \A id \in DOMAIN os : ns[id] = os[id]
  BY AppendIs
<1>2. \A id \in DOMAIN ns : id # n => id \in DOMAIN os
  BY <1>1
<1>3. n \in DOMAIN ns /\ n \notin DOMAIN os /\ \A id \in DOMAIN ns : id # None
  BY <1>1, OptionalAssumption
<1> HIDE DEF ns, n
<1>4. 1 \in 1..Len(q) /\ Places(q[1], o.ref)
  BY TailFacts
<1>5. ASSUME NEW id \in DOMAIN os PROVE os[id].ref # o.ref
  <2>1. id # None
    BY <1>1, <1>3
  <2> QED
    BY <1>4, <2>1 DEF EntriesKept, Tracked
<1>6. d.placed
  BY <1>4 DEF EntriesKept, Armed, WillPlace
<1>7. ASSUME NEW ref \in EntryRefs PROVE Tracked(b, ns, q, n, ref)
  <2> SUFFICES ASSUME NEW id \in DOMAIN ns, ns[id].ref = ref
               PROVE  /\ n = id \/ b.ids[ref] = id
                      /\ \A other \in DOMAIN ns : ns[other].ref = ref => other = id
                      /\ \A i \in 1..Len(q) : Places(q[i], ref) => i = 1 /\ n = id
    BY DEF Tracked
  <2>1. CASE ref = o.ref
    <3>1. \A other \in DOMAIN ns : ns[other].ref = ref => other = n
      BY <1>1, <1>2, <1>5, <2>1
    <3>2. ASSUME NEW i \in 1..Len(q), Places(q[i], ref) PROVE i = 1
      BY <1>4, <2>1, <3>2 DEF EntriesKept, PlacedOnce, Places
    <3> QED
      BY <3>1, <3>2
  <2>2. CASE ref # o.ref
    <3>1. id \in DOMAIN os /\ os[id].ref = ref /\ id # None
      BY <1>1, <1>2, <1>3, <2>2
    <3>2. Tracked(b, os, q, None, ref)
      BY DEF EntriesKept
    <3>3. /\ b.ids[ref] = id
          /\ \A other \in DOMAIN os : os[other].ref = ref => other = id
          /\ \A i \in 1..Len(q) : ~Places(q[i], ref)
      BY <3>1, <3>2 DEF Tracked
    <3>4. \A other \in DOMAIN ns : ns[other].ref = ref => other \in DOMAIN os /\ os[other].ref = ref
      BY <1>1, <1>2, <2>2
    <3> QED
      BY <3>3, <3>4
  <2> QED
    BY <2>1, <2>2
<1>9. PlacedOnce(q)
  BY DEF EntriesKept
<1> QED
  BY <1>6, <1>7, <1>9 DEF EntriesKept, ns, n

(* A new order stands in for no entry that is to be gone: the loop is still *)
(* placing it, or it is no entry.                                          *)
LEMMA AppendedLeave ==
  ASSUME NEW d, NEW os \in Seq(Order), NEW o \in Order, NEW q, NEW W, NEW M,
         o.ref \in EntryRefs => WillPlace(q, o.ref)
  PROVE  EntriesLeave(d, os, q, W, M) => EntriesLeave(d, Append(os, o), q, W, M)
<1> DEFINE ns == Append(os, o)
<1>1. /\ Len(os) \in Nat /\ DOMAIN os = 1..Len(os) /\ DOMAIN ns = 1..(Len(os) + 1)
      /\ ns[Len(os) + 1] = o /\ \A id \in DOMAIN os : ns[id] = os[id]
  BY AppendIs
<1> HIDE DEF ns
<1>2. \A id \in DOMAIN ns : ns[id] = o \/ (id \in DOMAIN os /\ ns[id] = os[id])
  BY <1>1
<1>3. \A ref \in EntryRefs : ~Standing(os, ref) /\ ~WillPlace(q, ref) => ~Standing(ns, ref)
  BY <1>2 DEF Standing
<1>4. \A ref \in EntryRefs : Gone(os, q, W, ref) => Gone(ns, q, W, ref)
  BY <1>3 DEF Gone
<1> QED
  BY <1>4 DEF EntriesLeave, ns

(* The reader's placement arrives: not an entry.                           *)
LEMMA OtherAppended ==
  ASSUME NEW d, NEW b, NEW os \in Seq(Order), NEW o \in Order, o.ref \notin EntryRefs,
         NEW q, NEW ask, EntriesKept(d, b, os, q, ask)
  PROVE  EntriesKept(d, b, Append(os, o), q, ask)
<1> DEFINE ns == Append(os, o)
<1>1. /\ Len(os) \in Nat /\ DOMAIN os = 1..Len(os) /\ DOMAIN ns = 1..(Len(os) + 1)
      /\ ns[Len(os) + 1] = o /\ \A id \in DOMAIN os : ns[id] = os[id]
  BY AppendIs
<1> HIDE DEF ns
<1>2. \A id \in DOMAIN ns : ns[id].ref \in EntryRefs => id \in DOMAIN os /\ ns[id] = os[id]
  BY <1>1
<1>3. \A id \in DOMAIN os : id \in DOMAIN ns
  BY <1>1
<1>4. Armed(ns, q) => d.placed
  BY <1>2 DEF EntriesKept, Armed
<1>5. \A ref \in EntryRefs : Tracked(b, ns, q, ask, ref)
  BY <1>2 DEF EntriesKept, Tracked
<1> QED
  BY <1>4, <1>5 DEF EntriesKept, ns

(* A handler of the loop begins a new list.                                *)
LEMMA LoopAnswers ==
  ASSUME NEW B, NEW d, NEW y, Manages(B, d, y), NEW b, NEW os, NEW ask,
         EntriesKept(d, b, os, <<>>, ask), NEW W, NEW M, NEW N, M \subseteq N,
         EntriesLeave(d, os, <<>>, W, M),
         NEW f, f.placed = y.placed, f.canceled = y.canceled
  PROVE  EntriesKept(f, b, os, y.sink, ask) /\ EntriesLeave(f, os, y.sink, W, N)
<1> DEFINE q == y.sink
<1>1. \A ref : ~WillPlace(<<>>, ref) /\ ~WillCancel(<<>>, ref)
  BY DEF WillPlace, WillCancel
<1>2. d.placed => d.orFinal
  BY DEF Manages, EngineSound, DaySound
<1>3. \A i \in 1..Len(q) : q[i].type = "place" => ~d.placed /\ y.placed
  BY <1>2 DEF Manages, Allowed
<1> HIDE DEF q
<1>4. \A ref : WillPlace(q, ref) => ~d.placed /\ y.placed
  BY <1>3 DEF WillPlace, Places
<1>5. (\E id \in DOMAIN os : os[id].ref \in EntryRefs) => d.placed
  BY DEF EntriesKept, Armed
<1>6. Armed(os, q) => f.placed
  BY <1>4, <1>5 DEF Armed, Manages
<1>7. ASSUME NEW ref \in EntryRefs PROVE Tracked(b, os, q, ask, ref)
  <2>1. Tracked(b, os, <<>>, ask, ref)
    BY DEF EntriesKept
  <2> QED
    BY <1>3, <1>5, <2>1 DEF Tracked, Places
<1>8. ASSUME f.canceled, NEW ref \in EntryRefs \ N PROVE Gone(os, q, W, ref)
  <2>1. CASE d.canceled
    <3>1. d.placed
      BY <2>1 DEF Manages, EngineSound
    <3>2. Gone(os, <<>>, W, ref)
      BY <1>8, <2>1 DEF EntriesLeave
    <3> QED
      BY <1>1, <1>4, <3>1, <3>2 DEF Gone
  <2>2. CASE ~d.canceled
    BY <1>8, <2>2 DEF Manages, Gone, q
  <2> QED
    BY <2>1, <2>2
<1>9. PlacedOnce(q)
  BY DEF Manages, q
<1> QED
  BY <1>6, <1>7, <1>8, <1>9 DEF EntriesKept, EntriesLeave, q

-----------------------------------------------------------------------------
(* The calls keep the entries in order.                                    *)

(* A step of the loop that executes its first call.                        *)
LEMMA LoopCallOrders ==
  ASSUME Inv, Orderly, todo["loop"] # <<>>, Finished("loop"), Unbroken,
         UNCHANGED <<e, now, missed>>, Withers(orders, orders'),
         Knows(orders, t, asked["loop"], t', asked'["loop"]),
         \A ref \in EntryRefs : Cancels(Head(todo["loop"]), ref) => ~Standing(orders', ref)
  PROVE  Tidy'
<1>1. todo \in [Tasks -> Seq(Action)] /\ todo["loop"] \in Seq(Action)
  BY DEF Inv, Types, Tasks
<1>2. todo'["loop"] = Tail(todo["loop"]) /\ Withdrawing(todo') = Withdrawing(todo)
  BY <1>1 DEF Finished, Tasks, Withdrawing
<1>3. PICK q, ns, b, n : q = todo["loop"] /\ ns = orders' /\ b = t' /\ n = asked'["loop"]
  OBVIOUS
<1>4. /\ EntriesKept(e, t, orders, q, asked["loop"]) /\ Closed(e, now)
      /\ EntriesLeave(e, orders, q, Withdrawing(todo), missed)
  BY <1>3 DEF Orderly, Tidy
<1>5. EntriesKept(e, b, ns, Tail(q), n)
  BY <1>1, <1>3, <1>4, TailKept
<1>6. EntriesLeave(e, ns, Tail(q), Withdrawing(todo), missed)
  BY <1>1, <1>3, <1>4, TailLeaves
<1> QED
  BY <1>2, <1>3, <1>4, <1>5, <1>6 DEF Tidy

(* A step of another task, of the exchange.                                *)
LEMMA ElsewhereOrders ==
  ASSUME Orderly, Unbroken, todo'["loop"] = todo["loop"], asked'["loop"] = asked["loop"],
         UNCHANGED <<now, e, missed>>, Withers(orders, orders'),
         \A ref \in EntryRefs : t'.ids[ref] = t.ids[ref],
         \A ref \in EntryRefs :
           ref \in Withdrawing(todo) \ Withdrawing(todo') /\ ~WillPlace(todo["loop"], ref)
             => ~Standing(orders', ref)
  PROVE  Tidy'
<1>1. PICK b, ns, q, V : b = t' /\ ns = orders' /\ q = todo["loop"] /\ V = Withdrawing(todo')
  OBVIOUS
<1>2. /\ EntriesKept(e, t, orders, q, asked["loop"]) /\ Closed(e, now)
      /\ EntriesLeave(e, orders, q, Withdrawing(todo), missed)
  BY <1>1 DEF Orderly, Tidy
<1>3. EntriesKept(e, b, ns, q, asked["loop"])
  BY <1>1, <1>2, WithersKept
<1>4. EntriesLeave(e, ns, q, V, missed)
  BY <1>1, <1>2, WithersLeave
<1> QED
  BY <1>1, <1>2, <1>3, <1>4 DEF Tidy

(* Mishaps add up.                                                         *)
LEMMA UnbrokenBefore ==
  ASSUME NEW m \in Mishaps, mishaps' = mishaps \/ Befalls(m), UNCHANGED rows, Unbroken'
  PROVE  Unbroken
BY DEF Unbroken, Befalls

(* Another task's list without its first call.                             *)
LEMMA ElsewhereCancels ==
  ASSUME Inv, NEW task \in Tasks, task # "loop", todo[task] # <<>>, Finished(task)
  PROVE  /\ todo'["loop"] = todo["loop"]
         /\ \A ref \in Withdrawing(todo) \ Withdrawing(todo') : Cancels(Head(todo[task]), ref)
<1>1. todo \in [Tasks -> Seq(Action)] /\ todo[task] \in Seq(Action)
  BY DEF Inv, Types
<1>2. /\ todo'["loop"] = todo["loop"] /\ todo'[task] = Tail(todo[task])
      /\ \A other \in Tasks \ {task} : todo'[other] = todo[other]
  BY <1>1 DEF Finished, Tasks
<1>3. ASSUME NEW ref \in Withdrawing(todo) \ Withdrawing(todo')
      PROVE  Cancels(Head(todo[task]), ref)
  <2>1. PICK other \in Tasks \ {"loop"} : WillCancel(todo[other], ref) /\ ref \in OrderRefs
    BY DEF Withdrawing
  <2>2. ~WillCancel(todo'[other], ref)
    BY <2>1 DEF Withdrawing
  <2>3. other = task
    BY <1>2, <2>1, <2>2
  <2> QED
    BY <1>1, <1>2, <2>1, <2>2, <2>3, TailCancels
<1> QED
  BY <1>2, <1>3

(* A step that executes the first call of a task, and neither answers a    *)
(* placement nor sends one.                                                *)
LEMMA CallOrders ==
  ASSUME Inv, Orderly, NEW task \in Tasks, todo[task] # <<>>, Finished(task), Unbroken,
         UNCHANGED <<e, now, t, asked, missed>>, Withers(orders, orders'),
         \A ref \in EntryRefs :
           /\ Cancels(Head(todo[task]), ref)
           /\ task = "loop" \/ ~WillPlace(todo["loop"], ref)
           => ~Standing(orders', ref)
  PROVE  Tidy'
<1>1. CASE task = "loop"
  <2>1. Knows(orders, t, asked["loop"], t', asked'["loop"])
    BY DEF Knows
  <2> QED
    BY <1>1, <2>1, LoopCallOrders
<1>2. CASE task # "loop"
  BY <1>2, ElsewhereCancels, ElsewhereOrders
<1> QED
  BY <1>1, <1>2

(* A list that loses a call that cancels nothing, and no order moves.      *)
LEMMA SameWithers == \A os : Withers(os, os)
BY DEF Withers

(* A new entry skipped because trading is paused.                          *)
LEMMA SkipPlaceOrders ==
  ASSUME Inv, Orderly, NEW task \in Tasks, SkipPlace(task) PROVE Orderly'
<1>1. /\ todo[task] # <<>> /\ Finished(task) /\ Head(todo[task]).type = "place"
      /\ UNCHANGED <<e, now, t, asked, tries, orders, mishaps, rows, missed>>
  BY DEF SkipPlace, Ready, Idle, Next1, exchange, record
<1>2. ASSUME Unbroken PROVE Tidy'
  <2>1. \A ref : ~Cancels(Head(todo[task]), ref) /\ Withers(orders, orders')
    BY <1>1, SameWithers DEF Cancels
  <2> QED
    BY <1>1, <1>2, <2>1, CallOrders
<1> QED
  BY <1>1, <1>2 DEF Orderly, TriesSeen, Unbroken

(* An exit that the reader's callback is told of.                          *)
LEMMA ExitPrintedOrders ==
  ASSUME Inv, Orderly, NEW task \in Tasks, ExitPrinted(task) PROVE Orderly'
<1>1. /\ todo[task] # <<>> /\ Finished(task) /\ Head(todo[task]).type = "notify"
      /\ UNCHANGED <<e, now, t, asked, tries, orders, mishaps, rows, missed>>
  BY DEF ExitPrinted, Ready, Idle, Next1, exchange, record
<1>2. ASSUME Unbroken PROVE Tidy'
  <2>1. \A ref : ~Cancels(Head(todo[task]), ref) /\ Withers(orders, orders')
    BY <1>1, SameWithers DEF Cancels
  <2> QED
    BY <1>1, <1>2, <2>1, CallOrders
<1> QED
  BY <1>1, <1>2 DEF Orderly, TriesSeen, Unbroken

(* A placement that the exchange turns down.                               *)
LEMMA PlaceRejectedOrders ==
  ASSUME Inv, Orderly, NEW task \in Tasks, PlaceRejected(task) PROVE Orderly'
<1>1. /\ todo[task] # <<>> /\ Finished(task) /\ Head(todo[task]).type = "place"
      /\ UNCHANGED <<e, now, t, asked, tries, orders, rows, missed>>
      /\ "rejected" \in Mishaps /\ Befalls("rejected")
  BY DEF PlaceRejected, Ready, Idle, Next1, exchange, record, Mishaps
<1>2. ASSUME Unbroken' PROVE Tidy'
  <2>1. \A ref : ~Cancels(Head(todo[task]), ref) /\ Withers(orders, orders')
    BY <1>1, SameWithers DEF Cancels
  <2>2. Unbroken
    BY <1>1, <1>2, UnbrokenBefore
  <2> QED
    BY <1>1, <2>1, <2>2, CallOrders
<1>3. TriesSeen'
  BY <1>1 DEF Orderly, TriesSeen, Befalls
<1> QED
  BY <1>2, <1>3 DEF Orderly

(* A market close is no entry.                                             *)
LEMMA CloseMarketOrders ==
  ASSUME Inv, Orderly, NEW task \in Tasks, CloseMarket(task) PROVE Orderly'
<1>1. /\ todo[task] # <<>> /\ Finished(task) /\ Head(todo[task]).type = "close"
      /\ UNCHANGED <<e, now, t, asked, tries, orders, mishaps, rows, missed>>
  BY DEF CloseMarket, CloseArrives, Ready, Idle, Next1, record
<1>2. ASSUME Unbroken PROVE Tidy'
  <2>1. \A ref : ~Cancels(Head(todo[task]), ref) /\ Withers(orders, orders')
    BY <1>1, SameWithers DEF Cancels
  <2> QED
    BY <1>1, <1>2, <2>1, CallOrders
<1> QED
  BY <1>1, <1>2 DEF Orderly, TriesSeen, Unbroken

(* A change of the stop leaves the entries alone.                          *)
LEMMA ModifyOrders ==
  ASSUME Inv, Orderly, NEW task \in Tasks, Modify(task) PROVE Orderly'
<1> DEFINE a == Head(todo[task])
           id == t.ids[a.ref]
           o == Changed(orders[id], a)
<1>1. /\ todo[task] # <<>> /\ Finished(task) /\ a.type \in {"modify_price", "modify_qty"}
      /\ UNCHANGED <<e, now, t, asked, tries, mishaps, rows, missed>>
      /\ todo[task] \in Seq(Action) /\ orders \in Seq(Order)
  BY DEF Modify, ModifyArrives, Ready, Idle, Next1, record, Inv, Types
<1>2. orders' = IF id = None THEN orders ELSE [orders EXCEPT ![id] = o]
  BY DEF Modify, ModifyArrives, Next1
<1>3. /\ a.ref = "stop_loss" /\ (a.type = "modify_price" => a.price \in Int)
      /\ (a.type = "modify_qty" => a.qty \in Nat)
  BY <1>1, TailFacts DEF Action
<1>4. id # None => id \in DOMAIN orders
  BY <1>3, IdsAre, RefsAre
<1> HIDE DEF id
<1>5. Withers(orders, orders')
  <2>1. CASE id = None
    BY <1>2, <2>1, SameWithers
  <2>2. CASE id # None
    <3>1. orders[id] \in Order
      BY <1>1, <1>4, <2>2
    <3>2. o.ref = orders[id].ref /\ o.state = orders[id].state
      BY <1>1, <3>1 DEF Changed, Order
    <3> HIDE DEF o
    <3>3. orders' = [orders EXCEPT ![id] = o]
      BY <1>2, <2>2
    <3> QED
      BY <1>1, <1>4, <2>2, <3>2, <3>3 DEF Withers
  <2> QED
    BY <2>1, <2>2
<1>6. ASSUME Unbroken PROVE Tidy'
  <2>1. \A ref : ~Cancels(Head(todo[task]), ref)
    BY <1>1 DEF Cancels
  <2> QED
    BY <1>1, <1>5, <1>6, <2>1, CallOrders
<1> QED
  BY <1>1, <1>6 DEF Orderly, TriesSeen, Unbroken

(* The loop is asking for the entry it is placing.                         *)
LEMMA AskedIsPlaced ==
  ASSUME Inv, NEW i \in DOMAIN orders, asked["loop"] = i, i # None
  PROVE  WillPlace(todo["loop"], orders[i].ref)
<1>1. todo["loop"] # <<>> /\ Places(Head(todo["loop"]), orders[i].ref)
  BY DEF Inv, Paired, Tasks
<1>2. todo["loop"] \in Seq(Action)
  BY DEF Inv, Types, Tasks
<1>3. 1 \in 1..Len(todo["loop"]) /\ Head(todo["loop"]) = todo["loop"][1]
  BY <1>1, <1>2, TailFacts
<1> QED
  BY <1>1, <1>3 DEF WillPlace

(* A cancel of an entry reaches the only order there is of its reference.  *)
LEMMA CancelOrders ==
  ASSUME Inv, Orderly, NEW task \in Tasks, Cancel(task) PROVE Orderly'
<1> DEFINE ref == Head(todo[task]).ref
           id == t.ids[ref]
<1>1. /\ todo[task] # <<>> /\ asked[task] = None /\ Finished(task)
      /\ todo[task] \in Seq(Action) /\ Head(todo[task]).type = "cancel"
      /\ tries \in [Tasks -> 0..1] /\ tries' = [tries EXCEPT ![task] = 0]
      /\ orders \in Seq(Order) /\ UNCHANGED <<e, now, t, asked, mishaps, rows, missed>>
  BY DEF Cancel, Ready, Next1, Idle, record, Inv, Types
<1>2. ref \in OrderRefs
  BY <1>1, TailFacts DEF Action
<1>3. id # None => id \in DOMAIN orders
  BY <1>2, IdsAre
<1>4. orders' = IF id = None THEN orders ELSE Withdrawn(orders, id)
  BY DEF Cancel, Next1
<1>5. \A i \in DOMAIN orders : i \in Nat /\ i # None
  <2>1. DOMAIN orders = 1..Len(orders) /\ Len(orders) \in Nat
    BY <1>1
  <2> QED
    BY <2>1, OptionalAssumption
<1> HIDE DEF id
<1>6. /\ Withers(orders, orders')
      /\ id # None => orders'[id].state # "working"
  <2>1. CASE id = None
    BY <1>4, <2>1, SameWithers
  <2>2. CASE id # None /\ orders[id].state # "working"
    BY <1>4, <2>2, SameWithers DEF Withdrawn
  <2>3. CASE id # None /\ orders[id].state = "working"
    <3> DEFINE o == [orders[id] EXCEPT !.state = "cancelled"]
    <3>1. orders[id] \in Order /\ id \in DOMAIN orders
      BY <1>1, <1>3, <2>3
    <3>2. o.ref = orders[id].ref /\ o.state = "cancelled"
      BY <3>1 DEF Order
    <3>3. orders' = [orders EXCEPT ![id] = o]
      BY <1>4, <2>3 DEF Withdrawn
    <3> HIDE DEF o
    <3> QED
      BY <1>1, <3>1, <3>2, <3>3 DEF Withers
  <2> QED
    BY <2>1, <2>2, <2>3
<1>7. ASSUME Unbroken PROVE Tidy'
  <2>1. ASSUME NEW r \in EntryRefs, Cancels(Head(todo[task]), r),
               task = "loop" \/ ~WillPlace(todo["loop"], r),
               NEW i \in DOMAIN orders', orders'[i].ref = r
        PROVE  orders'[i].state # "working"
    <3>1. i \in DOMAIN orders /\ orders[i].ref = r /\ i # None
      BY <1>5, <1>6, <2>1 DEF Withers
    <3>2. Tracked(t, orders, todo["loop"], asked["loop"], r) /\ r = ref
      BY <1>7, <2>1 DEF Orderly, Tidy, EntriesKept, Cancels
    <3>3. asked["loop"] = i \/ t.ids[r] = i
      BY <3>1, <3>2 DEF Tracked
    <3>4. asked["loop"] # i
      BY <1>1, <2>1, <3>1, AskedIsPlaced
    <3>5. id = i
      BY <3>2, <3>3, <3>4 DEF id
    <3> QED
      BY <1>6, <3>1, <3>5
  <2>2. \A r \in EntryRefs :
          /\ Cancels(Head(todo[task]), r)
          /\ task = "loop" \/ ~WillPlace(todo["loop"], r)
          => ~Standing(orders', r)
    BY <2>1 DEF Standing
  <2> QED
    BY <1>1, <1>6, <1>7, <2>2, CallOrders
<1>8. TriesSeen'
  BY <1>1 DEF Orderly, TriesSeen
<1> QED
  BY <1>1, <1>7, <1>8 DEF Orderly, Unbroken

(* A cancel fails once at most, and is then made good.                     *)
LEMMA CancelFailsOrders ==
  ASSUME Inv, Orderly, NEW task \in Tasks, CancelFails(task) PROVE Orderly'
<1>1. /\ "cancel_fails" \notin mishaps /\ mishaps' = mishaps \cup {"cancel_fails"}
      /\ tries \in [Tasks -> 0..1] /\ Befalls("cancel_fails") /\ "cancel_fails" \in Mishaps
  BY DEF CancelFails, Befalls, Inv, Types, Mishaps
<1>2. TriesSeen'
  BY <1>1 DEF TriesSeen
<1>3. tries[task] + 1 < 2
  BY <1>1 DEF Orderly, TriesSeen
<1>4. UNCHANGED <<e, now, t, asked, todo, orders, rows, missed>>
  BY <1>3 DEF CancelFails, TryAgain, exchange, record
<1>5. ASSUME Unbroken' PROVE Unbroken
  BY <1>1, <1>4, <1>5, UnbrokenBefore
<1> QED
  BY <1>2, <1>4, <1>5 DEF Orderly, Tidy

(* An entry reaches the exchange: its id is the one asked for.             *)
LEMMA SendPlaceOrders ==
  ASSUME Inv, Orderly, NEW task \in Tasks, SendPlace(task) PROVE Orderly'
<1> DEFINE a == Head(todo[task])
           o == [ref |-> a.ref, side |-> a.side, price |-> a.price, qty |-> a.qty,
                 state |-> "working"]
<1>1. /\ todo[task] # <<>> /\ asked[task] = None /\ todo[task] \in Seq(Action)
      /\ a.type = "place" /\ orders \in Seq(Order)
      /\ asked \in [Tasks -> Nat \cup {None}] /\ todo \in [Tasks -> Seq(Action)]
      /\ orders' = Append(orders, o) /\ asked' = [asked EXCEPT ![task] = Len(orders')]
      /\ UNCHANGED <<e, now, t, todo, tries, mishaps, rows, missed>>
  BY DEF SendPlace, Ready, Next1, Idle, record, Inv, Types
<1>2. a \in Action /\ 1 \in 1..Len(todo[task]) /\ a = todo[task][1]
  BY <1>1, TailFacts
<1>3. CallSound(e, orders, task, a)
  BY <1>2 DEF Inv, Brackets
<1> HIDE DEF a
<1>4. o \in Order /\ o.ref = a.ref
  BY <1>1, <1>2 DEF Order, Action
<1> HIDE DEF o
<1>5. Len(orders') = Len(orders) + 1
  BY <1>1, <1>4, AppendIs
<1>6. ASSUME Unbroken PROVE Tidy'
  <2>1. /\ EntriesKept(e, t, orders, todo["loop"], asked["loop"])
        /\ EntriesLeave(e, orders, todo["loop"], Withdrawing(todo), missed) /\ Closed(e, now)
    BY <1>6 DEF Orderly, Tidy
  <2>2. CASE task = "loop"
    <3>1. o.ref \in EntryRefs
      BY <1>1, <1>3, <1>4, <2>2, RefsAre DEF CallSound
    <3>2. Places(Head(todo["loop"]), o.ref)
      BY <1>1, <1>4, <2>2 DEF Places, a
    <3>3. EntriesKept(e, t, Append(orders, o), todo["loop"], Len(orders) + 1)
      BY <1>1, <1>4, <2>1, <2>2, <3>1, <3>2, EntryAppended
    <3>4. asked'["loop"] = Len(orders) + 1
      BY <1>1, <1>5, <2>2
    <3>5. WillPlace(todo["loop"], o.ref)
      BY <1>1, <1>2, <1>4, <2>2 DEF WillPlace, Places
    <3>6. EntriesLeave(e, Append(orders, o), todo["loop"], Withdrawing(todo), missed)
      BY <1>1, <1>4, <2>1, <3>5, AppendedLeave
    <3> QED
      BY <1>1, <2>1, <3>3, <3>4, <3>6 DEF Tidy
  <2>3. CASE task # "loop"
    <3>1. o.ref \notin EntryRefs
      BY <1>1, <1>3, <1>4, <2>3, RefsAre DEF CallSound
    <3>2. asked'["loop"] = asked["loop"]
      BY <1>1, <2>3 DEF Tasks
    <3>3. EntriesKept(e, t, Append(orders, o), todo["loop"], asked["loop"])
      BY <1>1, <1>4, <2>1, <3>1, OtherAppended
    <3>4. EntriesLeave(e, Append(orders, o), todo["loop"], Withdrawing(todo), missed)
      BY <1>1, <1>4, <2>1, <3>1, AppendedLeave
    <3> QED
      BY <1>1, <2>1, <3>2, <3>3, <3>4 DEF Tidy
  <2> QED
    BY <2>2, <2>3
<1> QED
  BY <1>1, <1>6 DEF Orderly, TriesSeen, Unbroken

(* The answer tells the broker the id of the entry.                        *)
LEMMA PlaceAnsweredOrders ==
  ASSUME Inv, Orderly, NEW task \in Tasks, PlaceAnswered(task) PROVE Orderly'
<1> DEFINE a == Head(todo[task])
<1>1. /\ asked[task] # None /\ todo[task] # <<>> /\ todo[task] \in Seq(Action)
      /\ asked[task] \in DOMAIN orders /\ Places(a, orders[asked[task]].ref)
      /\ asked \in [Tasks -> Nat \cup {None}] /\ t \in Broker /\ Finished(task)
      /\ t' = Placed(t, a.ref, asked[task]) /\ asked' = [asked EXCEPT ![task] = None]
      /\ UNCHANGED <<e, now, tries, orders, mishaps, rows, missed>>
  BY DEF PlaceAnswered, Next1, exchange, record, Inv, Types, Paired
<1>2. a.type = "place" /\ a.ref = orders[asked[task]].ref /\ a.ref \in OrderRefs
  BY <1>1, TailFacts DEF Places, Action
<1>3. CallSound(e, orders, task, a)
  <2>1. 1 \in 1..Len(todo[task]) /\ a = todo[task][1]
    BY <1>1, TailFacts
  <2> QED
    BY <2>1 DEF Inv, Brackets
<1> HIDE DEF a
<1>4. t'.ids = [t.ids EXCEPT ![a.ref] = asked[task]]
  BY <1>1 DEF Placed, Broker
<1>5. t.ids \in [OrderRefs -> Nat \cup {None}]
  BY <1>1 DEF Broker
<1>6. \A ref \in OrderRefs : t'.ids[ref] = IF ref = a.ref THEN asked[task] ELSE t.ids[ref]
  BY <1>2, <1>4, <1>5
<1>7. ASSUME Unbroken PROVE Tidy'
  <2>1. CASE task = "loop"
    <3>1. Withers(orders, orders')
      BY <1>1, SameWithers
    <3>2. ASSUME NEW id \in DOMAIN orders, orders[id].ref \in EntryRefs,
                 asked["loop"] = id \/ t.ids[orders[id].ref] = id
          PROVE  t'.ids[orders[id].ref] = id
      <4> DEFINE r == orders[id].ref
      <4>1. Tracked(t, orders, todo["loop"], asked["loop"], r)
        BY <1>7, <3>2 DEF Orderly, Tidy, EntriesKept
      <4>2. r \in OrderRefs
        BY <3>2, RefsAre
      <4>3. CASE r = a.ref
        <5>1. asked["loop"] = id
          BY <1>1, <1>2, <2>1, <4>1, <4>3 DEF Tracked
        <5> QED
          BY <1>6, <2>1, <4>2, <4>3, <5>1
      <4>4. CASE r # a.ref
        <5>1. asked["loop"] # id
          BY <1>2, <2>1, <4>4
        <5> QED
          BY <1>6, <3>2, <4>2, <4>4, <5>1
      <4> QED
        BY <4>3, <4>4
    <3>3. Knows(orders, t, asked["loop"], t', asked'["loop"])
      BY <3>2 DEF Knows
    <3>4. \A ref : ~Cancels(Head(todo["loop"]), ref)
      BY <1>2, <2>1 DEF Cancels, a
    <3> QED
      BY <1>1, <1>7, <2>1, <3>1, <3>3, <3>4, LoopCallOrders
  <2>2. CASE task # "loop"
    <3>1. a.ref = "stop_loss"
      BY <1>2, <1>3, <2>2 DEF CallSound
    <3>2. \A ref \in EntryRefs : t'.ids[ref] = t.ids[ref]
      BY <1>6, <3>1, RefsAre
    <3>3. \A ref : ~Cancels(Head(todo[task]), ref)
      BY <1>2 DEF Cancels, a
    <3>4. Withers(orders, orders') /\ asked'["loop"] = asked["loop"]
      BY <1>1, <2>2, SameWithers DEF Tasks
    <3> QED
      BY <1>1, <1>7, <2>2, <3>2, <3>3, <3>4, ElsewhereCancels, ElsewhereOrders
  <2> QED
    BY <2>1, <2>2
<1> QED
  BY <1>1, <1>7 DEF Orderly, TriesSeen, Unbroken

(* A fill takes an order from the working ones.                            *)
LEMMA ExchangeFillOrders == ASSUME Inv, Orderly, ExchangeFill PROVE Orderly'
<1>1. PICK id \in DOMAIN orders :
        /\ orders[id].state = "working"
        /\ orders' = [orders EXCEPT ![id].state = "filled"]
        /\ UNCHANGED <<e, now, t, todo, asked, tries, mishaps, rows, missed>>
  BY DEF ExchangeFill, record
<1> DEFINE o == [orders[id] EXCEPT !.state = "filled"]
<1>2. orders \in Seq(Order) /\ orders[id] \in Order
  BY DEF Inv, Types
<1>3. o.ref = orders[id].ref /\ orders' = [orders EXCEPT ![id] = o]
  BY <1>1, <1>2 DEF Order
<1> HIDE DEF o
<1>4. Withers(orders, orders')
  BY <1>1, <1>2, <1>3 DEF Withers
<1>5. ASSUME Unbroken PROVE Tidy'
  BY <1>1, <1>4, <1>5, ElsewhereOrders
<1> QED
  BY <1>1, <1>5 DEF Orderly, TriesSeen, Unbroken

(* What breaks such a day.                                                 *)
LEMMA BrokenOrders ==
  ASSUME Inv, Orderly, Restart \/ \E task \in Tasks : CallRaises(task) \/ RowFails(task)
  PROVE  Orderly'
<1>1. CASE Restart
  <2>1. ~Unbroken' /\ tries' = [task \in Tasks |-> 0]
    BY <1>1 DEF Restart, Befalls, Unbroken
  <2> QED
    BY <2>1 DEF Orderly, TriesSeen
<1>2. ASSUME NEW task \in Tasks, CallRaises(task) PROVE Orderly'
  <2>1. ~Unbroken' /\ tries' = tries /\ mishaps \subseteq mishaps'
    BY <1>2 DEF CallRaises, Aborted, Befalls, Unbroken
  <2> QED
    BY <2>1 DEF Orderly, TriesSeen
<1>3. ASSUME NEW task \in Tasks, RowFails(task) PROVE Orderly'
  <2>1. rows \in Nat
    BY LiveAssumption DEF Inv, Types
  <2>2. ~Unbroken' /\ tries' = tries /\ mishaps' = mishaps
    BY <1>3, <2>1 DEF RowFails, Aborted, Unbroken
  <2> QED
    BY <2>2 DEF Orderly, TriesSeen
<1> QED
  BY <1>1, <1>2, <1>3

-----------------------------------------------------------------------------
(* The handlers keep the entries in order.                                 *)

(* A turn of the loop.                                                     *)
LEMMA LoopTurnOrders ==
  ASSUME Inv, Orderly, todo["loop"] = <<>>, NEW m, now' = m, NEW y, EngineSound(y),
         Handled("loop", y), UNCHANGED <<t, asked, tries, orders, mishaps, rows>>,
         \/ Manages(Entered, e, y) /\ (m >= HardClose /\ y.placed => y.canceled)
         \/ orders = <<>> /\ y.sink = <<>> /\ ~y.orFinal
  PROVE  Orderly'
<1>1. e' = [y EXCEPT !.sink = <<>>] /\ todo' = [todo EXCEPT !["loop"] = y.sink]
      /\ y \in Engine /\ todo \in [Tasks -> Seq(Action)] /\ missed \subseteq missed'
  BY DEF Handled, EngineSound, Inv, Types
<1>2. e'.placed = y.placed /\ e'.canceled = y.canceled
  BY <1>1 DEF Engine
<1>3. todo'["loop"] = y.sink /\ Withdrawing(todo') = Withdrawing(todo)
  BY <1>1 DEF Tasks, Withdrawing
<1>4. PICK f, N, W : f = e' /\ N = missed' /\ W = Withdrawing(todo)
  OBVIOUS
<1>5. ASSUME Unbroken
      PROVE  /\ EntriesKept(f, t, orders, y.sink, asked["loop"])
             /\ EntriesLeave(f, orders, y.sink, W, N)
             /\ (m >= HardClose /\ y.placed => y.canceled)
  <2>1. CASE Manages(Entered, e, y) /\ (m >= HardClose /\ y.placed => y.canceled)
    <3>1. /\ EntriesKept(e, t, orders, <<>>, asked["loop"])
          /\ EntriesLeave(e, orders, <<>>, W, missed)
      BY <1>4, <1>5 DEF Orderly, Tidy
    <3> QED
      BY <1>1, <1>2, <1>4, <2>1, <3>1, LoopAnswers
  <2>2. CASE orders = <<>> /\ y.sink = <<>> /\ ~y.orFinal
    <3>1. DOMAIN orders = {} /\ Len(y.sink) = 0
      BY <2>2
    <3>2. ~y.placed /\ ~y.canceled
      BY <2>2 DEF EngineSound, DaySound
    <3>3. \A ref : ~WillPlace(y.sink, ref)
      BY <3>1 DEF WillPlace
    <3> QED
      BY <1>2, <1>4, <3>1, <3>2, <3>3
         DEF EntriesKept, EntriesLeave, Armed, PlacedOnce, Tracked
  <2> QED
    BY <2>1, <2>2
<1>6. ASSUME Unbroken PROVE Tidy'
  BY <1>2, <1>3, <1>4, <1>5, <1>6 DEF Closed, Tidy
<1> QED
  BY <1>6 DEF Orderly, TriesSeen, Unbroken

(* A bar: the first one after the range may place, one after the close must *)
(* cancel.                                                                 *)
LEMMA BarOrders == ASSUME Inv, Orderly, Bar PROVE Orderly'
<1>1. PICK m \in Times, candle \in Candles :
        \E shape \in IF m < OrEnd THEN RangeShapes ELSE BarShapes :
          LET bar == [time |-> m, high |-> shape.high, low |-> shape.low,
                      close |-> shape.close]
          IN  Handled("loop", Eng!OnBar(e, bar, candle)) /\ now' = m
  BY DEF Bar
<1>2. PICK bar :
        /\ \E shape \in RangeShapes \cup BarShapes :
             bar = [time |-> m, high |-> shape.high, low |-> shape.low, close |-> shape.close]
        /\ Handled("loop", Eng!OnBar(e, bar, candle)) /\ now' = m
  BY <1>1
<1>3. PICK y : y = Eng!OnBar(e, bar, candle)
  OBVIOUS
<1>4. bar.time = m /\ bar.close \in Int /\ bar.high \in Int /\ bar.low \in Int
  BY <1>2, LiveAssumption
<1>5. m \in Int /\ now \in Int /\ now <= m
  BY SessionAssumption, LiveAssumption DEF Times, Inv, Types
<1>6. Known(candle)
  BY LiveAssumption DEF Known
<1>7. /\ todo["loop"] = <<>> /\ UNCHANGED <<t, asked, tries, orders, mishaps, rows>>
  BY DEF Bar, Idle, exchange
<1>8. CASE m < OrEnd
  <2>1. EngineSound(e) /\ e.sink = <<>> /\ e.pos = None /\ ~e.orFinal /\ orders = <<>>
    BY <1>5, <1>8, SessionAssumption, EarlyIsQuiet DEF Inv, Types, Early
  <2>2. EngineSound(y) /\ y.sink = <<>> /\ ~y.orFinal
    BY <1>3, <1>4, <1>5, <1>8, <2>1, EarlyBar
  <2> QED
    BY <1>2, <1>3, <1>7, <2>1, <2>2, LoopTurnOrders
<1>9. CASE ~(m < OrEnd)
  <2>1. m >= OrEnd
    BY <1>5, <1>9, SessionAssumption
  <2>2. Manages(Entered, e, e) /\ Balanced(e, e) /\ e.sink = <<>>
    BY HandlerMayBegin DEF Inv, Types
  <2>3. Manages(Entered, e, y) /\ (m >= HardClose /\ y.placed => y.canceled)
    BY <1>3, <1>4, <1>5, <1>6, <2>1, <2>2, OnBarManages
  <2>4. EngineSound(y)
    BY <2>3 DEF Manages
  <2> QED
    BY <1>2, <1>3, <1>7, <2>3, <2>4, LoopTurnOrders
<1> QED
  BY <1>8, <1>9

(* The clock: from the hard close on, the entries are cancelled.           *)
LEMMA WallClockOrders == ASSUME Inv, Orderly, WallClock PROVE Orderly'
<1>1. PICK m \in Times : Handled("loop", Eng!OnWallClock(e, m)) /\ now' = m
  BY DEF WallClock
<1>2. PICK y : y = Eng!OnWallClock(e, m)
  OBVIOUS
<1>3. m \in Int
  BY SessionAssumption, LiveAssumption DEF Times, Inv, Types
<1>4. Leads(Entered, e, e, y) /\ (m >= HardClose /\ y.placed => y.canceled)
  BY <1>2, <1>3, HandlerMayBegin, CheckTimeBasedActionsLeads DEF Eng!OnWallClock
<1>5. Manages(Entered, e, y) /\ EngineSound(y)
  BY <1>4 DEF Leads, Manages
<1>6. /\ todo["loop"] = <<>> /\ UNCHANGED <<t, asked, tries, orders, mishaps, rows>>
  BY DEF WallClock, Idle, exchange
<1> QED
  BY <1>1, <1>2, <1>4, <1>5, <1>6, LoopTurnOrders

(* A handler that withdraws the entries will cancel both of them.          *)
Withdraws(o, y) ==
  \/ y.canceled = o.canceled
  \/ y.canceled /\ \A ref \in EntryRefs : WillCancel(y.sink, ref)

(* So will every handler that only manages what there is.                  *)
LEMMA ManagedWithdraws ==
  ASSUME NEW B, NEW o, NEW x, o.canceled = x.canceled, NEW y, Manages(B, o, y)
  PROVE  Withdraws(x, y)
<1>1. o.canceled \in BOOLEAN /\ y.canceled \in BOOLEAN
  BY DEF Manages, EngineSound, Engine
<1> QED
  BY <1>1 DEF Manages, Withdraws

(* A fill.                                                                 *)
LEMMA FillWithdraws ==
  ASSUME Inv, NEW id \in DOMAIN orders, orders[id].state = "filled",
         NEW fill, fill.ref = orders[id].ref, fill.qty = orders[id].qty, fill.price \in Int,
         NEW y, y = Eng!OnFill(e, fill)
  PROVE  Withdraws(e, y)
<1>1. /\ EngineSound(e) /\ e \in Engine /\ e.sink = <<>> /\ orders \in Seq(Order)
      /\ Manages(Entered, e, e)
  BY HandlerMayBegin DEF Inv, Types, EngineSound
<1>2. orders[id] \in Order
  BY <1>1
<1>3. fill.ref \in OrderRefs /\ fill.qty \in Nat
  BY <1>2 DEF Order
<1>4. CASE fill.ref \in EntryRefs /\ e.pos # None
  <2>1. fill.qty \in Entered
    BY <1>4 DEF Entered, FilledEntries
  <2>2. y = Eng!CleanUpRacingEntry(e, fill)
    BY <1>3, <1>4, OnFillIs
  <2>3. Manages(Entered, e, y)
    BY <1>1, <1>3, <1>4, <2>1, <2>2, CleanUpRacingEntryManages
  <2> QED
    BY <2>3, ManagedWithdraws
<1>5. CASE fill.ref \in EntryRefs /\ e.pos = None
  <2>1. Bracket(e, orders[id])
    BY <1>5 DEF Inv, Brackets
  <2>2. y = Eng!HandleEntryFill(e, fill)
    BY <1>3, <1>5, OnFillIs
  <2>3. y.canceled = e.canceled
    BY <1>1, <1>5, <2>1, <2>2, HandleEntryFillIs DEF Bracket
  <2> QED
    BY <2>3 DEF Withdraws
<1>6. CASE fill.ref = "stop_loss" /\ e.pos # None
  <2>1. y = Eng!HandleStopFill(e, fill)
    BY <1>3, <1>6, OnFillIs
  <2>2. PICK u, w : /\ EngineSound(u) /\ u.sink = <<>> /\ u.pos = None
                    /\ SameRange(e, u) /\ u.canceled = e.canceled /\ u.halted = e.halted
                    /\ \A B \in SUBSET Nat : Leads(B, u, u, w)
                    /\ w.pos = None /\ w.canceled = e.canceled /\ w.halted = e.halted
                    /\ Eng!HandleStopFill(e, fill) = Eng!CheckDailyLossLimit(w)
    BY <1>1, <1>3, <1>6, HandleStopFillIs
  <2>3. Entered \in SUBSET Nat
    BY <1>1 DEF Manages
  <2>4. Manages(Entered, u, w)
    BY <2>2, <2>3 DEF Leads
  <2>5. Manages(Entered, u, y)
    BY <2>1, <2>2, <2>4, CheckDailyLossLimitLeads DEF Leads
  <2> QED
    BY <2>2, <2>5, ManagedWithdraws
<1>7. CASE fill.ref = "stop_loss" /\ e.pos = None
  <2>1. y = e
    BY <1>1, <1>3, <1>7, OnFillIs, EmitTold
  <2> QED
    BY <2>1 DEF Withdraws
<1> QED
  BY <1>3, <1>4, <1>5, <1>6, <1>7, OnFillIs

(* A handler of the reader or of the operator leaves the loop and its      *)
(* calls alone.  If it withdraws the entries it is going to cancel them,   *)
(* and those that the loop is placing are noted.                           *)
LEMMA HandlerOrders ==
  ASSUME Inv, Orderly, Unbroken, NEW task \in Tasks, task # "loop", todo[task] = <<>>,
         NEW y, EngineSound(y), SameRange(e, y), Handled(task, y), Withdraws(e, y),
         UNCHANGED <<now, asked, orders>>, t'.ids = t.ids
  PROVE  Tidy'
<1>1. /\ e' = [y EXCEPT !.sink = <<>>] /\ todo' = [todo EXCEPT ![task] = y.sink]
      /\ y \in Engine /\ todo \in [Tasks -> Seq(Action)]
      /\ missed' = IF y.canceled /\ ~e.canceled THEN missed \cup BeingPlaced ELSE missed
  BY DEF Handled, EngineSound, Inv, Types
<1>2. e'.placed = e.placed /\ e'.canceled = y.canceled
  BY <1>1 DEF Engine, SameRange
<1>3. /\ todo'["loop"] = todo["loop"] /\ todo'[task] = y.sink
      /\ \A other \in Tasks \ {task} : todo'[other] = todo[other]
  BY <1>1
<1>4. PICK f, b, q, W, V, N : /\ f = e' /\ b = t' /\ q = todo["loop"] /\ N = missed'
                              /\ W = Withdrawing(todo) /\ V = Withdrawing(todo')
  OBVIOUS
<1>5. EntriesKept(e, t, orders, q, asked["loop"]) /\ Closed(e, now)
      /\ EntriesLeave(e, orders, q, W, missed)
  BY <1>4 DEF Orderly, Tidy
<1>6. EntriesKept(f, b, orders, q, asked["loop"])
  BY <1>2, <1>4, <1>5, SameWithers, WithersKept
<1>7. EntriesLeave(f, orders, q, V, N)
  <2>1. SUFFICES ASSUME y.canceled, NEW ref \in EntryRefs \ N PROVE Gone(orders, q, V, ref)
    BY <1>2, <1>4 DEF EntriesLeave
  <2>2. CASE e.canceled
    <3>1. Gone(orders, q, W, ref)
      BY <1>1, <1>4, <1>5, <2>1, <2>2 DEF EntriesLeave
    <3>2. ref \in W => ref \in V
      <4> SUFFICES ASSUME ref \in W PROVE ref \in V
        OBVIOUS
      <4>1. PICK other \in Tasks \ {"loop"} : WillCancel(todo[other], ref)
        BY <1>4 DEF Withdrawing
      <4>2. other # task
        <5>1. ~WillCancel(<<>>, ref)
          BY DEF WillCancel
        <5> QED
          BY <4>1, <5>1
      <4> QED
        BY <1>3, <1>4, <2>1, <4>1, <4>2, RefsAre DEF Withdrawing
    <3> QED
      BY <3>1, <3>2 DEF Gone
  <2>3. CASE ~e.canceled
    <3>1. WillCancel(y.sink, ref)
      BY <2>1, <2>3 DEF Withdraws
    <3>2. ref \in V
      BY <1>3, <1>4, <2>1, <3>1, RefsAre DEF Withdrawing
    <3>3. ~WillPlace(q, ref)
      <4>1. ref \notin BeingPlaced
        BY <1>1, <1>4, <2>1, <2>3
      <4>2. q \in Seq(Action) /\ DOMAIN q = 1..Len(q)
        BY <1>1, <1>4 DEF Tasks
      <4> QED
        BY <1>4, <2>1, <4>1, <4>2, RefsAre DEF BeingPlaced, WillPlace, Places
    <3> QED
      BY <3>2, <3>3 DEF Gone
  <2> QED
    BY <2>2, <2>3
<1>8. Closed(f, now)
  BY <1>2, <1>4, <1>5 DEF Closed, Withdraws
<1> QED
  BY <1>3, <1>4, <1>6, <1>7, <1>8 DEF Tidy

(* A frame leaves the loop and its calls alone.                            *)
LEMMA ReadFrameOrders == ASSUME Inv, Orderly, ReadFrame PROVE Orderly'
<1>1. PICK frame, ref : frame = Head(frames) /\ ref = RefOf(t, frame.id)
  OBVIOUS
<1>2. /\ frames # <<>> /\ frames \in Seq(Frame) /\ todo["reader"] = <<>>
      /\ UNCHANGED <<now, asked, tries, orders, mishaps, rows>>
  BY DEF ReadFrame, Idle, Inv, Types
<1>3. 1 \in DOMAIN frames /\ frame = frames[1] /\ frame \in Frame
  BY <1>1, <1>2, TailIs
<1>4. CASE ref = None
  <2>1. UNCHANGED <<e, t, todo, missed>>
    BY <1>1, <1>4 DEF ReadFrame
  <2> QED
    BY <1>2, <2>1 DEF Orderly, TriesSeen, Unbroken, Tidy
<1>5. CASE ref # None
  <2> DEFINE id == frame.id
  <2>1. id \in DOMAIN orders /\ ref = orders[id].ref
    BY <1>1, <1>5, RefOfIs DEF Inv
  <2>2. orders[id] \in Order /\ orders \in Seq(Order) /\ t \in Broker
    BY <2>1 DEF Inv, Types
  <2>3. ref \in OrderRefs
    BY <2>1, <2>2 DEF Order
  <2>4. \E y : /\ EngineSound(y) /\ SameRange(e, y) /\ Handled("reader", y)
               /\ Withdraws(e, y) /\ t'.ids = t.ids
    <3>1. CASE frame.type = "fill"
      <4>1. PICK fill, y : /\ fill = [ref |-> ref, price |-> frame.price, qty |-> frame.qty]
                           /\ y = Eng!OnFill(e, fill)
        OBVIOUS
      <4>2. Handled("reader", y) /\ t' = TrackFill(t, ref, frame.qty)
        BY <1>1, <1>5, <3>1, <4>1 DEF ReadFrame
      <4>3. /\ orders[id].state = "filled" /\ frame.qty = orders[id].qty
            /\ frame.price \in Int /\ frame.qty \in Nat
        BY <1>3, <3>1 DEF Inv, FramesTrue, Frame
      <4>4. fill.ref = orders[id].ref /\ fill.qty = orders[id].qty /\ fill.price \in Int
        BY <2>1, <4>1, <4>3
      <4> HIDE DEF id
      <4>5. EngineSound(y) /\ SameRange(e, y)
        BY <2>1, <4>1, <4>3, <4>4, FillAnswers DEF Answers
      <4>6. Withdraws(e, y)
        BY <2>1, <4>1, <4>3, <4>4, FillWithdraws
      <4>7. t'.ids = t.ids
        BY <2>2, <2>3, <4>2, <4>3, TrackFillIs
      <4> QED
        BY <4>2, <4>5, <4>6, <4>7
    <3>2. CASE frame.type # "fill"
      <4>1. PICK y : y = Eng!OnOrderWorking(e, ref)
        OBVIOUS
      <4>2. Handled("reader", y) /\ t' = t
        BY <1>1, <1>5, <3>2, <4>1 DEF ReadFrame
      <4>3. Leads(Entered, e, e, y) /\ y.canceled = e.canceled
        BY <2>3, <4>1, HandlerMayBegin, OnOrderWorkingLeads
      <4> QED
        BY <4>2, <4>3 DEF Leads, Manages, Withdraws
    <3> QED
      BY <3>1, <3>2
  <2>5. PICK y : /\ EngineSound(y) /\ SameRange(e, y) /\ Handled("reader", y)
                 /\ Withdraws(e, y) /\ t'.ids = t.ids
    BY <2>4
  <2>6. ASSUME Unbroken PROVE Tidy'
    BY <1>2, <2>5, <2>6, HandlerOrders DEF Tasks
  <2> QED
    BY <1>2, <2>6 DEF Orderly, TriesSeen, Unbroken
<1> QED
  BY <1>4, <1>5

(* /flatten withdraws them, if there is a position.                        *)
LEMMA FlattenOrders == ASSUME Inv, Orderly, Flatten PROVE Orderly'
<1>1. /\ todo["operator"] = <<>> /\ Befalls("flatten") /\ "flatten" \in Mishaps
      /\ UNCHANGED <<now, t, asked, tries, orders, rows>>
  BY DEF Flatten, Idle, Mishaps, exchange
<1>2. ASSUME Unbroken' PROVE Tidy'
  <2>1. Unbroken
    BY <1>1, <1>2, UnbrokenBefore
  <2>2. CASE e.pos = None
    <3>1. UNCHANGED <<e, todo, missed>>
      BY <2>2 DEF Flatten
    <3> QED
      BY <1>1, <2>1, <3>1 DEF Orderly, Tidy
  <2>3. CASE e.pos # None
    <3>1. PICK y : y = Eng!ManualFlatten(e)
      OBVIOUS
    <3>2. Handled("operator", y)
      BY <2>3, <3>1 DEF Flatten
    <3>3. Leads(Entered, e, e, y)
      BY <3>1, HandlerMayBegin, ManualFlattenLeads
    <3>4. EngineSound(y) /\ SameRange(e, y) /\ Withdraws(e, y)
      BY <3>3, ManagedWithdraws DEF Leads, Manages
    <3> QED
      BY <1>1, <2>1, <3>2, <3>4, HandlerOrders DEF Tasks
  <2> QED
    BY <2>2, <2>3
<1>3. TriesSeen'
  BY <1>1 DEF Orderly, TriesSeen, Befalls
<1> QED
  BY <1>2, <1>3 DEF Orderly

(* Orderly is an invariant.                                                *)
LEMMA NextOrders == ASSUME Inv, Orderly, [Next]_vars PROVE Orderly'
<1>1. CASE UNCHANGED vars
  BY <1>1 DEF vars, exchange, record, Orderly, TriesSeen, Unbroken, Tidy
<1>2. CASE Bar \/ WallClock \/ ReadFrame \/ Flatten \/ ExchangeFill \/ Restart
  BY <1>2, BarOrders, WallClockOrders, ReadFrameOrders, FlattenOrders, ExchangeFillOrders,
     BrokenOrders
<1>3. ASSUME NEW task \in Tasks, Step(task) PROVE Orderly'
  BY <1>3, SkipPlaceOrders, SendPlaceOrders, PlaceAnsweredOrders, PlaceRejectedOrders,
     CancelOrders, CancelFailsOrders, ModifyOrders, CloseMarketOrders, ExitPrintedOrders,
     BrokenOrders DEF Step
<1> QED
  BY <1>1, <1>2, <1>3 DEF Next

(* Every reachable state is orderly: each entry is placed once under an id the *)
(* broker knows or is being told, a day that withdrew its entries has cancelled *)
(* them or is about to, and the hard close withdraws them.                 *)
THEOREM EntriesStayInOrder == Spec => []Orderly
<1>1. Init => Orderly
  <2> SUFFICES ASSUME Init PROVE Orderly
    OBVIOUS
  <2>1. /\ e = Eng!NewEngine(Eng!FreshDay, Equity, <<>>) /\ orders = <<>>
        /\ todo = [task \in Tasks |-> <<>>] /\ tries = [task \in Tasks |-> 0]
    BY DEF Init
  <2>2. ~e.placed /\ ~e.canceled
    BY <2>1 DEF Eng!NewEngine, Eng!FreshDay
  <2>3. todo["loop"] = <<>> /\ DOMAIN orders = {}
        /\ Len(<<>>) = 0 /\ \A task \in Tasks : tries[task] = 0
    BY <2>1 DEF Tasks
  <2>4. EntriesKept(e, t, orders, todo["loop"], asked["loop"])
    BY <2>2, <2>3 DEF EntriesKept, Armed, PlacedOnce, Tracked, WillPlace
  <2> QED
    BY <2>2, <2>3, <2>4 DEF Orderly, TriesSeen, Tidy, EntriesLeave, Closed
<1>2. Inv /\ Orderly /\ [Next]_vars => Orderly'
  BY NextOrders
<1> QED
  BY <1>1, <1>2, Invariant, PTL DEF Spec

(* What the hard close leaves behind.                                      *)
THEOREM EntriesGone == Spec => []EntriesGoneAtHardClose
<1>1. Inv /\ Orderly => EntriesGoneAtHardClose
  <2> SUFFICES ASSUME Inv, Orderly, Quiet, now >= HardClose, Unbroken,
                      NEW ref \in EntryRefs \ missed, Standing(orders, ref)
               PROVE  FALSE
    BY RefsAre DEF EntriesGoneAtHardClose, Working, Standing
  <2>1. /\ \A task \in Tasks : todo[task] = <<>>
        /\ todo["loop"] = <<>> /\ EntriesKept(e, t, orders, <<>>, asked["loop"])
        /\ EntriesLeave(e, orders, <<>>, Withdrawing(todo), missed) /\ Closed(e, now)
    BY DEF Orderly, Tidy, Quiet, Idle, Tasks
  <2>2. e.placed
    BY <2>1 DEF EntriesKept, Armed, Standing
  <2>3. e.canceled
    BY <2>1, <2>2 DEF Closed
  <2>4. Gone(orders, <<>>, Withdrawing(todo), ref)
    BY <2>1, <2>3 DEF EntriesLeave
  <2>5. ~WillCancel(<<>>, ref)
    BY DEF WillCancel
  <2>6. ref \notin Withdrawing(todo)
    BY <2>1, <2>5 DEF Withdrawing
  <2> QED
    BY <2>4, <2>5, <2>6 DEF Gone
<1> QED
  BY <1>1, Invariant, EntriesStayInOrder, PTL

-----------------------------------------------------------------------------
(* A day with one trade.                                                   *)

(* The engine has been told of its entry: the stop is at the exchange, or  *)
(* the reader is going to place it.                                        *)
Begun(os, q) ==
  \/ \E id \in DOMAIN os : os[id].ref = "stop_loss"
  \/ WillPlace(q, "stop_loss")

(* Calls that bring entries in or take them back, or tell of an exit.      *)
OnlyEntries(q) ==
  \A i \in 1..Len(q) :
    q[i].type = "notify" \/ (q[i].type \in {"place", "cancel"} /\ q[i].ref \in EntryRefs)

(* Until then the account holds what the entry has brought in.             *)
BeforeTrade ==
  /\ e.pos = None /\ t.side = None
  /\ \A task \in Tasks : OnlyEntries(todo[task])
  /\ FilledEntries(orders) = {} => net = 0
  /\ \A id \in FilledEntries(orders) : net = SignedQty(orders[id].side, orders[id].qty)

(* Position p is closed by the stop o.                                     *)
Covers(p, o) == o.side = Opposite(p.side) /\ o.qty >= p.runnerQty

(* The fill of an order is still to be read.                               *)
Told(fs, id) == \E i \in DOMAIN fs : fs[i].type = "fill" /\ fs[i].id = id

(* The stop works at the exchange, or its fill will reach the engine.      *)
StopStands(p, os, fs) ==
  \E id \in DOMAIN os :
    /\ os[id].ref = "stop_loss" /\ Covers(p, os[id])
    /\ os[id].state = "working" \/ Told(fs, id)

(* The stop is going to be placed, and has not been yet.                   *)
StopAhead(p, q, ask) ==
  \E i \in 1..Len(q) :
    Places(q[i], "stop_loss") /\ Covers(p, q[i]) /\ (i = 1 => ask = None)

(* No call takes the position's stop away, or makes it too small.          *)
Harmless(p, q) ==
  \A i \in 1..Len(q) :
    ~Cancels(q[i], "stop_loss") /\ (q[i].type = "modify_qty" => q[i].qty >= p.runnerQty)

(* An open position has its stop, and keeps it.                            *)
Guarded(p, os, fs, td, ask) ==
  /\ \A task \in Tasks : Harmless(p, td[task])
  /\ StopStands(p, os, fs) \/ StopAhead(p, td["reader"], ask)

(* What the account holds is what the engine has and what is still to be   *)
(* closed.                                                                 *)
Total(n) == n["loop"] + n["reader"] + n["operator"]

BooksBalance(d, side, td, m) ==
  \E n \in [Tasks -> Int] :
    /\ \A task \in Tasks : Owes(td[task], n[task])
    /\ m = SignedQty(side, Runner(d) + Total(n))

(* The entry's fill has been read.                                         *)
EntryRead(fs, os) ==
  \A i \in DOMAIN fs : fs[i].type = "fill" => os[fs[i].id].ref \notin EntryRefs

(* The broker knows every stop by name, or is about to be told it: its     *)
(* fill will reach the engine.                                             *)
StopsNamed(b, os, ask) ==
  \A id \in DOMAIN os : os[id].ref = "stop_loss" =>
    ask = id \/ [id |-> id, ref |-> "stop_loss"] \in b.names

(* From the entry's fill on.                                               *)
InTrade ==
  /\ EntryRead(frames, orders) /\ StopsNamed(t, orders, asked["reader"])
  /\ e.pos # None => Guarded(e.pos, orders, frames, todo, asked["reader"])
  /\ \E entry \in FilledEntries(orders) :
       /\ e.pos # None => e.pos.side = orders[entry].side
       /\ ~Filled("stop_loss") =>
            t.side = orders[entry].side /\ BooksBalance(e, t.side, todo, net)

(* Entries at the exchange are on record in the day; the trade has begun   *)
(* when a stop has been asked for, and not before.                         *)
Trade ==
  /\ Armed(orders, todo["loop"]) => e.placed
  /\ Begun(orders, todo["reader"]) => InTrade
  /\ ~Begun(orders, todo["reader"]) => BeforeTrade

(* The invariant behind OpenIsProtected and SettledBooksAgree.             *)
OneTrade == OneEntry => Trade

-----------------------------------------------------------------------------
(* Books.                                                                  *)

(* A list without a close owes nothing.                                    *)
LEMMA OwesNone ==
  ASSUME NEW q \in Seq(Action), \A i \in 1..Len(q) : q[i].type # "close"
  PROVE  Owes(q, 0) /\ \A n : Owes(q, n) => n = 0
<1> DEFINE c == [i \in 1..(Len(q) + 1) |-> 0]
<1>1. Len(q) \in Nat /\ c \in [1..(Len(q) + 1) -> Int]
  OBVIOUS
<1>2. c[1] = 0 /\ c[Len(q) + 1] = 0 /\ \A i \in 1..Len(q) : c[i] = 0 /\ c[i + 1] = 0
  BY <1>1
<1> HIDE DEF c
<1>3. \A i \in 1..Len(q) : c[i] = c[i + 1] + CloseQty(q[i])
  BY <1>2 DEF CloseQty
<1>4. Owes(q, 0)
  BY <1>1, <1>2, <1>3 DEF Owes
<1>5. ASSUME NEW n, Owes(q, n) PROVE n = 0
  <2>1. PICK m \in [1..(Len(q) + 1) -> Int] :
          /\ m[1] = n /\ m[Len(q) + 1] = 0
          /\ \A i \in 1..Len(q) : ~ClosesFrom(q, i) => m[i] = 0
    BY <1>5 DEF Owes
  <2>2. CASE Len(q) = 0
    BY <2>1, <2>2
  <2>3. CASE Len(q) # 0
    <3>1. 1 \in 1..Len(q) /\ ~ClosesFrom(q, 1)
      BY <1>1, <2>3 DEF ClosesFrom
    <3> QED
      BY <2>1, <3>1
  <2> QED
    BY <2>2, <2>3
<1> QED
  BY <1>4, <1>5

(* Contracts closed on the other side are contracts less.                  *)
LEMMA SignedIs ==
  ASSUME NEW side \in Sides, NEW m \in Int, NEW n \in Int
  PROVE  /\ SignedQty(side, m) \in Int /\ SignedQty(side, 0) = 0
         /\ SignedQty(side, m) + SignedQty(Opposite(side), n) = SignedQty(side, m - n)
         /\ Opposite(side) \in Sides
<1>1. \A k \in Int : SignedQty("long", k) = k /\ SignedQty("short", k) = -k
  BY DEF SignedQty
<1>2. Opposite("long") = "short" /\ Opposite("short") = "long"
  BY DEF Opposite
<1>3. 0 \in Int /\ m - n \in Int
  OBVIOUS
<1>4. CASE side = "long"
  BY <1>1, <1>2, <1>3, <1>4 DEF Sides
<1>5. CASE side = "short"
  BY <1>1, <1>2, <1>3, <1>5 DEF Sides
<1> QED
  BY <1>4, <1>5 DEF Sides

(* What the three tasks owe together.                                      *)
LEMMA TotalIs ==
  ASSUME NEW n \in [Tasks -> Int], NEW o \in [Tasks -> Int], NEW task \in Tasks,
         \A other \in Tasks : other # task => o[other] = n[other],
         NEW k \in Int, o[task] = n[task] + k
  PROVE  Total(n) \in Int /\ Total(o) = Total(n) + k
<1>1. PICK a, b, c : a = n["loop"] /\ b = n["reader"] /\ c = n["operator"]
  OBVIOUS
<1>2. a \in Int /\ b \in Int /\ c \in Int
  BY <1>1 DEF Tasks
<1>3. Total(n) = a + b + c
  BY <1>1 DEF Total
<1>4. CASE task = "loop"
  <2>1. o["loop"] = a + k /\ o["reader"] = b /\ o["operator"] = c
    BY <1>1, <1>4 DEF Tasks
  <2> QED
    BY <1>2, <1>3, <2>1 DEF Total
<1>5. CASE task = "reader"
  <2>1. o["loop"] = a /\ o["reader"] = b + k /\ o["operator"] = c
    BY <1>1, <1>5 DEF Tasks
  <2> QED
    BY <1>2, <1>3, <2>1 DEF Total
<1>6. CASE task = "operator"
  <2>1. o["loop"] = a /\ o["reader"] = b /\ o["operator"] = c + k
    BY <1>1, <1>6 DEF Tasks
  <2> QED
    BY <1>2, <1>3, <2>1 DEF Total
<1> QED
  BY <1>4, <1>5, <1>6 DEF Tasks

(* A handler moves contracts from the position to its task's list.         *)
LEMMA HandlerBooks ==
  ASSUME NEW x, EngineSound(x), NEW y, EngineSound(y), Balanced(x, y),
         NEW f, Runner(f) = Runner(y),
         NEW td \in [Tasks -> Seq(Action)], NEW task \in Tasks, td[task] = <<>>,
         NEW side, NEW m, BooksBalance(x, side, td, m)
  PROVE  BooksBalance(f, side, [td EXCEPT ![task] = y.sink], m)
<1>1. PICK n \in [Tasks -> Int] :
        /\ \A other \in Tasks : Owes(td[other], n[other])
        /\ m = SignedQty(side, Runner(x) + Total(n))
  BY DEF BooksBalance
<1>2. PICK k \in Int : Owes(y.sink, k) /\ Runner(x) = Runner(y) + k
  BY DEF Balanced
<1>3. n[task] = 0
  BY <1>1, OwesNothing
<1>4. Runner(x) \in Int /\ Runner(y) \in Int
  BY SamePosition
<1>5. PICK o : o = [n EXCEPT ![task] = k]
  OBVIOUS
<1>6. /\ o \in [Tasks -> Int] /\ o[task] = k /\ o[task] = n[task] + k
      /\ \A other \in Tasks : other # task => o[other] = n[other]
  BY <1>1, <1>2, <1>3, <1>5
<1>7. Total(n) \in Int /\ Total(o) = Total(n) + k
  BY <1>1, <1>2, <1>6, TotalIs
<1>8. Runner(x) + Total(n) = Runner(f) + Total(o)
  BY <1>2, <1>4, <1>7
<1>9. PICK nd : nd = [td EXCEPT ![task] = y.sink]
  OBVIOUS
<1>10. \A other \in Tasks : nd[other] = IF other = task THEN y.sink ELSE td[other]
  BY <1>9
<1>11. \A other \in Tasks : Owes(nd[other], o[other])
  BY <1>1, <1>2, <1>6, <1>10
<1> QED
  BY <1>1, <1>6, <1>8, <1>9, <1>11 DEF BooksBalance

(* A call that is executed: a close moves the account, nothing else does.  *)
LEMMA CallBooks ==
  ASSUME NEW x, EngineSound(x), NEW td \in [Tasks -> Seq(Action)],
         NEW task \in Tasks, td[task] # <<>>, NEW side \in Sides, NEW m \in Int,
         BooksBalance(x, side, td, m)
  PROVE  BooksBalance(x, side, [td EXCEPT ![task] = Tail(td[task])],
                      m + SignedQty(Opposite(side), CloseQty(Head(td[task]))))
<1>1. PICK n \in [Tasks -> Int] :
        /\ \A other \in Tasks : Owes(td[other], n[other])
        /\ m = SignedQty(side, Runner(x) + Total(n))
  BY DEF BooksBalance
<1>2. PICK q : q = td[task]
  OBVIOUS
<1>3. q \in Seq(Action) /\ q # <<>> /\ n[task] \in Int /\ Owes(q, n[task])
  BY <1>1, <1>2
<1>4. PICK k : k = CloseQty(Head(q))
  OBVIOUS
<1>5. Owes(Tail(q), n[task] - k) /\ k \in Int
  BY <1>3, <1>4, OwesRest
<1>6. Runner(x) \in Int
  BY SamePosition
<1>7. PICK o : o = [n EXCEPT ![task] = n[task] - k]
  OBVIOUS
<1>8. /\ o \in [Tasks -> Int] /\ o[task] = n[task] - k /\ o[task] = n[task] + (-k) /\ -k \in Int
      /\ \A other \in Tasks : other # task => o[other] = n[other]
  BY <1>1, <1>3, <1>5, <1>7
<1>9. Total(n) \in Int /\ Total(o) = Total(n) + (-k)
  BY <1>1, <1>8, TotalIs
<1>10. PICK r : r = Runner(x) + Total(n)
  OBVIOUS
<1>11. r \in Int /\ r - k = Runner(x) + Total(o)
  <2>1. PICK i, j, s : i = Runner(x) /\ j = Total(n) /\ s = Total(o)
    OBVIOUS
  <2>2. i \in Int /\ j \in Int /\ k \in Int
    BY <1>5, <1>6, <1>9, <2>1
  <2>3. r = i + j /\ s = j + (-k)
    BY <1>9, <1>10, <2>1
  <2>4. r \in Int /\ r - k = i + s
    BY ONLY <2>2, <2>3
  <2> QED
    BY <2>1, <2>4
<1>12. m + SignedQty(Opposite(side), k) = SignedQty(side, r - k)
  BY <1>1, <1>5, <1>10, <1>11, SignedIs
<1>13. PICK nd : nd = [td EXCEPT ![task] = Tail(q)]
  OBVIOUS
<1>14. \A other \in Tasks : nd[other] = IF other = task THEN Tail(q) ELSE td[other]
  BY <1>13
<1>15. \A other \in Tasks : Owes(nd[other], o[other])
  BY <1>1, <1>5, <1>8, <1>14
<1> QED
  BY <1>2, <1>4, <1>8, <1>11, <1>12, <1>13, <1>15 DEF BooksBalance

-----------------------------------------------------------------------------
(* Handlers.                                                               *)

(* A position stays guarded by what guarded it, whatever a handler makes   *)
(* of it.                                                                  *)
LEMMA HandlerGuards ==
  ASSUME NEW B, NEW x, NEW y, Manages(B, x, y), y.pos # None,
         NEW td \in [Tasks -> Seq(Action)], NEW task \in Tasks, td[task] = <<>>,
         NEW os \in Seq(Order), NEW fs, NEW gs, NEW ask,
         Guarded(x.pos, os, fs, td, ask),
         \A id \in DOMAIN os : os[id].ref = "stop_loss" /\ Told(fs, id) => Told(gs, id)
  PROVE  Guarded(y.pos, os, gs, [td EXCEPT ![task] = y.sink], ask)
<1>1. x.pos # None /\ Kept(x.pos, y.pos) /\ x \in Engine /\ y \in Engine
  BY DEF Manages, Continues, EngineSound
<1>2. x.pos.runnerQty \in Nat /\ y.pos.runnerQty \in Nat
  BY <1>1 DEF Engine, Position
<1>3. y.pos.side = x.pos.side /\ y.pos.runnerQty <= x.pos.runnerQty
  BY <1>1 DEF Kept
<1>4. PICK nd : nd = [td EXCEPT ![task] = y.sink]
  OBVIOUS
<1>5. \A other \in Tasks : nd[other] = IF other = task THEN y.sink ELSE td[other]
  BY <1>4
<1>6. ASSUME NEW k \in Nat, k >= x.pos.runnerQty PROVE k >= y.pos.runnerQty
  <2>1. PICK m, n : m = x.pos.runnerQty /\ n = y.pos.runnerQty
    OBVIOUS
  <2> QED
    BY <1>2, <1>3, <1>6, <2>1
<1>7. ASSUME NEW other \in Tasks PROVE Harmless(y.pos, nd[other])
  <2>1. CASE other = task
    <3>1. \A i \in 1..Len(y.sink) : Allowed(B, x, y, y.sink[i])
      BY DEF Manages
    <3> QED
      BY <1>5, <2>1, <3>1 DEF Harmless, Allowed
  <2>2. CASE other # task
    <3>1. Harmless(x.pos, td[other]) /\ nd[other] = td[other] /\ td[other] \in Seq(Action)
      BY <1>5, <2>2 DEF Guarded
    <3> SUFFICES ASSUME NEW i \in 1..Len(td[other]), td[other][i].type = "modify_qty"
                 PROVE  td[other][i].qty >= y.pos.runnerQty
      BY <3>1 DEF Harmless
    <3>2. td[other][i] \in Action /\ td[other][i].qty >= x.pos.runnerQty
      BY <3>1 DEF Harmless
    <3>3. td[other][i].qty \in Nat
      BY <3>2 DEF Action
    <3> QED
      BY <1>6, <3>2, <3>3
  <2> QED
    BY <2>1, <2>2
<1>8. CASE StopStands(x.pos, os, fs)
  <2>1. PICK id \in DOMAIN os :
          /\ os[id].ref = "stop_loss" /\ Covers(x.pos, os[id])
          /\ os[id].state = "working" \/ Told(fs, id)
    BY <1>8 DEF StopStands
  <2>2. os[id] \in Order
    BY <2>1
  <2>3. os[id].qty \in Nat
    BY <2>2 DEF Order
  <2>4. Covers(y.pos, os[id])
    BY <1>3, <1>6, <2>1, <2>3 DEF Covers
  <2>5. StopStands(y.pos, os, gs)
    BY <2>1, <2>4 DEF StopStands
  <2> QED
    BY <1>4, <1>7, <2>5 DEF Guarded
<1>9. CASE StopAhead(x.pos, td["reader"], ask)
  <2>1. PICK i \in 1..Len(td["reader"]) :
          /\ Places(td["reader"][i], "stop_loss") /\ Covers(x.pos, td["reader"][i])
          /\ i = 1 => ask = None
    BY <1>9 DEF StopAhead
  <2>2. td["reader"] \in Seq(Action) /\ "reader" \in Tasks
    BY DEF Tasks
  <2>3. td["reader"] # <<>>
    BY <2>1, <2>2
  <2>4. nd["reader"] = td["reader"]
    BY <1>5, <2>2, <2>3
  <2>5. td["reader"][i] \in Action /\ td["reader"][i].type = "place"
    BY <2>1, <2>2 DEF Places
  <2>6. td["reader"][i].qty \in Nat
    BY <2>5 DEF Action
  <2>7. Covers(y.pos, td["reader"][i])
    BY <1>3, <1>6, <2>1, <2>6 DEF Covers
  <2>8. StopAhead(y.pos, nd["reader"], ask)
    BY <2>1, <2>4, <2>7 DEF StopAhead
  <2> QED
    BY <1>4, <1>7, <2>8 DEF Guarded
<1> QED
  BY <1>8, <1>9 DEF Guarded

(* A handler that only manages what there is: the entry's fill and the     *)
(* stop's are other cases.                                                 *)
LEMMA HandledTrades ==
  ASSUME Inv, Trade, NEW task \in Tasks, todo[task] = <<>>, NEW y,
         Manages(Entered, e, y), Balanced(e, y), Handled(task, y),
         UNCHANGED <<t, asked, orders, net>>,
         \A j \in DOMAIN frames' : \E i \in DOMAIN frames : frames'[j] = frames[i],
         \A id \in DOMAIN orders :
           orders[id].ref = "stop_loss" /\ Told(frames, id) => Told(frames', id)
  PROVE  Trade'
<1>1. /\ EngineSound(e) /\ EngineSound(y) /\ y \in Engine
      /\ e' = [y EXCEPT !.sink = <<>>] /\ todo' = [todo EXCEPT ![task] = y.sink]
      /\ todo \in [Tasks -> Seq(Action)] /\ orders \in Seq(Order)
  BY DEF Handled, Manages, EngineSound, Inv, Types
<1>2. PICK f, nd : f = e' /\ nd = todo'
  OBVIOUS
<1>3. f.pos = y.pos /\ f.placed = y.placed /\ Runner(f) = Runner(y)
  BY <1>1, <1>2 DEF Engine, Runner
<1>4. \A other \in Tasks : nd[other] = IF other = task THEN y.sink ELSE todo[other]
  BY <1>1, <1>2
<1>5. /\ \A i \in 1..Len(y.sink) : Allowed(Entered, e, y, y.sink[i])
      /\ e.placed => y.placed
      /\ y.pos # None => e.pos # None /\ Kept(e.pos, y.pos)
  BY DEF Manages, Continues
<1>6. ~WillPlace(y.sink, "stop_loss")
  BY <1>5, RefsAre DEF WillPlace, Places, Allowed
<1>7. Begun(orders, nd["reader"]) <=> Begun(orders, todo["reader"])
  <2>1. Len(<<>>) = 0 /\ ~WillPlace(<<>>, "stop_loss") /\ "reader" \in Tasks
    BY DEF WillPlace, Tasks
  <2> QED
    BY <1>4, <1>6, <2>1 DEF Begun
<1>8. Armed(orders, nd["loop"]) => f.placed
  <2>1. CASE task = "loop"
    <3>1. ASSUME NEW ref \in EntryRefs, WillPlace(y.sink, ref) PROVE y.placed
      BY <1>5, <3>1 DEF WillPlace, Places, Allowed
    <3>2. (\E id \in DOMAIN orders : orders[id].ref \in EntryRefs) => e.placed
      BY DEF Trade, Armed
    <3> QED
      BY <1>3, <1>4, <1>5, <2>1, <3>1, <3>2 DEF Armed
  <2>2. CASE task # "loop"
    BY <1>3, <1>4, <1>5, <2>2 DEF Trade, Tasks
  <2> QED
    BY <2>1, <2>2
<1>9. ASSUME ~Begun(orders, todo["reader"])
      PROVE  BeforeTrade'
  <2>1. BeforeTrade
    BY <1>9 DEF Trade
  <2>2. OnlyEntries(y.sink)
    BY <1>5, <2>1 DEF BeforeTrade, Allowed, OnlyEntries
  <2>3. \A other \in Tasks : OnlyEntries(nd[other])
    BY <1>4, <2>1, <2>2 DEF BeforeTrade
  <2>4. f.pos = None
    BY <1>3, <1>5, <2>1 DEF BeforeTrade
  <2> QED
    BY <1>2, <2>1, <2>3, <2>4 DEF BeforeTrade
<1>10. ASSUME Begun(orders, todo["reader"])
       PROVE  InTrade'
  <2>1. InTrade
    BY <1>10 DEF Trade
  <2>2. EntryRead(frames', orders)
    <3> SUFFICES ASSUME NEW j \in DOMAIN frames', frames'[j].type = "fill"
                 PROVE  orders[frames'[j].id].ref \notin EntryRefs
      BY DEF EntryRead
    <3>1. PICK i \in DOMAIN frames : frames'[j] = frames[i]
      OBVIOUS
    <3> QED
      BY <2>1, <3>1 DEF InTrade, EntryRead
  <2>3. ASSUME y.pos # None
        PROVE  Guarded(y.pos, orders, frames', nd, asked["reader"])
    <3>1. Guarded(e.pos, orders, frames, todo, asked["reader"])
      BY <1>5, <2>1, <2>3 DEF InTrade
    <3> QED
      BY <1>1, <1>2, <2>3, <3>1, HandlerGuards
  <2>4. PICK entry \in FilledEntries(orders) :
          /\ e.pos # None => e.pos.side = orders[entry].side
          /\ ~Filled("stop_loss") =>
               t.side = orders[entry].side /\ BooksBalance(e, t.side, todo, net)
    BY <2>1 DEF InTrade
  <2>5. y.pos # None => y.pos.side = orders[entry].side
    BY <1>5, <2>4 DEF Kept
  <2>6. BooksBalance(e, t.side, todo, net) => BooksBalance(f, t.side, nd, net)
    BY <1>1, <1>2, <1>3, HandlerBooks
  <2> QED
    BY <1>2, <1>3, <2>1, <2>2, <2>3, <2>4, <2>5, <2>6 DEF InTrade, Filled
<1> QED
  BY <1>2, <1>7, <1>8, <1>9, <1>10 DEF Trade

-----------------------------------------------------------------------------
(* Calls.                                                                  *)

(* A stop that covers a position still does, and still works.              *)
Holds(p, os, ns) ==
  \A id \in DOMAIN os : os[id].ref = "stop_loss" /\ Covers(p, os[id]) =>
    Covers(p, ns[id]) /\ (os[id].state = "working" => ns[id].state = "working")

(* The first call of a list is done: a stop's placement only with the stop *)
(* at the exchange.                                                        *)
LEMMA CallGuards ==
  ASSUME NEW p, NEW td \in [Tasks -> Seq(Action)], NEW task \in Tasks, td[task] # <<>>,
         NEW os, NEW ns, DOMAIN ns = DOMAIN os, NEW fs, NEW ask, NEW n,
         \A id \in DOMAIN os : ns[id].ref = os[id].ref,
         Guarded(p, os, fs, td, ask), Holds(p, os, ns),
         task = "reader" => n = None, task # "reader" => n = ask,
         task = "reader" /\ Places(Head(td[task]), "stop_loss") => ask # None
  PROVE  Guarded(p, ns, fs, [td EXCEPT ![task] = Tail(td[task])], n)
<1>1. PICK q : q = td[task]
  OBVIOUS
<1>2. /\ q \in Seq(Action) /\ q # <<>> /\ Head(q) = q[1]
      /\ \A i \in 1..Len(Tail(q)) : i + 1 \in 1..Len(q) /\ Tail(q)[i] = q[i + 1]
      /\ Len(q) \in Nat \ {0} /\ Len(Tail(q)) = Len(q) - 1
  BY <1>1, TailFacts
<1>3. PICK nd : nd = [td EXCEPT ![task] = Tail(q)]
  OBVIOUS
<1>4. \A other \in Tasks : nd[other] = IF other = task THEN Tail(q) ELSE td[other]
  BY <1>3
<1>5. ASSUME NEW other \in Tasks PROVE Harmless(p, nd[other])
  <2>1. Harmless(p, td[other])
    BY DEF Guarded
  <2>2. Harmless(p, Tail(q)) \/ other # task
    BY <1>1, <1>2, <2>1 DEF Harmless
  <2> QED
    BY <1>4, <2>1, <2>2
<1>6. CASE StopStands(p, os, fs)
  <2>1. StopStands(p, ns, fs)
    BY <1>6 DEF StopStands, Holds
  <2> QED
    BY <1>1, <1>3, <1>5, <2>1 DEF Guarded
<1>7. CASE StopAhead(p, td["reader"], ask)
  <2>1. PICK i \in 1..Len(td["reader"]) :
          /\ Places(td["reader"][i], "stop_loss") /\ Covers(p, td["reader"][i])
          /\ i = 1 => ask = None
    BY <1>7 DEF StopAhead
  <2>2. StopAhead(p, nd["reader"], n)
    <3>1. CASE task # "reader"
      <4>1. nd["reader"] = td["reader"]
        BY <1>4, <3>1 DEF Tasks
      <4> QED
        BY <2>1, <3>1, <4>1 DEF StopAhead
    <3>2. CASE task = "reader"
      <4>1. i # 1
        BY <1>1, <1>2, <2>1, <3>2
      <4>2. i - 1 \in 1..Len(Tail(q)) /\ (i - 1) + 1 = i
        BY <1>1, <1>2, <2>1, <3>2, <4>1
      <4>3. Tail(q)[i - 1] = q[i]
        BY <1>2, <4>2
      <4>4. nd["reader"] = Tail(q) /\ q = td["reader"]
        BY <1>1, <1>4, <3>2 DEF Tasks
      <4> QED
        BY <2>1, <3>2, <4>2, <4>3, <4>4 DEF StopAhead
    <3> QED
      BY <3>1, <3>2
  <2> QED
    BY <1>1, <1>3, <1>5, <2>2 DEF Guarded
<1> QED
  BY <1>6, <1>7 DEF Guarded

(* A call that is done.                                                    *)
LEMMA CallTrades ==
  ASSUME Inv, Trade, NEW task \in Tasks, todo[task] # <<>>,
         todo' = [todo EXCEPT ![task] = Tail(todo[task])],
         asked' = [asked EXCEPT ![task] = None],
         e' = e, frames' = frames, t'.side = t.side, t.names \subseteq t'.names,
         asked[task] # None =>
           [id |-> asked[task], ref |-> orders[asked[task]].ref] \in t'.names,
         Places(Head(todo[task]), "stop_loss") => asked[task] # None,
         Grown(orders, orders'), DOMAIN orders' = DOMAIN orders,
         FilledEntries(orders') \subseteq FilledEntries(orders),
         e.pos # None /\ Harmless(e.pos, todo[task]) => Holds(e.pos, orders, orders'),
         Head(todo[task]).type # "close" => net' = net,
         Head(todo[task]).type = "close" /\ t.side # None =>
           net' = net + SignedQty(Opposite(t.side), Head(todo[task]).qty)
  PROVE  Trade'
<1>1. /\ todo \in [Tasks -> Seq(Action)] /\ orders \in Seq(Order) /\ orders' \in Seq(Order)
      /\ asked \in [Tasks -> Nat \cup {None}] /\ EngineSound(e) /\ net \in Int
      /\ t.side \in Sides \cup {None}
  BY DEF Inv, Types, Broker, Grown
<1>2. PICK q, nd, ns : q = todo[task] /\ nd = todo' /\ ns = orders'
  OBVIOUS
<1>3. /\ q \in Seq(Action) /\ q # <<>> /\ Head(q) = q[1] /\ 1 \in 1..Len(q)
      /\ \A i \in 1..Len(Tail(q)) : i + 1 \in 1..Len(q) /\ Tail(q)[i] = q[i + 1]
      /\ Len(q) \in Nat \ {0} /\ Len(Tail(q)) = Len(q) - 1 /\ Head(q) \in Action
  BY <1>1, <1>2, TailFacts
<1>4. /\ nd = [todo EXCEPT ![task] = Tail(q)]
      /\ \A other \in Tasks : nd[other] = IF other = task THEN Tail(q) ELSE todo[other]
  BY <1>1, <1>2
<1>5. DOMAIN ns = DOMAIN orders /\ \A id \in DOMAIN orders : ns[id].ref = orders[id].ref
  BY <1>2 DEF Grown
<1>6. \A ref : WillPlace(Tail(q), ref) => WillPlace(q, ref)
  BY <1>3 DEF WillPlace
<1>7. Armed(ns, nd["loop"]) => e.placed
  <2>1. Armed(orders, todo["loop"]) => e.placed
    BY DEF Trade
  <2>2. \A ref : WillPlace(nd["loop"], ref) => WillPlace(todo["loop"], ref)
    BY <1>2, <1>4, <1>6 DEF Tasks
  <2> QED
    BY <1>5, <2>1, <2>2 DEF Armed
<1>8. Begun(ns, nd["reader"]) => Begun(orders, todo["reader"])
  <2>1. WillPlace(nd["reader"], "stop_loss") => WillPlace(todo["reader"], "stop_loss")
    BY <1>2, <1>4, <1>6 DEF Tasks
  <2> QED
    BY <1>5, <2>1 DEF Begun
<1>9. Begun(orders, todo["reader"]) => Begun(ns, nd["reader"])
  <2>1. CASE \E id \in DOMAIN orders : orders[id].ref = "stop_loss"
    BY <1>5, <2>1 DEF Begun
  <2>2. CASE WillPlace(todo["reader"], "stop_loss")
    <3>1. CASE task # "reader"
      <4>1. nd["reader"] = todo["reader"]
        BY <1>4, <3>1 DEF Tasks
      <4> QED
        BY <2>2, <4>1 DEF Begun
    <3>2. CASE task = "reader"
      <4>1. PICK i \in 1..Len(q) : Places(q[i], "stop_loss")
        BY <1>2, <2>2, <3>2 DEF WillPlace
      <4>2. CASE i = 1
        <5>1. asked[task] # None
          BY <1>2, <1>3, <4>1, <4>2
        <5>2. asked[task] \in DOMAIN orders /\ Places(q[1], orders[asked[task]].ref)
          BY <1>2, <1>3, <5>1 DEF Inv, Paired
        <5>3. orders[asked[task]].ref = "stop_loss"
          BY <4>1, <4>2, <5>2 DEF Places
        <5> QED
          BY <1>5, <5>2, <5>3 DEF Begun
      <4>3. CASE i # 1
        <5>1. i - 1 \in 1..Len(Tail(q)) /\ (i - 1) + 1 = i
          BY <1>3, <4>1, <4>3
        <5>2. Tail(q)[i - 1] = q[i]
          BY <1>3, <5>1
        <5>3. nd["reader"] = Tail(q)
          BY <1>4, <3>2 DEF Tasks
        <5> QED
          BY <4>1, <5>1, <5>2, <5>3 DEF Begun, WillPlace
      <4> QED
        BY <4>2, <4>3
    <3> QED
      BY <3>1, <3>2
  <2> QED
    BY <2>1, <2>2 DEF Begun
<1>10. /\ FilledEntries(ns) = FilledEntries(orders)
       /\ \A id \in FilledEntries(orders) : ns[id] = orders[id]
  BY <1>2, GrownBacks
<1>11. ASSUME ~Begun(orders, todo["reader"]) PROVE BeforeTrade'
  <2>1. BeforeTrade
    BY <1>11 DEF Trade
  <2>2. \A other \in Tasks : OnlyEntries(nd[other])
    <3>1. OnlyEntries(q) => OnlyEntries(Tail(q))
      BY <1>3 DEF OnlyEntries
    <3> QED
      BY <1>2, <1>4, <2>1, <3>1 DEF BeforeTrade
  <2>3. net' = net
    <3>1. q[1].type # "close"
      BY <1>2, <1>3, <2>1 DEF BeforeTrade, OnlyEntries
    <3> QED
      BY <1>2, <1>3, <3>1
  <2> QED
    BY <1>2, <1>10, <2>1, <2>2, <2>3 DEF BeforeTrade
<1>12. ASSUME Begun(orders, todo["reader"]) PROVE InTrade'
  <2>1. InTrade
    BY <1>12 DEF Trade
  <2>2. EntryRead(frames, ns)
    <3>1. \A i \in DOMAIN frames : frames[i].id \in DOMAIN orders
      BY DEF Inv, FramesTrue
    <3> QED
      BY <1>5, <2>1, <3>1 DEF InTrade, EntryRead
  <2>3. StopsNamed(t', ns, asked'["reader"])
    <3> SUFFICES ASSUME NEW id \in DOMAIN orders, orders[id].ref = "stop_loss"
                 PROVE  asked'["reader"] = id \/ [id |-> id, ref |-> "stop_loss"] \in t'.names
      BY <1>5 DEF StopsNamed
    <3>1. asked["reader"] = id \/ [id |-> id, ref |-> "stop_loss"] \in t.names
      BY <2>1 DEF InTrade, StopsNamed
    <3>2. CASE asked["reader"] = id
      <4>1. id \in Nat
        BY <1>1
      <4>2. id # None
        BY <4>1, OptionalAssumption
      <4>3. CASE task = "reader"
        BY <3>2, <4>2, <4>3
      <4>4. CASE task # "reader"
        <5>1. asked'["reader"] = asked["reader"]
          BY <1>1, <4>4 DEF Tasks
        <5> QED
          BY <3>2, <5>1
      <4> QED
        BY <4>3, <4>4
    <3> QED
      BY <3>1, <3>2
  <2>4. ASSUME e.pos # None
        PROVE  Guarded(e.pos, ns, frames, nd, asked'["reader"])
    <3>1. Guarded(e.pos, orders, frames, todo, asked["reader"])
      BY <2>1, <2>4 DEF InTrade
    <3>2. Holds(e.pos, orders, ns)
      BY <1>2, <2>4, <3>1 DEF Guarded
    <3>3. /\ task = "reader" => asked'["reader"] = None
          /\ task # "reader" => asked'["reader"] = asked["reader"]
      BY <1>1 DEF Tasks
    <3>4. PICK n, td, os, ask, p, fs :
            /\ n = asked'["reader"] /\ ask = asked["reader"] /\ td = todo /\ os = orders
            /\ p = e.pos /\ fs = frames
      OBVIOUS
    <3>5. /\ td \in [Tasks -> Seq(Action)] /\ td[task] # <<>>
          /\ nd = [td EXCEPT ![task] = Tail(td[task])]
          /\ task = "reader" => n = None
          /\ task # "reader" => n = ask
      BY <1>1, <1>2, <1>3, <1>4, <3>3, <3>4
    <3>6. /\ DOMAIN ns = DOMAIN os /\ \A id \in DOMAIN os : ns[id].ref = os[id].ref
          /\ Guarded(p, os, fs, td, ask) /\ Holds(p, os, ns)
          /\ task = "reader" /\ Places(Head(td[task]), "stop_loss") => ask # None
      BY <1>5, <3>1, <3>2, <3>4
    <3>7. Guarded(p, ns, fs, nd, n)
      BY <3>5, <3>6, CallGuards
    <3> QED
      BY <3>4, <3>7
  <2>5. PICK entry \in FilledEntries(orders) :
          /\ e.pos # None => e.pos.side = orders[entry].side
          /\ ~Filled("stop_loss") =>
               t.side = orders[entry].side /\ BooksBalance(e, t.side, todo, net)
    BY <2>1 DEF InTrade
  <2>6. entry \in FilledEntries(ns) /\ ns[entry] = orders[entry]
    BY <1>10, <2>5
  <2>7. ASSUME ~Filled("stop_loss")'
        PROVE  t'.side = ns[entry].side /\ BooksBalance(e, t'.side, nd, net')
    <3>1. ~Filled("stop_loss")
      BY <1>2, <1>5, <2>7 DEF Filled, Grown
    <3>2. t.side = orders[entry].side /\ BooksBalance(e, t.side, todo, net)
      BY <2>5, <3>1
    <3>3. orders[entry] \in Order
      BY <1>1, <2>5 DEF FilledEntries
    <3>4. t.side \in Sides
      BY <3>2, <3>3 DEF Order
    <3>5. BooksBalance(e, t.side, nd, net + SignedQty(Opposite(t.side), CloseQty(Head(q))))
      <4>1. PICK side, td, m, x : side = t.side /\ td = todo /\ m = net /\ x = e
        OBVIOUS
      <4>2. /\ td \in [Tasks -> Seq(Action)] /\ td[task] # <<>> /\ q = td[task]
            /\ side \in Sides /\ m \in Int /\ EngineSound(x) /\ BooksBalance(x, side, td, m)
            /\ nd = [td EXCEPT ![task] = Tail(td[task])]
        BY <1>1, <1>2, <1>3, <1>4, <3>2, <3>4, <4>1
      <4>3. BooksBalance(x, side, nd, m + SignedQty(Opposite(side), CloseQty(Head(q))))
        BY <4>2, CallBooks
      <4> QED
        BY <4>1, <4>3
    <3>6. net' = net + SignedQty(Opposite(t.side), CloseQty(Head(q)))
      <4>1. CASE Head(q).type = "close"
        <5>1. t.side # None
          BY <3>4, NoneAssumption DEF Sides
        <5> QED
          BY <1>2, <4>1, <5>1 DEF CloseQty
      <4>2. CASE Head(q).type # "close"
        <5>1. SignedQty(Opposite(t.side), 0) = 0
          <6>1. \A s \in Sides : SignedQty(s, 0) = 0
            BY SignedIs
          <6>2. Opposite(t.side) \in Sides
            BY <3>4 DEF Opposite, Sides
          <6> QED
            BY <6>1, <6>2
        <5> QED
          BY <1>1, <1>2, <4>2, <5>1 DEF CloseQty
      <4> QED
        BY <4>1, <4>2
    <3> QED
      BY <2>6, <3>2, <3>5, <3>6
  <2> QED
    BY <1>2, <2>2, <2>3, <2>4, <2>5, <2>6, <2>7 DEF InTrade
<1> QED
  BY <1>2, <1>7, <1>8, <1>9, <1>11, <1>12 DEF Trade

-----------------------------------------------------------------------------
(* The calls keep the trade.                                               *)

(* A day on which one entry at most has filled was such a day before.      *)
LEMMA OneEntryBefore ==
  ASSUME Inv, Grown(orders, orders'), mishaps \subseteq mishaps', UNCHANGED rows, OneEntry'
  PROVE  OneEntry
<1>1. EntriesFilled = FilledEntries(orders) /\ EntriesFilled' = FilledEntries(orders')
  BY RefsAre DEF EntriesFilled, FilledEntries
<1>2. FilledEntries(orders) \subseteq FilledEntries(orders')
  BY GrownBacks
<1>3. IsFiniteSet(FilledEntries(orders'))
  BY FilledAreFinite DEF Grown
<1>4. PICK A, B : A = FilledEntries(orders) /\ B = FilledEntries(orders')
  OBVIOUS
<1>5. IsFiniteSet(B)
  BY <1>3, <1>4
<1>6. IsFiniteSet(A) /\ Cardinality(A) <= Cardinality(B)
  BY <1>2, <1>4, <1>5, FS_Subset
<1>7. Cardinality(A) \in Nat /\ Cardinality(B) \in Nat
  BY <1>5, <1>6, FS_CardinalityType
<1>8. Cardinality(B) <= 1 /\ "rejected" \notin mishaps' /\ Unbroken'
  BY <1>1, <1>4 DEF OneEntry
<1>9. Cardinality(A) <= 1
  BY <1>6, <1>7, <1>8
<1>10. "rejected" \notin mishaps /\ Unbroken
  BY <1>8 DEF Unbroken
<1> QED
  BY <1>1, <1>4, <1>9, <1>10 DEF OneEntry

(* What a task that has calls to make has.                                 *)
LEMMA CallerIs ==
  ASSUME Inv, NEW task \in Tasks, todo[task] # <<>>
  PROVE  /\ todo[task] \in Seq(Action) /\ Head(todo[task]) = todo[task][1]
         /\ Head(todo[task]) \in Action /\ 1 \in 1..Len(todo[task])
         /\ CallSound(e, orders, task, Head(todo[task]))
         /\ asked[task] = None => [asked EXCEPT ![task] = None] = asked
         /\ Grown(orders, orders)
<1>1. /\ todo[task] \in Seq(Action) /\ asked \in [Tasks -> Nat \cup {None}]
      /\ orders \in Seq(Order)
  BY DEF Inv, Types
<1>2. Head(todo[task]) = todo[task][1] /\ Head(todo[task]) \in Action /\ 1 \in 1..Len(todo[task])
  BY <1>1, TailFacts
<1>3. CallSound(e, orders, task, todo[task][1])
  BY <1>2 DEF Inv, Brackets
<1>4. asked[task] = None => [asked EXCEPT ![task] = None] = asked
  BY <1>1
<1>5. Grown(orders, orders)
  BY <1>1 DEF Grown
<1> QED
  BY <1>1, <1>2, <1>3, <1>4, <1>5

(* A call that leaves the orders alone.                                    *)
LEMMA QuietCallTrades ==
  ASSUME Inv, OneTrade, OneEntry', NEW task \in Tasks, todo[task] # <<>>, asked[task] = None,
         Finished(task), UNCHANGED <<e, t, asked, orders, frames, rows>>,
         mishaps \subseteq mishaps', ~Places(Head(todo[task]), "stop_loss"),
         Head(todo[task]).type # "close" => net' = net,
         Head(todo[task]).type = "close" /\ t.side # None =>
           net' = net + SignedQty(Opposite(t.side), Head(todo[task]).qty)
  PROVE  Trade'
<1>1. Grown(orders, orders') /\ asked' = [asked EXCEPT ![task] = None]
  BY CallerIs
<1>2. Trade
  BY <1>1, OneEntryBefore DEF OneTrade
<1>3. todo' = [todo EXCEPT ![task] = Tail(todo[task])]
  BY DEF Finished
<1>4. Holds(e.pos, orders, orders')
  BY DEF Holds
<1> QED
  BY <1>1, <1>2, <1>3, <1>4, CallTrades

(* Only entries are held by a pause.                                       *)
LEMMA SkipPlaceTrades ==
  ASSUME Inv, OneTrade, OneEntry', NEW task \in Tasks, SkipPlace(task) PROVE Trade'
<1>1. /\ todo[task] # <<>> /\ asked[task] = None /\ Finished(task)
      /\ Head(todo[task]).type = "place" /\ Head(todo[task]).ref \in EntryRefs
      /\ UNCHANGED <<e, t, asked, orders, net, frames, mishaps, rows>>
  BY RefsAre DEF SkipPlace, Ready, Idle, Next1, HeldByPause, exchange, record
<1>2. ~Places(Head(todo[task]), "stop_loss")
  BY <1>1, RefsAre DEF Places
<1> QED
  BY <1>1, <1>2, QuietCallTrades

(* What is told of an exit changes nothing.                                *)
LEMMA ExitPrintedTrades ==
  ASSUME Inv, OneTrade, OneEntry', NEW task \in Tasks, ExitPrinted(task) PROVE Trade'
<1>1. /\ todo[task] # <<>> /\ asked[task] = None /\ Finished(task)
      /\ Head(todo[task]).type = "notify"
      /\ UNCHANGED <<e, t, asked, orders, net, frames, mishaps, rows>>
  BY DEF ExitPrinted, Ready, Idle, Next1, exchange, record
<1>2. ~Places(Head(todo[task]), "stop_loss")
  BY <1>1 DEF Places
<1> QED
  BY <1>1, <1>2, QuietCallTrades

(* A close that is sent moves the account by what its task owed.           *)
LEMMA CloseMarketTrades ==
  ASSUME Inv, OneTrade, OneEntry', NEW task \in Tasks, CloseMarket(task) PROVE Trade'
<1>1. /\ todo[task] # <<>> /\ asked[task] = None /\ Finished(task)
      /\ Head(todo[task]).type = "close"
      /\ UNCHANGED <<e, t, asked, orders, frames, mishaps, rows>>
      /\ net' = IF ClosingSide(t) = None THEN net
                ELSE net + SignedQty(ClosingSide(t), Head(todo[task]).qty)
  BY DEF CloseMarket, CloseArrives, Ready, Idle, Next1, record
<1>2. t.side # None => ClosingSide(t) = Opposite(t.side) /\ ClosingSide(t) # None
  <2>1. t.side \in Sides \cup {None}
    BY DEF Inv, Types, Broker
  <2> QED
    BY <2>1, NoneAssumption, SignedIs DEF ClosingSide, Sides, Opposite
<1>3. ~Places(Head(todo[task]), "stop_loss")
  BY <1>1 DEF Places
<1> QED
  BY <1>1, <1>2, <1>3, QuietCallTrades

(* A cancel that fails twice is a cancel that is over.                     *)
LEMMA CancelFailsTrades ==
  ASSUME Inv, OneTrade, OneEntry', NEW task \in Tasks, CancelFails(task) PROVE Trade'
<1>1. /\ todo[task] # <<>> /\ asked[task] = None /\ Head(todo[task]).type = "cancel"
      /\ UNCHANGED <<e, t, asked, orders, net, frames, rows>> /\ mishaps \subseteq mishaps'
      /\ Finished(task) \/ todo' = todo
  BY DEF CancelFails, Ready, Idle, Next1, exchange, record, Befalls
<1>2. ~Places(Head(todo[task]), "stop_loss")
  BY <1>1 DEF Places
<1>3. CASE Finished(task)
  BY <1>1, <1>2, <1>3, QuietCallTrades
<1>4. CASE todo' = todo
  <2>1. Trade
    BY <1>1, CallerIs, OneEntryBefore DEF OneTrade
  <2> QED
    BY <1>1, <1>4, <2>1 DEF Trade, InTrade, BeforeTrade, Filled
<1> QED
  BY <1>1, <1>3, <1>4

(* A call that changes one order, and does not fill it.                    *)
LEMMA ChangeTrades ==
  ASSUME Inv, OneTrade, OneEntry', NEW task \in Tasks, todo[task] # <<>>, asked[task] = None,
         Finished(task), UNCHANGED <<e, t, asked, net, frames, mishaps, rows>>,
         Head(todo[task]).type \in {"cancel", "modify_price", "modify_qty"},
         NEW id \in DOMAIN orders, NEW o \in Order, orders' = [orders EXCEPT ![id] = o],
         o.ref = orders[id].ref, o.side = orders[id].side,
         orders[id].ref \in EntryRefs => o.qty = orders[id].qty,
         orders[id].state # "working" => o = orders[id], o.state = "filled" => o = orders[id],
         e.pos # None /\ Harmless(e.pos, todo[task]) /\ orders[id].ref = "stop_loss"
             /\ Covers(e.pos, orders[id])
           => Covers(e.pos, o) /\ o.state = orders[id].state
  PROVE  Trade'
<1>1. orders \in Seq(Order)
  BY DEF Inv, Types
<1>2. /\ Grown(orders, orders') /\ DOMAIN orders' = DOMAIN orders /\ orders'[id] = o
      /\ \A i \in DOMAIN orders : i # id => orders'[i] = orders[i]
  BY <1>1, ExceptGrows
<1>3. FilledEntries(orders') \subseteq FilledEntries(orders)
  BY <1>2 DEF FilledEntries
<1>4. Trade
  BY <1>2, OneEntryBefore DEF OneTrade
<1>5. todo' = [todo EXCEPT ![task] = Tail(todo[task])] /\ asked' = [asked EXCEPT ![task] = None]
  BY CallerIs DEF Finished
<1>6. ~Places(Head(todo[task]), "stop_loss") /\ Head(todo[task]).type # "close"
  BY DEF Places
<1>7. e.pos # None /\ Harmless(e.pos, todo[task]) => Holds(e.pos, orders, orders')
  BY <1>2 DEF Holds
<1> QED
  BY <1>2, <1>3, <1>4, <1>5, <1>6, <1>7, CallTrades

(* A stop of an open position is not cancelled.                            *)
LEMMA CancelTrades ==
  ASSUME Inv, OneTrade, OneEntry', NEW task \in Tasks, Cancel(task) PROVE Trade'
<1> DEFINE ref == Head(todo[task]).ref
           id == t.ids[ref]
<1>1. /\ todo[task] # <<>> /\ asked[task] = None /\ Finished(task)
      /\ Head(todo[task]).type = "cancel"
      /\ orders' = IF id = None THEN orders ELSE Withdrawn(orders, id)
      /\ UNCHANGED <<e, t, asked, net, frames, mishaps, rows>>
  BY DEF Cancel, Ready, Next1, Idle, record
<1>2. Head(todo[task]) \in Action /\ Head(todo[task]) = todo[task][1] /\ 1 \in 1..Len(todo[task])
  BY <1>1, CallerIs
<1>3. ref \in OrderRefs
  BY <1>1, <1>2 DEF Action
<1>4. id # None => id \in DOMAIN orders /\ orders[id].ref = ref
  BY <1>3, IdsAre
<1>5. Harmless(e.pos, todo[task]) => ref # "stop_loss"
  BY <1>1, <1>2 DEF Harmless, Cancels
<1> HIDE DEF id, ref
<1>6. CASE orders' = orders
  BY <1>1, <1>6, QuietCallTrades DEF Places
<1>7. CASE /\ id # None /\ orders[id].state = "working"
           /\ orders' = [orders EXCEPT ![id].state = "cancelled"]
  <2> DEFINE o == [orders[id] EXCEPT !.state = "cancelled"]
  <2>1. orders[id] \in Order /\ id \in DOMAIN orders
    BY <1>4, <1>7 DEF Inv, Types
  <2>2. orders' = [orders EXCEPT ![id] = o]
    BY <1>7
  <2>3. /\ o \in Order /\ o.ref = orders[id].ref /\ o.side = orders[id].side
        /\ o.qty = orders[id].qty /\ o.state = "cancelled"
    BY <2>1 DEF Order
  <2> HIDE DEF o
  <2> QED
    BY <1>1, <1>4, <1>5, <1>7, <2>1, <2>2, <2>3, ChangeTrades
<1> QED
  BY <1>1, <1>6, <1>7 DEF Withdrawn

(* A stop is not made smaller than what is left of the position.           *)
LEMMA ModifyTrades ==
  ASSUME Inv, OneTrade, OneEntry', NEW task \in Tasks, Modify(task) PROVE Trade'
<1> DEFINE a == Head(todo[task])
           id == t.ids[a.ref]
           o == Changed(orders[id], a)
<1>1. /\ todo[task] # <<>> /\ asked[task] = None /\ Finished(task)
      /\ a.type \in {"modify_price", "modify_qty"}
      /\ UNCHANGED <<e, t, asked, net, frames, mishaps, rows>>
      /\ orders' = IF id = None THEN orders ELSE [orders EXCEPT ![id] = o]
  BY DEF Modify, ModifyArrives, Ready, Next1, Idle, record
<1>2. a \in Action /\ a = todo[task][1] /\ 1 \in 1..Len(todo[task])
  BY <1>1, CallerIs
<1>3. /\ a.ref = "stop_loss" /\ (a.type = "modify_price" => a.price \in Int)
      /\ (a.type = "modify_qty" => a.qty \in Nat)
  BY <1>1, <1>2 DEF Action
<1>4. id # None => id \in DOMAIN orders /\ orders[id].ref = "stop_loss"
  BY <1>3, IdsAre, RefsAre
<1>5. Harmless(e.pos, todo[task]) /\ a.type = "modify_qty" => a.qty >= e.pos.runnerQty
  BY <1>2 DEF Harmless
<1> HIDE DEF id, a
<1>6. CASE id = None
  BY <1>1, <1>6, QuietCallTrades DEF Places, a
<1>7. CASE id # None
  <2>1. orders[id] \in Order /\ orders[id].ref \notin EntryRefs
    BY <1>4, <1>7, RefsAre DEF Inv, Types
  <2>2. /\ o \in Order /\ o.ref = orders[id].ref /\ o.side = orders[id].side
        /\ o.state = orders[id].state /\ (orders[id].state # "working" => o = orders[id])
        /\ o.qty = orders[id].qty \/ (a.type = "modify_qty" /\ o.qty = a.qty)
    BY <1>1, <1>3, <2>1 DEF Changed, Order
  <2> HIDE DEF o
  <2>3. e.pos # None /\ Harmless(e.pos, todo[task]) /\ Covers(e.pos, orders[id])
          => Covers(e.pos, o) /\ o.state = orders[id].state
    BY <1>5, <2>2 DEF Covers
  <2>4. orders' = [orders EXCEPT ![id] = o]
    BY <1>1, <1>7
  <2>5. o.state = "filled" => o = orders[id]
    BY <2>2
  <2> QED
    BY <1>1, <1>4, <1>7, <2>1, <2>2, <2>3, <2>4, <2>5, ChangeTrades DEF a
<1> QED
  BY <1>6, <1>7

(* The broker knows a stop by name from its answer on.                     *)
LEMMA PlaceAnsweredTrades ==
  ASSUME Inv, OneTrade, OneEntry', NEW task \in Tasks, PlaceAnswered(task) PROVE Trade'
<1> DEFINE a == Head(todo[task])
           n == [id |-> asked[task], ref |-> a.ref]
<1>1. /\ asked[task] # None /\ todo[task] # <<>>
      /\ asked[task] \in DOMAIN orders /\ Places(a, orders[asked[task]].ref)
      /\ t \in Broker /\ Finished(task)
      /\ t' = Placed(t, a.ref, asked[task]) /\ asked' = [asked EXCEPT ![task] = None]
      /\ UNCHANGED <<e, orders, net, frames, mishaps, rows>>
  BY DEF PlaceAnswered, Next1, exchange, record, Inv, Types, Paired
<1>2. a.ref = orders[asked[task]].ref /\ a.type = "place"
  BY <1>1 DEF Places
<1>3. t'.names = t.names \cup {n} /\ t'.side = t.side
  <2> HIDE DEF a
  <2>1. t = [ids |-> t.ids, names |-> t.names, side |-> t.side, qty |-> t.qty]
    BY <1>1 DEF Broker
  <2> QED
    BY <1>1, <2>1 DEF Placed
<1>4. [id |-> asked[task], ref |-> orders[asked[task]].ref] \in t'.names
  BY <1>2, <1>3
<1>5. Grown(orders, orders') /\ Trade
  BY <1>1, CallerIs, OneEntryBefore DEF OneTrade
<1>6. todo' = [todo EXCEPT ![task] = Tail(todo[task])]
  BY <1>1 DEF Finished
<1>7. Holds(e.pos, orders, orders')
  BY <1>1 DEF Holds
<1>8. t.names \subseteq t'.names
  BY <1>3
<1>9. a.type # "close" /\ DOMAIN orders' = DOMAIN orders
      /\ FilledEntries(orders') \subseteq FilledEntries(orders)
  BY <1>1, <1>2
<1> HIDE DEF n
<1> QED
  BY <1>1, <1>3, <1>4, <1>5, <1>6, <1>7, <1>8, <1>9, CallTrades

(* An entry that is sent was going to be; a stop that is sent stands.      *)
LEMMA SendPlaceTrades ==
  ASSUME Inv, OneTrade, OneEntry', NEW task \in Tasks, SendPlace(task) PROVE Trade'
<1> DEFINE a == Head(todo[task])
           o == [ref |-> a.ref, side |-> a.side, price |-> a.price, qty |-> a.qty,
                 state |-> "working"]
           f == [type |-> "order", id |-> Len(orders) + 1]
<1>1. /\ todo[task] # <<>> /\ asked[task] = None /\ a.type = "place"
      /\ orders \in Seq(Order) /\ frames \in Seq(Frame)
      /\ asked \in [Tasks -> Nat \cup {None}]
      /\ orders' = Append(orders, o) /\ asked' = [asked EXCEPT ![task] = Len(orders')]
      /\ frames' = Append(frames, [type |-> "order", id |-> Len(orders')])
      /\ UNCHANGED <<e, t, todo, net, mishaps, rows>>
  BY DEF SendPlace, Ready, Next1, Idle, record, Inv, Types
<1>2. /\ a \in Action /\ a = todo[task][1] /\ 1 \in 1..Len(todo[task])
      /\ CallSound(e, orders, task, a)
  BY <1>1, CallerIs
<1> HIDE DEF a
<1>3. o \in Order
  BY <1>1, <1>2 DEF Order, Action
<1>4. o.ref = a.ref /\ o.side = a.side /\ o.qty = a.qty /\ o.state = "working"
  OBVIOUS
<1> HIDE DEF o
<1>5. PICK n, ns, fs : n = Len(orders) + 1 /\ ns = orders' /\ fs = frames'
  OBVIOUS
<1>6. /\ ns \in Seq(Order) /\ DOMAIN orders = 1..Len(orders) /\ DOMAIN ns = 1..n
      /\ Len(orders) \in Nat /\ Len(ns) = n /\ ns[n] = o
      /\ \A id \in DOMAIN orders : ns[id] = orders[id]
  BY <1>1, <1>3, <1>5, AppendIs
<1>7. /\ n \in Nat /\ n \in DOMAIN ns /\ n # None
      /\ \A id \in DOMAIN orders : id \in DOMAIN ns
      /\ \A id \in DOMAIN ns : id \in DOMAIN orders \/ id = n
  BY <1>5, <1>6, OptionalAssumption
<1>8. f \in Frame /\ f.type = "order" /\ frames' = Append(frames, f)
  BY <1>1, <1>5, <1>6, <1>7 DEF Frame
<1> HIDE DEF f
<1>9. /\ \A i \in DOMAIN frames : i \in DOMAIN fs /\ fs[i] = frames[i]
      /\ \A i \in DOMAIN fs : fs[i].type = "fill" => i \in DOMAIN frames
  <2>1. /\ DOMAIN frames = 1..Len(frames) /\ Len(frames) \in Nat
        /\ DOMAIN fs = 1..(Len(frames) + 1) /\ fs[Len(frames) + 1] = f
        /\ \A i \in DOMAIN frames : fs[i] = frames[i]
    BY <1>1, <1>5, <1>8, AppendIs
  <2>2. \A i \in DOMAIN fs : i \in DOMAIN frames \/ i = Len(frames) + 1
    BY <2>1
  <2>3. \A i \in DOMAIN frames : i \in DOMAIN fs
    BY <2>1
  <2> QED
    BY <1>8, <2>1, <2>2, <2>3
<1>10. Grown(orders, ns)
  BY <1>1, <1>6, <1>7 DEF Grown
<1>11. Trade
  BY <1>1, <1>5, <1>10, OneEntryBefore DEF OneTrade
<1>12. /\ \A id \in FilledEntries(orders) : ns[id] = orders[id]
       /\ FilledEntries(ns) = FilledEntries(orders)
  BY <1>4, <1>6, <1>7, RefsAre DEF FilledEntries
<1>13. PICK ask, nask : ask = asked["reader"] /\ nask = asked'["reader"]
  OBVIOUS
<1>14. /\ task = "reader" => ask = None /\ nask = n
       /\ task # "reader" => nask = ask
  BY <1>1, <1>5, <1>6, <1>13 DEF Tasks
<1>15. WillPlace(todo[task], o.ref)
  BY <1>1, <1>2, <1>4 DEF WillPlace, Places
<1>16. /\ o.ref \in EntryRefs => task = "loop"
       /\ o.ref = "stop_loss" => task = "reader"
  BY <1>1, <1>2, <1>4, RefsAre DEF CallSound
<1>17. Armed(ns, todo["loop"]) => Armed(orders, todo["loop"])
  BY <1>6, <1>7, <1>15, <1>16 DEF Armed
<1>18. Begun(ns, todo["reader"]) <=> Begun(orders, todo["reader"])
  BY <1>6, <1>7, <1>15, <1>16 DEF Begun
<1>19. ASSUME ~Begun(orders, todo["reader"]) PROVE BeforeTrade'
  BY <1>1, <1>5, <1>11, <1>12, <1>19 DEF Trade, BeforeTrade
<1>20. ASSUME Begun(orders, todo["reader"]) PROVE InTrade'
  <2>1. InTrade
    BY <1>11, <1>20 DEF Trade
  <2>2. EntryRead(fs, ns)
    <3> SUFFICES ASSUME NEW i \in DOMAIN fs, fs[i].type = "fill"
                 PROVE  ns[fs[i].id].ref \notin EntryRefs
      BY DEF EntryRead
    <3>1. i \in DOMAIN frames /\ fs[i] = frames[i]
      BY <1>9
    <3>2. frames[i].id \in DOMAIN orders
      BY <3>1 DEF Inv, FramesTrue
    <3> QED
      BY <1>6, <2>1, <3>1, <3>2 DEF InTrade, EntryRead
  <2>3. StopsNamed(t, ns, nask)
    <3> SUFFICES ASSUME NEW id \in DOMAIN ns, ns[id].ref = "stop_loss"
                 PROVE  nask = id \/ [id |-> id, ref |-> "stop_loss"] \in t.names
      BY DEF StopsNamed
    <3>1. CASE id = n
      BY <1>6, <1>14, <1>16, <3>1
    <3>2. CASE id \in DOMAIN orders
      <4>1. ask = id \/ [id |-> id, ref |-> "stop_loss"] \in t.names
        BY <1>6, <1>13, <2>1, <3>2 DEF InTrade, StopsNamed
      <4>2. id # None
        BY <1>6, <3>2, OptionalAssumption
      <4> QED
        BY <1>14, <4>1, <4>2
    <3> QED
      BY <1>7, <3>1, <3>2
  <2>4. ASSUME e.pos # None PROVE Guarded(e.pos, ns, fs, todo, nask)
    <3>1. Guarded(e.pos, orders, frames, todo, ask)
      BY <1>13, <2>1, <2>4 DEF InTrade
    <3>2. CASE StopStands(e.pos, orders, frames)
      <4>1. PICK id \in DOMAIN orders :
              /\ orders[id].ref = "stop_loss" /\ Covers(e.pos, orders[id])
              /\ orders[id].state = "working" \/ Told(frames, id)
        BY <3>2 DEF StopStands
      <4>2. Told(frames, id) => Told(fs, id)
        BY <1>9 DEF Told
      <4>3. StopStands(e.pos, ns, fs)
        BY <1>6, <1>7, <4>1, <4>2 DEF StopStands
      <4> QED
        BY <3>1, <4>3 DEF Guarded
    <3>3. CASE StopAhead(e.pos, todo["reader"], ask)
      <4>1. PICK i \in 1..Len(todo["reader"]) :
              /\ Places(todo["reader"][i], "stop_loss") /\ Covers(e.pos, todo["reader"][i])
              /\ i = 1 => ask = None
        BY <3>3 DEF StopAhead
      <4>2. CASE task = "reader" /\ i = 1
        <5>1. o.ref = "stop_loss" /\ Covers(e.pos, o)
          BY <1>2, <1>4, <4>1, <4>2 DEF Places, Covers
        <5>2. StopStands(e.pos, ns, fs)
          BY <1>4, <1>6, <1>7, <5>1 DEF StopStands
        <5> QED
          BY <3>1, <5>2 DEF Guarded
      <4>3. CASE ~(task = "reader" /\ i = 1)
        <5>1. StopAhead(e.pos, todo["reader"], nask)
          BY <1>14, <4>1, <4>3 DEF StopAhead
        <5> QED
          BY <3>1, <5>1 DEF Guarded
      <4> QED
        BY <4>2, <4>3
    <3> QED
      BY <3>1, <3>2, <3>3 DEF Guarded
  <2>5. Filled("stop_loss") => Filled("stop_loss")'
    BY <1>5, <1>6, <1>7 DEF Filled
  <2>6. PICK entry \in FilledEntries(orders) :
          /\ e.pos # None => e.pos.side = orders[entry].side
          /\ ~Filled("stop_loss") =>
               t.side = orders[entry].side /\ BooksBalance(e, t.side, todo, net)
    BY <2>1 DEF InTrade
  <2> QED
    BY <1>1, <1>5, <1>12, <1>13, <2>2, <2>3, <2>4, <2>5, <2>6 DEF InTrade
<1> QED
  BY <1>1, <1>5, <1>17, <1>11, <1>18, <1>19, <1>20 DEF Trade

-----------------------------------------------------------------------------
(* The exchange keeps the trade.                                           *)

(* No two entries have filled.                                             *)
LEMMA FilledOnce ==
  ASSUME OneEntry', orders' \in Seq(Order),
         NEW i \in FilledEntries(orders'), NEW j \in FilledEntries(orders')
  PROVE  i = j
<1>1. PICK S : S = FilledEntries(orders')
  OBVIOUS
<1>2. IsFiniteSet(S)
  BY <1>1, FilledAreFinite
<1>3. Cardinality(S) <= 1
  BY <1>1, RefsAre DEF OneEntry, EntriesFilled, FilledEntries
<1> QED
  BY <1>1, <1>2, <1>3, AtMostOne

(* The entry that fills is the first to; a stop that fills tells of it.    *)
LEMMA ExchangeFillTrades ==
  ASSUME Inv, OneTrade, OneEntry', ExchangeFill PROVE Trade'
<1>1. PICK id \in DOMAIN orders :
        /\ orders[id].state = "working"
        /\ orders' = [orders EXCEPT ![id].state = "filled"]
        /\ net' = net + SignedQty(orders[id].side, orders[id].qty)
        /\ frames' = Append(frames, [type |-> "fill", id |-> id, price |-> orders[id].price,
                                     qty |-> orders[id].qty])
        /\ UNCHANGED <<e, t, todo, asked, mishaps, rows>>
  BY DEF ExchangeFill, record
<1> DEFINE o == [orders[id] EXCEPT !.state = "filled"]
           f == [type |-> "fill", id |-> id, price |-> orders[id].price, qty |-> orders[id].qty]
<1>2. orders \in Seq(Order) /\ frames \in Seq(Frame) /\ net \in Int /\ orders[id] \in Order
  BY DEF Inv, Types
<1>3. o \in Order /\ o.ref = orders[id].ref /\ o.side = orders[id].side /\ o.qty = orders[id].qty
      /\ o.state = "filled" /\ o.ref \in OrderRefs /\ o.side \in Sides /\ o.qty \in Nat
  BY <1>2 DEF Order
<1>4. orders' = [orders EXCEPT ![id] = o] /\ orders[id].state # "filled"
  BY <1>1
<1> HIDE DEF o
<1>5. PICK ns, fs : ns = orders' /\ fs = frames'
  OBVIOUS
<1>6. /\ Grown(orders, ns) /\ DOMAIN ns = DOMAIN orders /\ ns[id] = o
      /\ \A i \in DOMAIN orders : i # id => ns[i] = orders[i]
  BY <1>2, <1>3, <1>4, <1>5, ExceptGrows
<1>7. f \in Frame /\ f.type = "fill" /\ f.id = id /\ fs = Append(frames, f)
  BY <1>1, <1>2, <1>5 DEF Frame, Order
<1> HIDE DEF f
<1>8. /\ \A i \in DOMAIN frames : i \in DOMAIN fs /\ fs[i] = frames[i]
      /\ \A i \in DOMAIN fs : i \in DOMAIN frames \/ fs[i] = f
      /\ Told(fs, id)
  <2>1. /\ DOMAIN frames = 1..Len(frames) /\ Len(frames) \in Nat
        /\ DOMAIN fs = 1..(Len(frames) + 1) /\ fs[Len(frames) + 1] = f
        /\ \A i \in DOMAIN frames : fs[i] = frames[i]
    BY <1>2, <1>7, AppendIs
  <2>2. \A i \in DOMAIN fs : i \in DOMAIN frames \/ i = Len(frames) + 1
    BY <2>1
  <2>3. Len(frames) + 1 \in DOMAIN fs /\ \A i \in DOMAIN frames : i \in DOMAIN fs
    BY <2>1
  <2> QED
    BY <1>7, <2>1, <2>2, <2>3 DEF Told
<1>9. Trade
  BY <1>1, <1>5, <1>6, OneEntryBefore DEF OneTrade
<1>10. /\ \A i \in FilledEntries(orders) : ns[i] = orders[i] /\ i \in FilledEntries(ns) /\ i # id
       /\ \A i \in FilledEntries(ns) : i = id \/ i \in FilledEntries(orders)
       /\ o.ref \in EntryRefs => id \in FilledEntries(ns)
  BY <1>3, <1>4, <1>6 DEF FilledEntries
<1>11. \A i, j \in FilledEntries(ns) : i = j
  <2>1. ns \in Seq(Order)
    BY <1>6 DEF Grown
  <2> QED
    BY <1>5, <2>1, FilledOnce
<1>12. o.ref \in EntryRefs \/ o.ref = "stop_loss"
  BY <1>3 DEF OrderRefs, EntryRefs
<1>13. Armed(ns, todo["loop"]) => e.placed
  BY <1>3, <1>6, <1>9 DEF Trade, Armed
<1>14. Begun(ns, todo["reader"]) <=> Begun(orders, todo["reader"])
  BY <1>3, <1>6 DEF Begun
<1>15. ASSUME ~Begun(orders, todo["reader"]) PROVE BeforeTrade'
  <2>1. BeforeTrade
    BY <1>9, <1>15 DEF Trade
  <2>2. o.ref \in EntryRefs
    BY <1>3, <1>12, <1>15 DEF Begun
  <2>3. FilledEntries(orders) = {} /\ FilledEntries(ns) = {id}
    BY <1>10, <1>11, <2>2
  <2>4. net = 0
    BY <2>1, <2>3 DEF BeforeTrade
  <2>5. net' = SignedQty(o.side, o.qty)
    <3>1. SignedQty(o.side, o.qty) \in Int
      BY <1>3 DEF SignedQty
    <3>2. net' = net + SignedQty(o.side, o.qty)
      BY <1>1, <1>3
    <3> QED
      BY <2>4, <3>1, <3>2
  <2> QED
    BY <1>1, <1>5, <1>6, <2>1, <2>3, <2>5 DEF BeforeTrade
<1>16. ASSUME Begun(orders, todo["reader"]) PROVE InTrade'
  <2>1. InTrade
    BY <1>9, <1>16 DEF Trade
  <2>2. PICK entry \in FilledEntries(orders) : e.pos # None => e.pos.side = orders[entry].side
    BY <2>1 DEF InTrade
  <2>3. o.ref = "stop_loss" /\ o.ref \notin EntryRefs
    BY <1>10, <1>11, <1>12, <2>2, RefsAre
  <2>4. EntryRead(fs, ns)
    <3> SUFFICES ASSUME NEW i \in DOMAIN fs, fs[i].type = "fill"
                 PROVE  ns[fs[i].id].ref \notin EntryRefs
      BY DEF EntryRead
    <3>1. CASE fs[i] = f
      BY <1>6, <1>7, <2>3, <3>1
    <3>2. CASE i \in DOMAIN frames
      <4>1. fs[i] = frames[i] /\ frames[i].id \in DOMAIN orders
        BY <1>8, <3>2 DEF Inv, FramesTrue
      <4>2. ns[fs[i].id].ref = orders[frames[i].id].ref
        BY <1>3, <1>6, <4>1
      <4> QED
        BY <2>1, <3>2, <4>1, <4>2 DEF InTrade, EntryRead
    <3> QED
      BY <1>8, <3>1, <3>2
  <2>5. StopsNamed(t, ns, asked["reader"])
    BY <1>3, <1>6, <2>1 DEF InTrade, StopsNamed
  <2>6. ASSUME e.pos # None PROVE Guarded(e.pos, ns, fs, todo, asked["reader"])
    <3>1. Guarded(e.pos, orders, frames, todo, asked["reader"])
      BY <2>1, <2>6 DEF InTrade
    <3>2. CASE StopStands(e.pos, orders, frames)
      <4>1. PICK s \in DOMAIN orders :
              /\ orders[s].ref = "stop_loss" /\ Covers(e.pos, orders[s])
              /\ orders[s].state = "working" \/ Told(frames, s)
        BY <3>2 DEF StopStands
      <4>2. Told(frames, s) => Told(fs, s)
        BY <1>8 DEF Told
      <4>3. ns[s].ref = "stop_loss" /\ Covers(e.pos, ns[s])
            /\ (ns[s].state = "working" \/ Told(fs, s))
        BY <1>3, <1>6, <1>8, <4>1, <4>2 DEF Covers
      <4>4. StopStands(e.pos, ns, fs)
        BY <1>6, <4>3 DEF StopStands
      <4> QED
        BY <3>1, <4>4 DEF Guarded
    <3>3. CASE StopAhead(e.pos, todo["reader"], asked["reader"])
      BY <3>1, <3>3 DEF Guarded
    <3> QED
      BY <3>1, <3>2, <3>3 DEF Guarded
  <2>7. Filled("stop_loss")'
    BY <1>3, <1>5, <1>6, <2>3 DEF Filled
  <2> QED
    BY <1>1, <1>5, <1>10, <2>2, <2>4, <2>5, <2>6, <2>7 DEF InTrade
<1> QED
  BY <1>1, <1>5, <1>9, <1>13, <1>14, <1>15, <1>16 DEF Trade

-----------------------------------------------------------------------------
(* The handlers keep the trade.                                            *)

(* A handler that is called when no frame is read.                         *)
LEMMA TurnTrades ==
  ASSUME Inv, OneTrade, OneEntry', NEW task \in Tasks, todo[task] = <<>>, NEW y,
         Leads(Entered, e, e, y) \/ (Manages(Entered, e, y) /\ Balanced(e, y)),
         Handled(task, y), UNCHANGED <<t, asked, orders, net, frames, rows>>,
         mishaps \subseteq mishaps'
  PROVE  Trade'
<1>1. Grown(orders, orders')
  BY DEF Grown, Inv, Types
<1>2. Trade
  BY <1>1, OneEntryBefore DEF OneTrade
<1>3. Manages(Entered, e, y) /\ Balanced(e, y)
  BY HandlerMayBegin DEF Leads
<1> QED
  BY <1>2, <1>3, HandledTrades

(* Before the range has ended there is nothing to keep.                    *)
LEMMA BarTrades == ASSUME Inv, OneTrade, OneEntry', Bar PROVE Trade'
<1>1. PICK m \in Times, candle \in Candles :
        \E shape \in IF m < OrEnd THEN RangeShapes ELSE BarShapes :
          LET bar == [time |-> m, high |-> shape.high, low |-> shape.low,
                      close |-> shape.close]
          IN  Handled("loop", Eng!OnBar(e, bar, candle)) /\ now' = m
  BY DEF Bar
<1>2. PICK bar :
        /\ \E shape \in RangeShapes \cup BarShapes :
             bar = [time |-> m, high |-> shape.high, low |-> shape.low, close |-> shape.close]
        /\ Handled("loop", Eng!OnBar(e, bar, candle)) /\ now' = m
  BY <1>1
<1>3. PICK y : y = Eng!OnBar(e, bar, candle)
  OBVIOUS
<1>4. bar.time = m /\ bar.close \in Int /\ bar.high \in Int /\ bar.low \in Int
  BY <1>2, LiveAssumption
<1>5. m \in Int /\ now \in Int /\ now <= m
  BY SessionAssumption, LiveAssumption DEF Times, Inv, Types
<1>6. Known(candle)
  BY LiveAssumption DEF Known
<1>7. /\ todo["loop"] = <<>> /\ Handled("loop", y) /\ "loop" \in Tasks
      /\ UNCHANGED <<t, asked, orders, net, frames, mishaps, rows>>
  BY <1>2, <1>3 DEF Bar, Idle, exchange, Tasks
<1>8. CASE m < OrEnd
  <2>1. /\ EngineSound(e) /\ e.sink = <<>> /\ e.pos = None /\ ~e.orFinal
        /\ DOMAIN orders = {} /\ \A task \in Tasks : todo[task] = <<>>
    BY <1>5, <1>8, SessionAssumption, EarlyIsQuiet DEF Inv, Types, Idle
  <2>2. EngineSound(y) /\ y.sink = <<>> /\ y.pos = None
    BY <1>3, <1>4, <1>5, <1>8, <2>1, EarlyBar
  <2>3. Trade
    <3>1. Grown(orders, orders')
      BY <1>7 DEF Grown, Inv, Types
    <3> QED
      BY <1>7, <3>1, OneEntryBefore DEF OneTrade
  <2>4. e' = [y EXCEPT !.sink = <<>>] /\ y \in Engine /\ todo' = todo
    BY <1>7, <2>1, <2>2 DEF Handled, EngineSound, Inv, Types
  <2>5. e'.pos = None
    BY <2>2, <2>4 DEF Engine
  <2>6. /\ ~Armed(orders, todo["loop"]) /\ ~Begun(orders, todo["reader"])
    <3>1. Len(<<>>) = 0 /\ todo["loop"] = <<>> /\ todo["reader"] = <<>>
      BY <2>1 DEF Tasks
    <3> QED
      BY <2>1, <3>1 DEF Armed, Begun, WillPlace
  <2> QED
    BY <1>7, <2>3, <2>4, <2>5, <2>6 DEF Trade, BeforeTrade
<1>9. CASE ~(m < OrEnd)
  <2>1. m >= OrEnd
    BY <1>5, <1>9, SessionAssumption
  <2>2. Manages(Entered, e, e) /\ Balanced(e, e) /\ e.sink = <<>>
    BY HandlerMayBegin DEF Inv, Types
  <2>3. Manages(Entered, e, y) /\ Balanced(e, y)
    BY <1>3, <1>4, <1>5, <1>6, <2>1, <2>2, OnBarManages
  <2> QED
    BY <1>7, <2>3, TurnTrades
<1> QED
  BY <1>8, <1>9

(* The timers manage what there is.                                        *)
LEMMA WallClockTrades == ASSUME Inv, OneTrade, OneEntry', WallClock PROVE Trade'
<1>1. PICK m \in Times : Handled("loop", Eng!OnWallClock(e, m)) /\ now' = m
  BY DEF WallClock
<1>2. PICK y : y = Eng!OnWallClock(e, m)
  OBVIOUS
<1>3. Leads(Entered, e, e, y)
  BY <1>2, HandlerMayBegin, CheckTimeBasedActionsLeads DEF Eng!OnWallClock
<1>4. /\ todo["loop"] = <<>> /\ "loop" \in Tasks /\ Handled("loop", y)
      /\ UNCHANGED <<t, asked, orders, net, frames, mishaps, rows>>
  BY <1>1, <1>2 DEF WallClock, Idle, exchange, Tasks
<1> QED
  BY <1>3, <1>4, TurnTrades

(* So does /flatten.                                                       *)
LEMMA FlattenTrades == ASSUME Inv, OneTrade, OneEntry', Flatten PROVE Trade'
<1>1. /\ todo["operator"] = <<>> /\ "operator" \in Tasks /\ mishaps \subseteq mishaps'
      /\ UNCHANGED <<t, asked, orders, net, frames, rows>>
  BY DEF Flatten, Idle, exchange, Tasks, Befalls
<1>2. CASE e.pos = None
  <2>1. UNCHANGED <<e, todo>>
    BY <1>2 DEF Flatten
  <2>2. Trade
    <3>1. Grown(orders, orders')
      BY <1>1 DEF Grown, Inv, Types
    <3> QED
      BY <1>1, <3>1, OneEntryBefore DEF OneTrade
  <2> QED
    BY <1>1, <2>1, <2>2 DEF Trade, InTrade, BeforeTrade, Filled
<1>3. CASE e.pos # None
  <2>1. PICK y : y = Eng!ManualFlatten(e)
    OBVIOUS
  <2>2. Handled("operator", y)
    BY <1>3, <2>1 DEF Flatten
  <2>3. Leads(Entered, e, e, y)
    BY <2>1, HandlerMayBegin, ManualFlattenLeads
  <2> QED
    BY <1>1, <2>2, <2>3, TurnTrades
<1> QED
  BY <1>2, <1>3

(* The frames that are left once the first has been read.                  *)
LEMMA TailTold ==
  ASSUME NEW fs \in Seq(Frame), fs # <<>>
  PROVE  /\ \A j \in DOMAIN Tail(fs) : \E i \in DOMAIN fs : i # 1 /\ Tail(fs)[j] = fs[i]
         /\ \A id : Told(fs, id) => Told(Tail(fs), id) \/ (fs[1].type = "fill" /\ fs[1].id = id)
<1>1. /\ DOMAIN fs = 1..Len(fs) /\ Len(fs) \in Nat \ {0}
      /\ DOMAIN Tail(fs) = 1..(Len(fs) - 1)
      /\ \A i \in DOMAIN Tail(fs) : i + 1 \in DOMAIN fs /\ Tail(fs)[i] = fs[i + 1]
  BY TailIs
<1>2. \A j \in DOMAIN Tail(fs) : j + 1 # 1
  BY <1>1
<1>3. \A j \in DOMAIN Tail(fs) : \E i \in DOMAIN fs : i # 1 /\ Tail(fs)[j] = fs[i]
  BY <1>1, <1>2
<1>4. ASSUME NEW id, NEW i \in DOMAIN fs, fs[i].type = "fill", fs[i].id = id, i # 1
      PROVE  Told(Tail(fs), id)
  <2>1. i - 1 \in DOMAIN Tail(fs) /\ (i - 1) + 1 = i
    BY <1>1, <1>4
  <2>2. Tail(fs)[i - 1] = fs[i]
    BY <1>1, <2>1
  <2> QED
    BY <1>4, <2>1, <2>2 DEF Told
<1> QED
  BY <1>3, <1>4 DEF Told

(* The broker finds what it has named.                                     *)
LEMMA NamedIs ==
  ASSUME NEW b \in Broker, NEW id, NEW ref, [id |-> id, ref |-> ref] \in b.names
  PROVE  RefOf(b, id) # None
<1>1. \E m \in b.names : m.id = id
  <2>1. [id |-> id, ref |-> ref].id = id
    OBVIOUS
  <2> QED
    BY <2>1
<1> DEFINE c == CHOOSE m \in b.names : m.id = id
<1>2. c \in b.names /\ RefOf(b, id) = c.ref
  BY <1>1 DEF RefOf
<1>3. b.names \in SUBSET [id : Nat, ref : OrderRefs]
  BY DEF Broker
<1> HIDE DEF c
<1>4. c.ref \in OrderRefs
  BY <1>2, <1>3
<1> QED
  BY <1>2, <1>4, OptionalAssumption

(* A frame that is no fill, or bears no name, changes little.              *)
LEMMA OtherFrameTrades ==
  ASSUME Inv, Trade, ReadFrame,
         NEW frame, frame = Head(frames), NEW ref, ref = RefOf(t, frame.id),
         ref = None \/ frame.type # "fill"
  PROVE  Trade'
<1>1. /\ frames # <<>> /\ frames \in Seq(Frame) /\ frames' = Tail(frames)
      /\ todo["reader"] = <<>> /\ "reader" \in Tasks
      /\ UNCHANGED <<asked, orders, net>>
      /\ t \in Broker /\ e \in Engine /\ e.sink = <<>> /\ todo \in [Tasks -> Seq(Action)]
  BY DEF ReadFrame, Idle, Inv, Types, EngineSound, Tasks
<1>2. frame = frames[1]
  BY <1>1, TailIs
<1>3. /\ \A j \in DOMAIN frames' : \E i \in DOMAIN frames : frames'[j] = frames[i]
      /\ \A id : Told(frames, id) => Told(frames', id) \/ (frame.type = "fill" /\ frame.id = id)
  BY <1>1, <1>2, TailTold
<1>4. ASSUME NEW id \in DOMAIN orders, orders[id].ref = "stop_loss", Told(frames, id)
      PROVE  Told(frames', id)
  <2> SUFFICES ASSUME frame.type = "fill", frame.id = id PROVE FALSE
    BY <1>3, <1>4
  <2>1. Begun(orders, todo["reader"])
    BY <1>4 DEF Begun
  <2>2. asked["reader"] = id \/ [id |-> id, ref |-> "stop_loss"] \in t.names
    BY <1>4, <2>1 DEF Trade, InTrade, StopsNamed
  <2>3. asked["reader"] = None
    BY <1>1 DEF Inv, Paired
  <2>4. id # None
    <3>1. id \in Nat
      BY DEF Inv, Types
    <3> QED
      BY <3>1, OptionalAssumption
  <2>5. RefOf(t, id) # None
    BY <1>1, <2>2, <2>3, <2>4, NamedIs
  <2> QED
    BY <2>5
<1>5. Manages(Entered, e, e) /\ Balanced(e, e)
  BY HandlerMayBegin
<1>6. CASE ref = None
  <2>1. UNCHANGED <<e, t, todo, saved, missed>>
    BY <1>6 DEF ReadFrame
  <2>2. e = [e EXCEPT !.sink = <<>>]
    BY <1>1 DEF Engine
  <2>3. Handled("reader", e)
    <3>1. e.canceled \in BOOLEAN /\ todo' = [todo EXCEPT !["reader"] = e.sink]
      BY <1>1, <2>1 DEF Engine
    <3>2. missed' = IF e.canceled /\ ~e.canceled THEN missed \cup BeingPlaced ELSE missed
      BY <2>1
    <3>3. SaveWhenDone("reader", e.sink, e)
      BY <2>1 DEF SaveWhenDone
    <3> QED
      BY <2>1, <2>2, <3>1, <3>2, <3>3 DEF Handled
  <2> QED
    BY <1>1, <1>3, <1>4, <1>5, <2>1, <2>3, HandledTrades
<1>7. CASE ref # None
  <2>1. PICK y : y = Eng!OnOrderWorking(e, ref)
    OBVIOUS
  <2>2. Handled("reader", y) /\ t' = t
    BY <1>7, <2>1 DEF ReadFrame
  <2>3. frame.id \in DOMAIN orders /\ ref = orders[frame.id].ref
    BY <1>7, RefOfIs DEF Inv
  <2>4. orders[frame.id] \in Order
    BY <2>3 DEF Inv, Types
  <2>5. ref \in OrderRefs
    BY <2>3, <2>4 DEF Order
  <2>6. Leads(Entered, e, e, y)
    BY <1>5, <2>1, <2>5, OnOrderWorkingLeads
  <2>7. Manages(Entered, e, y) /\ Balanced(e, y)
    BY <1>5, <2>6 DEF Leads
  <2> QED
    BY <1>1, <1>3, <1>4, <2>2, <2>7, HandledTrades
<1> QED
  BY <1>6, <1>7

(* With the stop's fill the engine is out of the market.                   *)
LEMMA StopFillTrades ==
  ASSUME Inv, Trade, NEW id \in DOMAIN orders, orders[id].state = "filled",
         orders[id].ref = "stop_loss",
         NEW fill, fill.ref = orders[id].ref, fill.qty = orders[id].qty, fill.price \in Int,
         NEW y, y = Eng!OnFill(e, fill), Handled("reader", y), t'.names = t.names,
         UNCHANGED <<asked, orders>>, \A j \in DOMAIN frames' : \E i \in DOMAIN frames :
                                        frames'[j] = frames[i]
  PROVE  Trade'
<1>1. EngineSound(e) /\ e \in Engine /\ e.sink = <<>> /\ orders[id] \in Order
  BY DEF Inv, Types, EngineSound
<1>2. fill.qty \in Nat /\ fill.ref \in OrderRefs
  BY <1>1 DEF Order
<1>3. SameRange(e, y) /\ y \in Engine
  BY FillAnswers DEF Answers, EngineSound
<1>4. y.pos = None
  <2>1. CASE e.pos = None
    <3>1. y = e
      BY <1>1, <1>2, <2>1, OnFillIs, EmitTold
    <3> QED
      BY <2>1, <3>1
  <2>2. CASE e.pos # None
    <3>1. y = Eng!HandleStopFill(e, fill)
      BY <1>2, <2>2, OnFillIs
    <3>2. PICK u, w : /\ EngineSound(u) /\ u.sink = <<>> /\ u.pos = None
                      /\ SameRange(e, u) /\ u.canceled = e.canceled /\ u.halted = e.halted
                      /\ \A B \in SUBSET Nat : Leads(B, u, u, w)
                      /\ w.pos = None /\ w.canceled = e.canceled /\ w.halted = e.halted
                      /\ Eng!HandleStopFill(e, fill) = Eng!CheckDailyLossLimit(w)
      <4>1. EngineSound(e) /\ e.sink = <<>> /\ e.pos # None
        BY <1>1, <2>2
      <4>2. fill.price \in Int /\ fill.qty \in Nat
        BY <1>2
      <4> QED
        BY ONLY <4>1, <4>2, HandleStopFillIs
    <3>3. Manages(Entered, u, w)
      <4>1. Entered \in SUBSET Nat
        BY HandlerMayBegin DEF Manages
      <4> QED
        BY <3>2, <4>1 DEF Leads
    <3> QED
      BY <3>1, <3>2, <3>3, CheckDailyLossLimitLeads
  <2> QED
    BY <2>1, <2>2
<1>5. PICK f, nd : f = e' /\ nd = todo'
  OBVIOUS
<1>6. f.pos = None /\ f.placed = e.placed
  BY <1>3, <1>4, <1>5 DEF Handled, Engine, SameRange
<1>7. nd["loop"] = todo["loop"]
  BY <1>5 DEF Handled, Inv, Types, Tasks
<1>8. Begun(orders, todo["reader"]) /\ Begun(orders, nd["reader"]) /\ Filled("stop_loss")'
  BY DEF Begun, Filled
<1>9. InTrade
  BY <1>8 DEF Trade
<1>10. EntryRead(frames', orders)
  BY <1>9 DEF InTrade, EntryRead
<1>11. StopsNamed(t', orders, asked["reader"])
  BY <1>9 DEF InTrade, StopsNamed
<1>12. FilledEntries(orders) # {}
  BY <1>9 DEF InTrade
<1>13. InTrade'
  BY <1>5, <1>6, <1>8, <1>10, <1>11, <1>12 DEF InTrade
<1> QED
  BY <1>5, <1>6, <1>7, <1>8, <1>13 DEF Trade

(* Nobody owes a close, so the account holds what the engine holds.        *)
LEMMA FreshBooks ==
  ASSUME NEW f, Runner(f) \in Nat, NEW td \in [Tasks -> Seq(Action)],
         \A task \in Tasks : \A i \in 1..Len(td[task]) : td[task][i].type # "close",
         NEW side, NEW m, m = SignedQty(side, Runner(f))
  PROVE  BooksBalance(f, side, td, m)
<1> DEFINE n == [task \in Tasks |-> 0]
<1>1. n \in [Tasks -> Int] /\ \A task \in Tasks : n[task] = 0
  OBVIOUS
<1>2. n["loop"] = 0 /\ n["reader"] = 0 /\ n["operator"] = 0
  BY DEF Tasks
<1> HIDE DEF n
<1>3. Total(n) = 0
  BY <1>2 DEF Total
<1>4. Runner(f) + Total(n) = Runner(f)
  BY <1>3
<1>5. \A task \in Tasks : Owes(td[task], n[task])
  BY <1>1, OwesNone
<1> QED
  BY <1>1, <1>4, <1>5 DEF BooksBalance

(* With the entry's fill the trade begins: its stop is the second of the   *)
(* reader's calls.                                                         *)
LEMMA EntryFillTrades ==
  ASSUME Inv, Trade, OneEntry, NEW id \in DOMAIN orders, orders[id].state = "filled",
         orders[id].ref \in EntryRefs,
         frames # <<>>, frames[1].type = "fill", frames[1].id = id, frames' = Tail(frames),
         NEW fill, fill.ref = orders[id].ref, fill.qty = orders[id].qty, fill.price \in Int,
         NEW y, y = Eng!OnFill(e, fill), Handled("reader", y), todo["reader"] = <<>>,
         t' = TrackFill(t, orders[id].ref, orders[id].qty), UNCHANGED <<asked, orders, net>>
  PROVE  Trade'
<1>1. /\ EngineSound(e) /\ e \in Engine /\ e.sink = <<>> /\ orders[id] \in Order
      /\ orders \in Seq(Order) /\ frames \in Seq(Frame) /\ todo \in [Tasks -> Seq(Action)]
      /\ t \in Broker
  BY DEF Inv, Types, EngineSound
<1>2. fill.qty \in Nat /\ fill.ref \in OrderRefs /\ orders[id].qty \in Nat
  BY <1>1 DEF Order
<1>3. 1 \in DOMAIN frames
  BY <1>1, TailIs
<1>4. ~Begun(orders, todo["reader"])
  <2> SUFFICES ASSUME Begun(orders, todo["reader"]) PROVE FALSE
    OBVIOUS
  <2>1. EntryRead(frames, orders)
    BY DEF Trade, InTrade
  <2> QED
    BY <1>3, <2>1 DEF EntryRead
<1>5. BeforeTrade
  BY <1>4 DEF Trade
<1>6. e.placed /\ Bracket(e, orders[id])
  BY DEF Trade, Armed, Inv, Brackets
<1>7. e.entryQty = orders[id].qty /\ orders[id].side = EntrySide(orders[id].ref)
  BY <1>1, <1>6 DEF EngineSound, DaySound, Bracket
<1>8. e.pos = None /\ id \in FilledEntries(orders)
  BY <1>5 DEF BeforeTrade, FilledEntries
<1>9. y = Eng!HandleEntryFill(e, fill)
  BY <1>2, <1>8, OnFillIs
<1>10. /\ EngineSound(y) /\ SameRange(e, y) /\ y.pos # None /\ y.pos \in Position
       /\ y.pos.side = orders[id].side /\ y.pos.runnerQty = orders[id].qty
       /\ \E c, s \in Action :
            /\ Len(y.sink) = 2 /\ y.sink[1] = c /\ y.sink[2] = s
            /\ c.type = "cancel" /\ c.ref \in EntryRefs
            /\ Places(s, "stop_loss") /\ s.side = Opposite(y.pos.side)
            /\ s.qty = orders[id].qty
  BY <1>1, <1>6, <1>7, <1>8, <1>9, HandleEntryFillIs DEF Bracket
<1>11. PICK c, s \in Action :
         /\ Len(y.sink) = 2 /\ y.sink[1] = c /\ y.sink[2] = s
         /\ c.type = "cancel" /\ c.ref \in EntryRefs
         /\ Places(s, "stop_loss") /\ s.side = Opposite(y.pos.side)
         /\ s.qty = orders[id].qty
  BY <1>10
<1>12. PICK f, nd, p, q : f = e' /\ nd = todo' /\ p = y.pos /\ q = y.sink
  OBVIOUS
<1>13. y \in Engine /\ f = [y EXCEPT !.sink = <<>>] /\ nd = [todo EXCEPT !["reader"] = q]
  BY <1>10, <1>12 DEF Handled, EngineSound
<1>14. f.pos = p /\ f.placed = e.placed /\ p # None /\ p.runnerQty \in Nat /\ Runner(f) = p.runnerQty
  BY <1>2, <1>10, <1>12, <1>13 DEF Engine, SameRange, Runner
<1>15. /\ \A task \in Tasks : nd[task] = IF task = "reader" THEN q ELSE todo[task]
       /\ q \in Seq(Action) /\ nd \in [Tasks -> Seq(Action)] /\ "reader" \in Tasks
  <2>1. q \in Seq(Action)
    BY <1>12, <1>13 DEF Engine
  <2> QED
    BY <1>1, <1>13, <2>1 DEF Tasks
<1>16. nd["loop"] = todo["loop"] /\ nd["reader"] = q
  BY <1>15 DEF Tasks
<1>17. \A i \in 1..Len(q) : i = 1 \/ i = 2
  <2>1. Len(q) = 2
    BY <1>11, <1>12
  <2> QED
    BY <2>1
<1>18. \A i \in 1..Len(q) : q[i].type \in {"place", "cancel"} /\ ~Cancels(q[i], "stop_loss")
  BY <1>11, <1>12, <1>17, RefsAre DEF Places, Cancels
<1>19. 2 \in 1..Len(q) /\ Places(q[2], "stop_loss") /\ Covers(p, q[2])
  <2>1. 2 \in 1..Len(q) /\ q[2] = s
    BY <1>11, <1>12
  <2>2. s.side = Opposite(p.side) /\ s.qty >= p.runnerQty
    BY <1>2, <1>10, <1>11, <1>12
  <2> QED
    BY <1>11, <2>1, <2>2 DEF Covers
<1>20. Begun(orders, nd["reader"])
  BY <1>16, <1>19 DEF Begun, WillPlace
<1>21. ASSUME NEW task \in Tasks
       PROVE  /\ Harmless(p, nd[task])
              /\ \A i \in 1..Len(nd[task]) : nd[task][i].type # "close"
  <2>1. CASE task = "reader"
    BY <1>15, <1>18, <2>1 DEF Harmless
  <2>2. CASE task # "reader"
    <3>1. PICK k : k = nd[task]
      OBVIOUS
    <3>2. OnlyEntries(k)
      BY <1>5, <1>15, <2>2, <3>1 DEF BeforeTrade
    <3>3. ASSUME NEW i \in 1..Len(k)
          PROVE  /\ ~Cancels(k[i], "stop_loss") /\ k[i].type # "modify_qty"
                 /\ k[i].type # "close"
      BY <3>2, RefsAre DEF OnlyEntries, Cancels
    <3> QED
      BY <3>1, <3>3 DEF Harmless
  <2> QED
    BY <2>1, <2>2
<1>22. StopAhead(p, nd["reader"], asked["reader"])
  <2>1. 2 # 1
    OBVIOUS
  <2> QED
    BY <1>16, <1>19, <2>1 DEF StopAhead
<1>23. Guarded(p, orders, frames', nd, asked["reader"])
  BY <1>21, <1>22 DEF Guarded
<1>24. EntryRead(frames', orders)
  <2> SUFFICES ASSUME NEW j \in DOMAIN frames', frames'[j].type = "fill",
                      orders[frames'[j].id].ref \in EntryRefs
               PROVE  FALSE
    BY DEF EntryRead
  <2>1. PICK i \in DOMAIN frames : i # 1 /\ frames'[j] = frames[i]
    BY <1>1, TailTold
  <2>2. frames[i].id \in FilledEntries(orders)
    BY <2>1 DEF Inv, FramesTrue, FilledEntries
  <2>3. frames[i].id = id
    <3>1. EntriesFilled = FilledEntries(orders)
      BY RefsAre DEF EntriesFilled, FilledEntries
    <3> QED
      BY <1>8, <2>2, <3>1, OneEntryIsOne DEF OneEntry
  <2> QED
    BY <1>3, <2>1, <2>3 DEF Inv, FramesTrue
<1>25. StopsNamed(t', orders, asked["reader"])
  BY <1>4 DEF Begun, StopsNamed
<1>26. t'.side = orders[id].side
  <2>1. orders[id].ref # "stop_loss" /\ orders[id].ref \in OrderRefs
    BY RefsAre
  <2> QED
    BY <1>1, <1>2, <1>7, <2>1, TrackFillIs
<1>27. BooksBalance(f, t'.side, nd, net)
  <2>1. net = SignedQty(orders[id].side, orders[id].qty)
    BY <1>5, <1>8 DEF BeforeTrade
  <2>2. Runner(f) = orders[id].qty
    BY <1>10, <1>12, <1>14
  <2>3. Runner(f) \in Nat /\ net = SignedQty(t'.side, Runner(f))
    BY <1>2, <1>26, <2>1, <2>2
  <2> QED
    BY <1>15, <1>21, <2>3, FreshBooks
<1>28. p.side = orders[id].side
  BY <1>10, <1>12
<1>29. InTrade'
  BY <1>8, <1>12, <1>14, <1>23, <1>24, <1>25, <1>26, <1>27, <1>28 DEF InTrade
<1>30. Armed(orders, nd["loop"]) => f.placed
  BY <1>6, <1>14
<1> QED
  BY <1>12, <1>20, <1>29, <1>30 DEF Trade

(* Reading a frame.                                                        *)
LEMMA ReadFrameTrades == ASSUME Inv, OneTrade, OneEntry', ReadFrame PROVE Trade'
<1>1. PICK frame, ref : frame = Head(frames) /\ ref = RefOf(t, frame.id)
  OBVIOUS
<1>2. /\ frames # <<>> /\ frames \in Seq(Frame) /\ frames' = Tail(frames)
      /\ todo["reader"] = <<>>
      /\ UNCHANGED <<asked, orders, net, mishaps, rows>>
  BY DEF ReadFrame, Idle, Inv, Types
<1>3. Trade /\ OneEntry
  <2>1. Grown(orders, orders')
    BY <1>2 DEF Grown, Inv, Types
  <2> QED
    BY <1>2, <2>1, OneEntryBefore DEF OneTrade
<1>4. CASE ref = None \/ frame.type # "fill"
  BY <1>1, <1>3, <1>4, OtherFrameTrades
<1>5. CASE ref # None /\ frame.type = "fill"
  <2>1. PICK id : id = frame.id
    OBVIOUS
  <2>2. id \in DOMAIN orders /\ ref = orders[id].ref
    BY <1>1, <1>5, <2>1, RefOfIs DEF Inv
  <2>3. orders[id] \in Order /\ t \in Broker
    BY <2>2 DEF Inv, Types
  <2>4. ref \in OrderRefs /\ orders[id].qty \in Nat
    BY <2>2, <2>3 DEF Order
  <2>5. 1 \in DOMAIN frames /\ frame = frames[1] /\ frame \in Frame
    BY <1>1, <1>2, TailIs
  <2>6. /\ orders[id].state = "filled" /\ frame.qty = orders[id].qty
        /\ frame.price \in Int
    BY <1>5, <2>1, <2>5 DEF Inv, FramesTrue, Frame
  <2>7. PICK fill, y : /\ fill = [ref |-> ref, price |-> frame.price, qty |-> frame.qty]
                       /\ y = Eng!OnFill(e, fill)
    OBVIOUS
  <2>8. Handled("reader", y) /\ t' = TrackFill(t, ref, frame.qty)
    BY <1>1, <1>5, <2>7 DEF ReadFrame
  <2>9. fill.ref = orders[id].ref /\ fill.qty = orders[id].qty /\ fill.price \in Int
    BY <2>2, <2>6, <2>7
  <2>10. CASE ref = "stop_loss"
    <3>1. t'.names = t.names
      BY <2>3, <2>4, <2>6, <2>8, TrackFillIs
    <3>2. \A j \in DOMAIN frames' : \E i \in DOMAIN frames : frames'[j] = frames[i]
      BY <1>2, TailTold
    <3>3. orders[id].ref = "stop_loss"
      BY <2>2, <2>10
    <3> QED
      BY <1>2, <1>3, <2>2, <2>6, <2>7, <2>8, <2>9, <3>1, <3>2, <3>3, StopFillTrades
  <2>11. CASE ref # "stop_loss"
    <3>1. orders[id].ref \in EntryRefs
      BY <2>2, <2>4, <2>11 DEF OrderRefs, EntryRefs
    <3>2. frames[1].type = "fill" /\ frames[1].id = id
      BY <1>5, <2>1, <2>5
    <3>3. t' = TrackFill(t, orders[id].ref, orders[id].qty)
      BY <2>2, <2>6, <2>8
    <3> QED
      BY <1>2, <1>3, <2>2, <2>6, <2>7, <2>8, <2>9, <3>1, <3>2, <3>3, EntryFillTrades
  <2> QED
    BY <2>10, <2>11
<1> QED
  BY <1>4, <1>5

-----------------------------------------------------------------------------
(* The trade's theorems.                                                   *)

(* OneTrade is an invariant: the steps after which it says nothing are     *)
(* those that befall a day.                                                *)
LEMMA NextTrades == ASSUME Inv, OneTrade, [Next]_vars PROVE OneTrade'
<1> SUFFICES ASSUME OneEntry' PROVE Trade'
  BY DEF OneTrade
<1>1. CASE UNCHANGED vars
  <2>1. UNCHANGED <<e, t, todo, asked, orders, net, frames, mishaps, rows>>
    BY <1>1 DEF vars, exchange, record
  <2>2. Grown(orders, orders')
    BY <2>1 DEF Grown, Inv, Types
  <2>3. Trade
    BY <2>1, <2>2, OneEntryBefore DEF OneTrade
  <2> QED
    BY <2>1, <2>3 DEF Trade, InTrade, BeforeTrade, Filled
<1>2. CASE Bar \/ WallClock \/ ReadFrame \/ Flatten \/ ExchangeFill
  BY <1>2, BarTrades, WallClockTrades, ReadFrameTrades, FlattenTrades, ExchangeFillTrades
<1>3. ~Restart
  BY DEF Restart, Befalls, OneEntry, Unbroken
<1>4. ASSUME NEW task \in Tasks, Step(task) PROVE Trade'
  <2>1. ~PlaceRejected(task) /\ ~CallRaises(task)
    BY DEF PlaceRejected, CallRaises, Befalls, OneEntry, Unbroken
  <2>2. ~RowFails(task)
    <3>1. rows \in Nat /\ rows' = 0
      BY LiveAssumption DEF Inv, Types, OneEntry, Unbroken
    <3> QED
      BY <3>1 DEF RowFails
  <2> QED
    BY <1>4, <2>1, <2>2, SkipPlaceTrades, SendPlaceTrades, PlaceAnsweredTrades, CancelTrades,
       CancelFailsTrades, ModifyTrades, CloseMarketTrades, ExitPrintedTrades DEF Step
<1> QED
  BY <1>1, <1>2, <1>3, <1>4 DEF Next

(* A day of one entry is a day of one trade: before the entry's fill is    *)
(* read the account holds what it brought in and nothing manages a         *)
(* position; from then on the position is guarded by its stop, and the     *)
(* account holds what the engine has and what is still to be closed.       *)
THEOREM OneTradeStays == Spec => []OneTrade
<1>1. Init => OneTrade
  <2> SUFFICES ASSUME Init PROVE Trade
    BY DEF OneTrade
  <2>1. /\ e = Eng!NewEngine(Eng!FreshDay, Equity, <<>>) /\ orders = <<>> /\ net = 0
        /\ todo = [task \in Tasks |-> <<>>] /\ t = NewBroker
    BY DEF Init
  <2>2. e.pos = None
    BY <2>1 DEF Eng!NewEngine, Eng!FreshDay
  <2>3. \A task \in Tasks : todo[task] = <<>>
    BY <2>1
  <2>4. t.side = None /\ DOMAIN orders = {} /\ Len(<<>>) = 0
    BY <2>1 DEF NewBroker
  <2>5. ~Armed(orders, todo["loop"]) /\ ~Begun(orders, todo["reader"])
    <3>1. todo["loop"] = <<>> /\ todo["reader"] = <<>>
      BY <2>3 DEF Tasks
    <3> QED
      BY <2>4, <3>1 DEF Armed, Begun, WillPlace
  <2>6. \A task \in Tasks : OnlyEntries(todo[task])
    BY <2>3, <2>4 DEF OnlyEntries
  <2>7. FilledEntries(orders) = {}
    BY <2>4 DEF FilledEntries
  <2> QED
    BY <2>1, <2>2, <2>4, <2>5, <2>6, <2>7 DEF Trade, BeforeTrade
<1>2. Inv /\ OneTrade /\ [Next]_vars => OneTrade'
  BY NextTrades
<1> QED
  BY <1>1, <1>2, Invariant, PTL DEF Spec

(* On such a day an open position never lacks its stop: it works at the    *)
(* exchange, or the reader is going to place it, or its fill is about to   *)
(* be read.                                                                *)
THEOREM Protected == Spec => []OpenIsProtected
<1>1. Inv /\ OneTrade => OpenIsProtected
  <2> SUFFICES ASSUME Inv, Trade, e.pos # None, OneEntry
               PROVE  OpenIsProtected
    BY DEF OneTrade, OpenIsProtected
  <2>1. InTrade
    BY DEF Trade, BeforeTrade
  <2>2. CASE StopStands(e.pos, orders, frames)
    <3>1. PICK id \in DOMAIN orders :
            /\ orders[id].ref = "stop_loss" /\ Covers(e.pos, orders[id])
            /\ orders[id].state = "working" \/ Told(frames, id)
      BY <2>2 DEF StopStands
    <3> QED
      BY <3>1 DEF OpenIsProtected, Covers, Told
  <2>3. CASE StopAhead(e.pos, todo["reader"], asked["reader"])
    <3>1. PICK i \in 1..Len(todo["reader"]) : Places(todo["reader"][i], "stop_loss")
      BY <2>3 DEF StopAhead
    <3>2. i \in DOMAIN todo["reader"]
      BY DEF Inv, Types, Tasks
    <3> QED
      BY <3>1, <3>2 DEF OpenIsProtected, Places
  <2> QED
    BY <2>1, <2>2, <2>3 DEF InTrade, Guarded
<1> QED
  BY <1>1, Invariant, OneTradeStays, PTL

(* And whenever every fill has been read and no close is still to be sent, *)
(* the account holds what the engine believes it holds: also after TP1,    *)
(* the cap, the hard close or /flatten, up to the row that then fails and  *)
(* ends the day that the property speaks of.                               *)
THEOREM BooksAgree == Spec => []SettledBooksAgree
<1>1. Inv /\ OneTrade => SettledBooksAgree
  <2> SUFFICES ASSUME Inv, Trade, Settled, t.side # None, ~Filled("stop_loss")
               PROVE  net = IF e.pos = None THEN 0 ELSE SignedQty(e.pos.side, e.pos.runnerQty)
    BY DEF OneTrade, SettledBooksAgree
  <2>1. InTrade
    BY DEF Trade, BeforeTrade
  <2>2. PICK entry \in FilledEntries(orders) :
          /\ e.pos # None => e.pos.side = orders[entry].side
          /\ t.side = orders[entry].side /\ BooksBalance(e, t.side, todo, net)
    BY <2>1 DEF InTrade
  <2>3. PICK n \in [Tasks -> Int] :
          /\ \A task \in Tasks : Owes(todo[task], n[task])
          /\ net = SignedQty(t.side, Runner(e) + Total(n))
    BY <2>2 DEF BooksBalance
  <2>4. \A task \in Tasks : n[task] = 0
    <3>1. ASSUME NEW task \in Tasks PROVE n[task] = 0
      <4>1. todo[task] \in Seq(Action) /\ Owes(todo[task], n[task])
        BY <2>3 DEF Inv, Types
      <4>2. \A i \in 1..Len(todo[task]) : todo[task][i].type # "close"
        BY <4>1 DEF Settled
      <4> QED
        BY <4>1, <4>2, OwesNone
    <3> QED
      BY <3>1
  <2>5. Total(n) = 0
    <3>1. n["loop"] = 0 /\ n["reader"] = 0 /\ n["operator"] = 0
      BY <2>4 DEF Tasks
    <3> QED
      BY <3>1 DEF Total
  <2>6. Runner(e) \in Nat
    BY SamePosition DEF Inv, Types
  <2>7. net = SignedQty(t.side, Runner(e))
    BY <2>3, <2>5, <2>6
  <2>8. t.side \in Sides
    BY DEF Inv, Types, Broker
  <2>9. CASE e.pos = None
    <3>1. Runner(e) = 0
      BY <2>9 DEF Runner
    <3>2. \A side \in Sides : SignedQty(side, 0) = 0
      BY SignedIs
    <3> QED
      BY <2>7, <2>8, <2>9, <3>1, <3>2
  <2>10. CASE e.pos # None
    BY <2>2, <2>7, <2>10 DEF Runner
  <2> QED
    BY <2>9, <2>10
<1> QED
  BY <1>1, Invariant, OneTradeStays, PTL

=============================================================================
