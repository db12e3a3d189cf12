---------------------------- MODULE BarFeedProofs ---------------------------
(***************************************************************************)
(* The polling bar source, for every market, window and length of the day, *)
(* and any number of time-outs and errors: the engine gets the bars in     *)
(* order and once, misses one only in a gap longer than a window, and      *)
(* knows the average and the candles of exactly the bars it got.           *)
(***************************************************************************)
EXTENDS BarFeed, SequenceTheorems, FiniteSetTheorems, TLAPS

MarketBar == [time : Int, high : Int, low : Int, close : Int]

IndicatorState ==
  [bucket : Int \cup {None}, high : Int, low : Int, close : Int, at : Int,
   closes : Seq(Int), candles : Seq(MarketBar), last : Int \cup {None}]

(* The indicators, with their deques inside their bounds.                  *)
Bounded(x) ==
  x \in IndicatorState /\ Len(x.closes) <= Period /\ Len(x.candles) <= HistoryLen

Increasing(s) == \A i, j \in 1..Len(s) : i < j => s[i] < s[j]

(* The minutes the session's engine has been given or is about to be given.*)
Passed == delivered \o queue

-----------------------------------------------------------------------------
(* The inductive invariant.                                                *)

Types ==
  /\ clock \in 0..EndTime /\ traded \subseteq 1..clock
  /\ lastSeen \in traded \cup {None}
  /\ queue \in Seq(traded) /\ answer \in Seq(traded) /\ delivered \in Seq(traded)
  /\ call \in {"idle", "asked", "answered", "asleep"}
  /\ Bounded(g)
  /\ timeouts \in 0..MaxTimeouts /\ errors \in 0..MaxErrors

(* A poll runs only with nothing queued, and holds an answer only once.    *)
OnePoll ==
  /\ answer # <<>> => call = "answered"
  /\ call # "idle" => queue = <<>>

InTimeOrder ==
  /\ Increasing(Passed)
  /\ lastSeen = IF Passed = <<>> THEN None ELSE Last(Passed)

(* How many of the minutes of a set are after minute m.                    *)
After(minutes, m) == Cardinality({k \in minutes : k > m})

(* An answer skips only what is older than a full window.                  *)
AnswerIsNewest ==
  /\ Increasing(answer)
  /\ \A m \in traded \ Range(answer) :
       (\E k \in Range(answer) : m < k) => After(Range(answer), m) >= Window

Inv == Types /\ OnePoll /\ InTimeOrder /\ AnswerIsNewest /\ OnlyLongGapsLoseBars
-----------------------------------------------------------------------------
(* Sequences of minutes.                                                   *)

(* The members of two sequences put together.                              *)
LEMMA RangeOfConcat ==
  ASSUME NEW S, NEW s \in Seq(S), NEW t \in Seq(S)
  PROVE  Range(s \o t) = Range(s) \cup Range(t)
<1> DEFINE u == s \o t
<1>1. /\ u \in Seq(S) /\ Len(u) = Len(s) + Len(t)
      /\ \A i \in 1..(Len(s) + Len(t)) : u[i] = IF i <= Len(s) THEN s[i] ELSE t[i - Len(s)]
  BY ConcatProperties
<1>2. /\ DOMAIN u = 1..Len(u) /\ DOMAIN s = 1..Len(s) /\ DOMAIN t = 1..Len(t)
      /\ Len(s) \in Nat /\ Len(t) \in Nat
  BY <1>1, LenProperties
<1> HIDE DEF u
<1>3. ASSUME NEW m \in Range(u) PROVE m \in Range(s) \cup Range(t)
  <2>1. PICK i \in 1..Len(u) : u[i] = m
    BY <1>2 DEF Range
  <2>2. CASE i <= Len(s)
    BY <1>1, <1>2, <2>1, <2>2 DEF Range
  <2>3. CASE ~(i <= Len(s))
    <3>1. i - Len(s) \in 1..Len(t) /\ t[i - Len(s)] = m
      BY <1>1, <1>2, <2>1, <2>3
    <3> QED
      BY <1>2, <3>1 DEF Range
  <2> QED
    BY <2>2, <2>3
<1>4. ASSUME NEW m \in Range(s) PROVE m \in Range(u)
  <2>1. PICK i \in 1..Len(s) : s[i] = m
    BY <1>2 DEF Range
  <2>2. i \in 1..Len(u) /\ u[i] = m
    BY <1>1, <1>2, <2>1
  <2> QED
    BY <1>2, <2>2 DEF Range
<1>5. ASSUME NEW m \in Range(t) PROVE m \in Range(u)
  <2>1. PICK i \in 1..Len(t) : t[i] = m
    BY <1>2 DEF Range
  <2>2. i + Len(s) \in 1..Len(u) /\ ~(i + Len(s) <= Len(s)) /\ (i + Len(s)) - Len(s) = i
    BY <1>1, <1>2, <2>1
  <2>3. u[i + Len(s)] = m
    BY <1>1, <2>1, <2>2
  <2> QED
    BY <1>2, <2>2, <2>3 DEF Range
<1> QED
  BY <1>3, <1>4, <1>5 DEF u

(* Two increasing sequences, the second after the first.                   *)
LEMMA IncreasingConcat ==
  ASSUME NEW S \in SUBSET Int, NEW s \in Seq(S), NEW t \in Seq(S),
         Increasing(s), Increasing(t),
         \A i \in 1..Len(s), j \in 1..Len(t) : s[i] < t[j]
  PROVE  Increasing(s \o t)
<1> DEFINE u == s \o t
<1>1. /\ Len(u) = Len(s) + Len(t) /\ Len(s) \in Nat /\ Len(t) \in Nat
      /\ \A i \in 1..(Len(s) + Len(t)) : u[i] = IF i <= Len(s) THEN s[i] ELSE t[i - Len(s)]
  BY ConcatProperties, LenProperties
<1> HIDE DEF u
<1> SUFFICES ASSUME NEW i \in 1..Len(u), NEW j \in 1..Len(u), i < j PROVE u[i] < u[j]
  BY DEF Increasing, u
<1>2. CASE j <= Len(s)
  BY <1>1, <1>2 DEF Increasing
<1>3. CASE i <= Len(s) /\ ~(j <= Len(s))
  <2>1. j - Len(s) \in 1..Len(t) /\ i \in 1..Len(s)
    BY <1>1, <1>3
  <2> QED
    BY <1>1, <1>3, <2>1
<1>4. CASE ~(i <= Len(s))
  <2>1. i - Len(s) \in 1..Len(t) /\ j - Len(s) \in 1..Len(t) /\ i - Len(s) < j - Len(s)
        /\ ~(j <= Len(s))
    BY <1>1, <1>4
  <2> QED
    BY <1>1, <1>4, <2>1 DEF Increasing
<1> QED
  BY <1>1, <1>2, <1>3, <1>4

(* Handing on the first bar of a queue and keeping the rest changes nothing*)
(* in what has been passed.                                                *)
LEMMA HandOn ==
  ASSUME NEW S, NEW s \in Seq(S), NEW t \in Seq(S), t # <<>>
  PROVE  /\ Append(s, Head(t)) \o Tail(t) = s \o t
         /\ Append(s, Head(t)) \in Seq(S) /\ Tail(t) \in Seq(S)
<1>1. /\ Head(t) \in S /\ Tail(t) \in Seq(S) /\ Len(t) \in Nat \ {0} /\ Len(s) \in Nat
      /\ Len(Tail(t)) = Len(t) - 1 /\ Head(t) = t[1]
      /\ \A i \in 1..Len(Tail(t)) : Tail(t)[i] = t[i + 1]
  BY HeadTailProperties, EmptySeq, LenProperties
<1> DEFINE a == Append(s, Head(t))
<1>2. /\ a \in Seq(S) /\ Len(a) = Len(s) + 1
      /\ \A i \in 1..Len(s) : a[i] = s[i]
      /\ a[Len(s) + 1] = t[1]
  BY <1>1, AppendProperties
<1> HIDE DEF a
<1>3. /\ a \o Tail(t) \in Seq(S) /\ Len(a \o Tail(t)) = Len(s) + Len(t)
      /\ \A i \in 1..(Len(s) + Len(t)) :
           (a \o Tail(t))[i] = IF i <= Len(s) + 1 THEN a[i] ELSE Tail(t)[i - (Len(s) + 1)]
  <2>1. /\ a \o Tail(t) \in Seq(S) /\ Len(a \o Tail(t)) = Len(a) + Len(Tail(t))
        /\ \A i \in 1..(Len(a) + Len(Tail(t))) :
             (a \o Tail(t))[i] = IF i <= Len(a) THEN a[i] ELSE Tail(t)[i - Len(a)]
    BY <1>1, <1>2, ConcatProperties
  <2>2. Len(a) + Len(Tail(t)) = Len(s) + Len(t)
    BY <1>1, <1>2
  <2> QED
    BY <1>2, <2>1, <2>2
<1>4. /\ s \o t \in Seq(S) /\ Len(s \o t) = Len(s) + Len(t)
      /\ \A i \in 1..(Len(s) + Len(t)) :
           (s \o t)[i] = IF i <= Len(s) THEN s[i] ELSE t[i - Len(s)]
  BY ConcatProperties
<1>5. \A i \in 1..(Len(s) + Len(t)) : (a \o Tail(t))[i] = (s \o t)[i]
  <2> SUFFICES ASSUME NEW i \in 1..(Len(s) + Len(t)) PROVE (a \o Tail(t))[i] = (s \o t)[i]
    OBVIOUS
  <2>1. CASE i <= Len(s)
    BY <1>1, <1>2, <1>3, <1>4, <2>1
  <2>2. CASE i = Len(s) + 1
    <3>1. ~(i <= Len(s)) /\ i - Len(s) = 1 /\ i <= Len(s) + 1
      BY <1>1, <2>2
    <3> QED
      BY <1>2, <1>3, <1>4, <2>2, <3>1
  <2>3. CASE i > Len(s) + 1
    <3>1. i - (Len(s) + 1) \in 1..Len(Tail(t)) /\ (i - (Len(s) + 1)) + 1 = i - Len(s)
          /\ ~(i <= Len(s) + 1) /\ ~(i <= Len(s))
      BY <1>1, <2>3
    <3> QED
      BY <1>1, <1>3, <1>4, <3>1
  <2>4. Len(s) \in Nat /\ Len(t) \in Nat
    BY <1>1
  <2>5. i <= Len(s) \/ i = Len(s) + 1 \/ i > Len(s) + 1
    BY <2>4
  <2> QED
    BY <2>1, <2>2, <2>3, <2>5
<1>6. a \o Tail(t) = s \o t
  BY <1>3, <1>4, <1>5, SeqEqual
<1> QED
  BY <1>1, <1>2, <1>6 DEF a
-----------------------------------------------------------------------------
(* Sorting.                                                                *)

(* How many members of a set come before m.                                *)
Rank(S, m) == Cardinality({k \in S : k < m})

(* Later members have higher ranks, and every rank below the size of the   *)
(* set occurs.                                                             *)
LEMMA Ranks ==
  ASSUME NEW S \in SUBSET Nat, IsFiniteSet(S)
  PROVE  /\ Cardinality(S) \in Nat
         /\ \A m \in S : Rank(S, m) \in 0..(Cardinality(S) - 1)
         /\ \A m, k \in S : m < k => Rank(S, m) < Rank(S, k)
         /\ \A n \in 0..(Cardinality(S) - 1) : \E m \in S : Rank(S, m) = n
<1> DEFINE before(m) == {k \in S : k < m}
<1>1. Cardinality(S) \in Nat
  BY FS_CardinalityType
<1>2. \A m \in S : IsFiniteSet(before(m)) /\ Cardinality(before(m)) \in Nat
  BY FS_Subset, FS_CardinalityType
<1>3. ASSUME NEW m \in S PROVE Rank(S, m) \in 0..(Cardinality(S) - 1)
  <2>1. IsFiniteSet(S \ {m}) /\ Cardinality(S \ {m}) = Cardinality(S) - 1
    BY FS_RemoveElement
  <2>2. before(m) \in SUBSET (S \ {m})
    OBVIOUS
  <2>3. Cardinality(before(m)) <= Cardinality(S \ {m})
    BY <2>1, <2>2, FS_Subset
  <2> QED
    BY <1>1, <1>2, <2>1, <2>3 DEF Rank
<1>4. ASSUME NEW m \in S, NEW k \in S, m < k PROVE Rank(S, m) < Rank(S, k)
  <2>1. before(m) \cup {m} \in SUBSET before(k) /\ m \notin before(m)
    <3>1. ASSUME NEW x \in before(m) \cup {m} PROVE x \in before(k)
      <4>1. x \in S /\ x \in Nat /\ m \in Nat /\ k \in Nat /\ (x < m \/ x = m)
        OBVIOUS
      <4> QED
        BY <1>4, <4>1
    <3>2. ~(m < m)
      <4>1. m \in Nat
        OBVIOUS
      <4> QED
        BY <4>1
    <3> QED
      BY <3>1, <3>2
  <2>2. Cardinality(before(m) \cup {m}) = Cardinality(before(m)) + 1
    BY <1>2, <2>1, FS_AddElement
  <2>3. Cardinality(before(m) \cup {m}) <= Cardinality(before(k))
    BY <1>2, <2>1, FS_Subset
  <2> QED
    BY <1>2, <2>2, <2>3 DEF Rank
<1>5. \A n \in 0..(Cardinality(S) - 1) : \E m \in S : Rank(S, m) = n
  <2> DEFINE n == Cardinality(S) - 1
             N == 0..n
             f == [m \in S |-> Rank(S, m)]
  <2>1. IsFiniteSet(N) /\ Cardinality(N) = Cardinality(S)
    <3>1. IsFiniteSet(N) /\ Cardinality(N) = IF 0 > n THEN 0 ELSE n - 0 + 1
      BY <1>1, FS_Interval DEF n
    <3> QED
      BY <1>1, <3>1 DEF n
  <2>2. f \in [S -> N] /\ \A m \in S : f[m] = Rank(S, m)
    BY <1>3
  <2>3. \A m, k \in S : f[m] = f[k] => m = k
    <3> SUFFICES ASSUME NEW m \in S, NEW k \in S, f[m] = f[k] PROVE m = k
      OBVIOUS
    <3>1. Rank(S, m) \in Int /\ Rank(S, k) \in Int /\ Rank(S, m) = Rank(S, k)
      BY <1>3, <2>2
    <3>2. ~(m < k) /\ ~(k < m)
      BY <1>4, <3>1
    <3> QED
      BY <3>2
  <2> HIDE DEF f, N
  <2>4. f \in Injection(S, N)
    BY <2>2, <2>3 DEF Injection, IsInjective
  <2>5. f \in Surjection(S, N)
    BY <2>1, <2>4, FS_Injection
  <2>6. \A r \in N : \E m \in S : f[m] = r
    BY <2>5 DEF Surjection
  <2> QED
    BY <2>2, <2>6 DEF N
<1> QED
  BY <1>1, <1>3, <1>4, <1>5

(* InOrder lists a set once, by time.                                      *)
LEMMA InOrderSorts ==
  ASSUME NEW S \in SUBSET Nat, IsFiniteSet(S)
  PROVE  /\ InOrder(S) \in Seq(S) /\ Len(InOrder(S)) = Cardinality(S)
         /\ Cardinality(S) \in Nat
         /\ Range(InOrder(S)) = S
         /\ Increasing(InOrder(S))
<1> DEFINE n == Cardinality(S)
           s == InOrder(S)
           at(i) == CHOOSE m \in S : Rank(S, m) = i - 1
<1>1. n \in Nat
  BY Ranks
<1>2. s = [i \in 1..n |-> at(i)]
  BY DEF InOrder, Rank
<1>3. ASSUME NEW i \in 1..n PROVE at(i) \in S /\ Rank(S, at(i)) = i - 1
  <2>1. i - 1 \in 0..(n - 1)
    BY <1>1
  <2>2. \E m \in S : Rank(S, m) = i - 1
    BY <2>1, Ranks
  <2> QED
    BY <2>2
<1> HIDE DEF n, at, s
<1>4. s \in Seq(S) /\ Len(s) = n /\ DOMAIN s = 1..n /\ \A i \in 1..n : s[i] = at(i)
  BY <1>1, <1>2, <1>3
<1>5. \A i \in 1..n : s[i] \in S /\ Rank(S, s[i]) = i - 1
  BY <1>3, <1>4
<1>6. Range(s) = S
  <2>1. Range(s) \subseteq S
    BY <1>4, <1>5 DEF Range
  <2>2. ASSUME NEW m \in S PROVE m \in Range(s)
    <3> DEFINE i == Rank(S, m) + 1
    <3>1. Rank(S, m) \in 0..(n - 1)
      BY Ranks DEF n
    <3>2. i \in 1..n /\ i - 1 = Rank(S, m)
      BY <1>1, <3>1
    <3>3. s[i] \in S /\ Rank(S, s[i]) = Rank(S, m)
      BY <1>5, <3>2
    <3>4. s[i] \in Nat /\ m \in Nat
      BY <3>3
    <3>5. ~(s[i] < m) /\ ~(m < s[i])
      <4>1. Rank(S, m) \in Int /\ Rank(S, s[i]) \in Int
        BY <3>1, <3>3
      <4>2. s[i] < m => Rank(S, s[i]) < Rank(S, m)
        BY <3>3, Ranks
      <4>3. m < s[i] => Rank(S, m) < Rank(S, s[i])
        BY <3>3, Ranks
      <4> QED
        BY <3>3, <4>1, <4>2, <4>3
    <3>6. s[i] = m
      BY <3>4, <3>5
    <3> QED
      BY <1>4, <3>2, <3>6 DEF Range
  <2> QED
    BY <2>1, <2>2
<1>7. Increasing(s)
  <2> SUFFICES ASSUME NEW i \in 1..n, NEW j \in 1..n, i < j PROVE s[i] < s[j]
    BY <1>4 DEF Increasing
  <2>1. /\ s[i] \in S /\ s[j] \in S /\ Rank(S, s[i]) = i - 1 /\ Rank(S, s[j]) = j - 1
        /\ s[i] \in Nat /\ s[j] \in Nat
    BY <1>5
  <2>2. ~(s[j] < s[i])
    BY <1>1, <2>1, Ranks
  <2>3. s[i] # s[j]
    BY <1>1, <2>1
  <2> QED
    BY <2>1, <2>2, <2>3
<1> QED
  BY <1>1, <1>4, <1>6, <1>7 DEF n, s
(* An increasing sequence has as many members as places.                   *)
LEMMA IncreasingCounts ==
  ASSUME NEW S \in SUBSET Int, NEW s \in Seq(S), Increasing(s)
  PROVE  IsFiniteSet(Range(s)) /\ Cardinality(Range(s)) = Len(s)
<1> DEFINE n == Len(s)
<1>1. n \in Nat /\ DOMAIN s = 1..n /\ s \in [1..n -> S]
  BY LenProperties
<1>2. IsFiniteSet(1..n) /\ Cardinality(1..n) = n
  <2>1. IsFiniteSet(1..n) /\ Cardinality(1..n) = IF 1 > n THEN 0 ELSE n - 1 + 1
    BY <1>1, FS_Interval
  <2> QED
    BY <1>1, <2>1
<1>3. \A i, j \in 1..n : s[i] = s[j] => i = j
  <2> SUFFICES ASSUME NEW i \in 1..n, NEW j \in 1..n, s[i] = s[j] PROVE i = j
    OBVIOUS
  <2>1. s[i] \in Int /\ s[j] \in Int
    BY <1>1
  <2>2. ~(i < j) /\ ~(j < i)
    BY <2>1 DEF Increasing
  <2> QED
    BY <1>1, <2>2
<1> HIDE DEF n
<1>4. s \in [1..n -> Range(s)]
  BY <1>1 DEF Range
<1>5. s \in Injection(1..n, Range(s))
  BY <1>1, <1>3, <1>4 DEF Injection, IsInjective
<1>6. s \in Surjection(1..n, Range(s))
  BY <1>1, <1>4 DEF Surjection, Range
<1>7. ExistsBijection(1..n, Range(s))
  BY <1>5, <1>6 DEF ExistsBijection, Bijection
<1> QED
  BY <1>2, <1>7, FS_Bijection DEF n

(* What is traded is a finite set of minutes.                              *)
LEMMA TradedFinite ==
  ASSUME Types
  PROVE  traded \in SUBSET Nat /\ IsFiniteSet(traded)
<1>1. clock \in Nat /\ traded \in SUBSET (1..clock)
  BY FeedAssumption DEF Types
<1>2. IsFiniteSet(1..clock)
  BY <1>1, FS_Interval
<1>3. IsFiniteSet(traded)
  BY <1>1, <1>2, FS_Subset
<1> QED
  BY <1>1, <1>3

(* get_recent_bars: the newest minutes with a bar, in order; those left    *)
(* out are older than all of them.                                         *)
LEMMA RecentIsNewest ==
  ASSUME Types, NEW n \in Nat \ {0}
  PROVE  /\ Recent(n) \in Seq(traded)
         /\ Increasing(Recent(n))
         /\ \A m \in traded \ Range(Recent(n)) :
              (\E k \in Range(Recent(n)) : m < k) => After(Range(Recent(n)), m) >= n
<1> DEFINE all == InOrder(traded)
           s == Recent(n)
<1>1. /\ all \in Seq(traded) /\ Range(all) = traded /\ Increasing(all)
      /\ Len(all) \in Nat /\ DOMAIN all = 1..Len(all) /\ traded \in SUBSET Nat
  BY TradedFinite, InOrderSorts, LenProperties
<1>2. s = IF Len(all) <= n THEN all ELSE SubSeq(all, Len(all) + 1 - n, Len(all))
  BY DEF Recent
<1> HIDE DEF all, s
<1>3. CASE Len(all) <= n
  BY <1>1, <1>2, <1>3 DEF s
<1>4. CASE ~(Len(all) <= n)
  <2> DEFINE d == Len(all) - n
  <2>1. d \in Nat /\ d + n = Len(all)
    BY <1>1, <1>4
  <2>2. /\ s \in Seq(traded) /\ Len(s) = n
        /\ \A i \in 1..n : s[i] = all[d + i] /\ d + i \in 1..Len(all)
    <3> DEFINE a == Len(all) + 1 - n
               b == Len(all)
    <3>1. a \in 1..b /\ b \in Int /\ a \in Int /\ b - a + 1 = n
      BY <1>1, <1>4
    <3>2. \A i \in a..b : all[i] \in traded
      BY <1>1, <3>1, ElementOfSeq
    <3>3. s = SubSeq(all, a, b)
      BY <1>2, <1>4
    <3> HIDE DEF a, b
    <3>4. /\ s \in Seq(traded) /\ Len(s) = IF a <= b THEN b - a + 1 ELSE 0
          /\ \A i \in 1..(b - a + 1) : s[i] = all[a + i - 1]
      BY <3>1, <3>2, <3>3, SubSeqProperties
    <3>5. \A i \in 1..n : a + i - 1 = d + i /\ d + i \in 1..Len(all)
      BY <1>1, <1>4 DEF a, d
    <3>6. Len(s) = n
      BY <3>1, <3>4
    <3>7. \A i \in 1..n : s[i] = all[d + i]
      BY <3>1, <3>4, <3>5
    <3> QED
      BY <3>4, <3>5, <3>6, <3>7
  <2> HIDE DEF d
  <2>3. Increasing(s)
    <3> SUFFICES ASSUME NEW i \in 1..n, NEW j \in 1..n, i < j PROVE s[i] < s[j]
      BY <2>2 DEF Increasing
    <3>1. d + i \in 1..Len(all) /\ d + j \in 1..Len(all) /\ d + i < d + j
      BY <2>1, <2>2
    <3> QED
      BY <1>1, <2>2, <3>1 DEF Increasing
  <2>4. ASSUME NEW m \in traded \ Range(s) PROVE After(Range(s), m) >= n
    <3>1. PICK j \in 1..Len(all) : all[j] = m
      BY <1>1 DEF Range
    <3>2. DOMAIN s = 1..n
      BY <2>2, LenProperties
    <3>3. j <= d
      <4> SUFFICES ASSUME j > d PROVE FALSE
        BY <2>1
      <4>1. j - d \in 1..n /\ d + (j - d) = j
        BY <2>1
      <4>2. s[j - d] = m
        BY <2>2, <3>1, <4>1
      <4> QED
        BY <2>4, <3>2, <4>1, <4>2 DEF Range
    <3>4. \A i \in 1..n : s[i] > m
      <4> SUFFICES ASSUME NEW i \in 1..n PROVE s[i] > m
        OBVIOUS
      <4>1. d + i \in 1..Len(all) /\ j < d + i
        BY <2>1, <2>2, <3>3
      <4>2. all[j] < all[d + i]
        BY <1>1, <4>1 DEF Increasing
      <4>3. all[j] \in Nat /\ all[d + i] \in Nat
        BY <1>1, <4>1, ElementOfSeq
      <4> QED
        BY <2>2, <3>1, <4>2, <4>3
    <3>5. {k \in Range(s) : k > m} = Range(s)
      BY <3>2, <3>4 DEF Range
    <3>6. Cardinality(Range(s)) = n
      <4>1. traded \in SUBSET Int
        BY <1>1
      <4> QED
        BY <2>2, <2>3, <4>1, IncreasingCounts
    <3>7. After(Range(s), m) = n
      BY <3>5, <3>6 DEF After
    <3> QED
      BY <3>7
  <2> QED
    BY <2>2, <2>3, <2>4 DEF s
<1> QED
  BY <1>3, <1>4

(* Those of the answer that are new, in order.                             *)
LEMMA NewBarsSorted ==
  ASSUME Types, AnswerIsNewest
  PROVE  /\ NewBars(answer) \in Seq(traded)
         /\ Increasing(NewBars(answer))
         /\ Range(NewBars(answer)) = {m \in Range(answer) : lastSeen = None \/ m > lastSeen}
<1> DEFINE S == {m \in Range(answer) : lastSeen = None \/ m > lastSeen}
<1>1. traded \in SUBSET Nat /\ IsFiniteSet(traded)
  BY TradedFinite
<1>2. Range(answer) \subseteq traded
  <2>1. answer \in Seq(traded)
    BY DEF Types
  <2>2. DOMAIN answer = 1..Len(answer) /\ \A i \in 1..Len(answer) : answer[i] \in traded
    BY <2>1, LenProperties
  <2> QED
    BY <2>2 DEF Range
<1>3. S \in SUBSET Nat /\ IsFiniteSet(S) /\ S \subseteq traded
  <2>1. S \in SUBSET traded
    BY <1>2
  <2> QED
    BY <1>1, <2>1, FS_Subset
<1>4. NewBars(answer) = InOrder(S)
  BY DEF NewBars
<1> HIDE DEF S
<1>5. InOrder(S) \in Seq(S) /\ Range(InOrder(S)) = S /\ Increasing(InOrder(S))
  BY <1>3, InOrderSorts
<1>6. InOrder(S) \in Seq(traded)
  BY <1>3, <1>5, SeqMonotonic
<1> QED
  BY <1>4, <1>5, <1>6 DEF S
-----------------------------------------------------------------------------
(* The indicators.                                                         *)

(* deque(maxlen = n): a bounded sequence stays bounded.                    *)
LEMMA PushBounded ==
  ASSUME NEW S, NEW s \in Seq(S), NEW x \in S, NEW n \in Nat \ {0}, Len(s) <= n
  PROVE  Push(s, x, n) \in Seq(S) /\ Len(Push(s, x, n)) <= n
<1>1. Len(s) \in Nat
  BY LenProperties
<1>2. CASE Len(s) < n
  <2>1. Append(s, x) \in Seq(S) /\ Len(Append(s, x)) = Len(s) + 1
    BY AppendProperties
  <2> QED
    BY <1>1, <1>2, <2>1 DEF Push
<1>3. CASE ~(Len(s) < n)
  <2>1. s # <<>>
    BY <1>1, <1>3, EmptySeq
  <2>2. Tail(s) \in Seq(S) /\ Len(Tail(s)) = Len(s) - 1
    BY <2>1, HeadTailProperties
  <2>3. Append(Tail(s), x) \in Seq(S) /\ Len(Append(Tail(s), x)) = Len(Tail(s)) + 1
    BY <2>2, AppendProperties
  <2> QED
    BY <1>1, <1>3, <2>2, <2>3 DEF Push
<1> QED
  BY <1>2, <1>3

(* A new engine's indicators know nothing.                                 *)
LEMMA NewBounded == Bounded(NewIndicators)
<1>1. /\ <<>> \in Seq(Int) /\ <<>> \in Seq(MarketBar) /\ Len(<<>>) = 0
  BY EmptySeq
<1> QED
  BY <1>1, IndicatorsAssumption DEF Bounded, IndicatorState, NewIndicators

(* One bar, completing a candle or not.                                    *)
LEMMA FeedBounded ==
  ASSUME NEW x, Bounded(x), NEW bar \in MarketBar
  PROVE  Bounded(Feed(x, bar))
<1> DEFINE p == [x EXCEPT !.last = bar.close]
           candle == Completed(x, bar)
           y == StartBucket(p, bar)
<1>1. x \in IndicatorState /\ bar.time \in Int /\ bar.high \in Int /\ bar.low \in Int
      /\ bar.close \in Int
  BY DEF Bounded, MarketBar
<1>2. p \in IndicatorState /\ p.closes = x.closes /\ p.candles = x.candles
  BY <1>1 DEF IndicatorState
<1>3. BucketStart(bar.time) \in Int
  BY <1>1, IndicatorsAssumption DEF BucketStart
<1>4. y \in IndicatorState /\ y.closes = x.closes /\ y.candles = x.candles
  BY <1>1, <1>2, <1>3 DEF StartBucket, IndicatorState
<1>5. /\ Widen(p, bar) \in IndicatorState
      /\ Widen(p, bar).closes = x.closes /\ Widen(p, bar).candles = x.candles
  <2>1. /\ p.high \in Int /\ p.low \in Int
        /\ Widen(p, bar) = [p EXCEPT !.high = Max2(p.high, bar.high),
                                     !.low = Min2(p.low, bar.low),
                                     !.close = bar.close, !.at = bar.time]
    BY <1>2 DEF Widen, IndicatorState
  <2>2. Max2(p.high, bar.high) \in Int /\ Min2(p.low, bar.low) \in Int
    BY <1>1, <2>1 DEF Max2, Min2
  <2> QED
    BY <1>1, <1>2, <2>1, <2>2 DEF IndicatorState
<1>6. /\ x.closes \in Seq(Int) /\ x.candles \in Seq(MarketBar)
      /\ Len(x.closes) <= Period /\ Len(x.candles) <= HistoryLen
      /\ Period \in Nat \ {0} /\ HistoryLen \in Nat \ {0}
  BY IndicatorsAssumption DEF Bounded, IndicatorState
<1>7. ASSUME candle # None
      PROVE  Bounded([y EXCEPT !.closes  = Push(y.closes, candle.close, Period),
                               !.candles = Push(y.candles, candle, HistoryLen)])
  <2>1. candle = [time |-> x.at, high |-> x.high, low |-> x.low, close |-> x.close]
    BY <1>7 DEF Completed
  <2>2. candle \in MarketBar /\ candle.close \in Int
    BY <1>1, <2>1 DEF MarketBar, IndicatorState
  <2> HIDE DEF candle, y
  <2>3. /\ Push(y.closes, candle.close, Period) \in Seq(Int)
        /\ Len(Push(y.closes, candle.close, Period)) <= Period
    BY <1>4, <1>6, <2>2, PushBounded
  <2>4. /\ Push(y.candles, candle, HistoryLen) \in Seq(MarketBar)
        /\ Len(Push(y.candles, candle, HistoryLen)) <= HistoryLen
    BY <1>4, <1>6, <2>2, PushBounded
  <2> QED
    BY <1>4, <2>3, <2>4 DEF Bounded, IndicatorState
<1>8. Bounded(y) /\ Bounded(Widen(p, bar))
  BY <1>4, <1>5, <1>6 DEF Bounded
<1>9. Feed(x, bar) = IF x.bucket = None THEN y
                     ELSE IF candle = None THEN Widen(p, bar)
                     ELSE [y EXCEPT !.closes  = Push(y.closes, candle.close, Period),
                                    !.candles = Push(y.candles, candle, HistoryLen)]
  <2>1. y.closes = y.closes
    OBVIOUS
  <2> QED
    BY DEF Feed
<1> QED
  BY <1>7, <1>8, <1>9

(* The bars of traded minutes are bars.                                    *)
LEMMA BarOfMinute ==
  ASSUME Types, NEW m \in traded
  PROVE  BarOf(m) \in MarketBar /\ m \in Nat
<1>1. m \in 1..EndTime /\ m \in Nat
  BY FeedAssumption DEF Types
<1>2. Shape[m] \in [high : Int, low : Int, close : Int]
  BY <1>1, FeedAssumption
<1> QED
  BY <1>1, <1>2 DEF BarOf, MarketBar

(* A non-empty set of naturals has a least element.                        *)
LEMMA LeastExists ==
  ASSUME NEW S, S \subseteq Nat, S # {}
  PROVE  \E d \in S : \A x \in S : d <= x
<1>1. \E d \in S : \A x \in S : ~(<<x, d>> \in OpToRel(<, Nat))
  BY WFMin, NatLessThanWellFounded
<1>2. \A x, d \in S : ~(<<x, d>> \in OpToRel(<, Nat)) => d <= x
  BY DEF OpToRel
<1> QED
  BY <1>1, <1>2

(* A warm-up over any bars, bar by bar.  The recursive function is there   *)
(* for every length: a least length without one would extend the one       *)
(* before it.                                                              *)
LEMMA WarmedUpSteps ==
  ASSUME NEW x, NEW bars \in Seq(MarketBar)
  PROVE  \E after :
           /\ WarmedUp(x, bars) = after[Len(bars)]
           /\ \A i \in 0..Len(bars) : after[i] = IF i = 0 THEN x ELSE Feed(after[i - 1], bars[i])
<1> DEFINE n == Len(bars)
           Follow(f, k) == f = [i \in 0..k |-> IF i = 0 THEN x ELSE Feed(f[i - 1], bars[i])]
           Missing == {k \in Nat : ~\E f : Follow(f, k)}
<1>1. n \in Nat /\ \A i \in 1..n : bars[i] \in MarketBar
  BY LenProperties, ElementOfSeq
<1>2. \E f : Follow(f, 0)
  <2> DEFINE f == [i \in 0..0 |-> x]
  <2>1. Follow(f, 0)
    OBVIOUS
  <2> QED
    BY <2>1
<1>3. ASSUME NEW k \in Nat, NEW f, Follow(f, k) PROVE \E h : Follow(h, k + 1)
  <2> DEFINE h == [i \in 0..(k + 1) |-> IF i <= k THEN f[i] ELSE Feed(f[k], bars[k + 1])]
  <2>1. \A i \in 0..(k + 1) : h[i] = IF i = 0 THEN x ELSE Feed(h[i - 1], bars[i])
    <3> SUFFICES ASSUME NEW i \in 0..(k + 1)
                 PROVE  h[i] = IF i = 0 THEN x ELSE Feed(h[i - 1], bars[i])
      OBVIOUS
    <3>1. \A j \in 0..k : f[j] = IF j = 0 THEN x ELSE Feed(f[j - 1], bars[j])
      <4> DEFINE r == [j \in 0..k |-> IF j = 0 THEN x ELSE Feed(f[j - 1], bars[j])]
      <4>1. \A j \in 0..k : r[j] = IF j = 0 THEN x ELSE Feed(f[j - 1], bars[j])
        OBVIOUS
      <4>2. f = r
        BY <1>3
      <4> QED
        BY <4>1, <4>2
    <3>2. CASE i = 0
      BY <3>1, <3>2
    <3>3. CASE i # 0 /\ i <= k
      <4>1. i - 1 \in 0..(k + 1) /\ i - 1 <= k /\ i \in 0..k
        BY <3>3
      <4>2. h[i - 1] = f[i - 1] /\ h[i] = f[i]
        BY <3>3, <4>1
      <4> QED
        BY <3>1, <3>3, <4>1, <4>2
    <3>4. CASE ~(i <= k)
      <4>1. i = k + 1 /\ i - 1 = k /\ i # 0 /\ k \in 0..(k + 1)
        BY <3>4
      <4>2. h[i] = Feed(f[k], bars[k + 1]) /\ h[k] = f[k]
        BY <3>4, <4>1
      <4> QED
        BY <4>1, <4>2
    <3> QED
      BY <3>2, <3>3, <3>4
  <2>2. Follow(h, k + 1)
    <3> DEFINE r == [i \in 0..(k + 1) |-> IF i = 0 THEN x ELSE Feed(h[i - 1], bars[i])]
    <3>1. \A i \in 0..(k + 1) : h[i] = r[i]
      BY <2>1
    <3>2. h = [i \in 0..(k + 1) |-> h[i]] /\ r = [i \in 0..(k + 1) |-> r[i]]
      OBVIOUS
    <3> HIDE DEF h, r
    <3>3. h = r
      BY <3>1, <3>2
    <3> QED
      BY <3>3 DEF r
  <2> HIDE DEF h
  <2> QED
    BY <2>2
<1>4. \A k \in Nat : \E f : Follow(f, k)
  <2> SUFFICES ASSUME Missing # {} PROVE FALSE
    OBVIOUS
  <2>1. PICK k \in Missing : \A j \in Missing : k <= j
    BY LeastExists
  <2>2. k \in Nat /\ ~\E f : Follow(f, k)
    BY <2>1
  <2>3. k # 0
    BY <1>2, <2>2
  <2>4. k - 1 \in Nat /\ k - 1 \notin Missing /\ (k - 1) + 1 = k
    <3>1. k - 1 \in Nat /\ (k - 1) + 1 = k /\ ~(k <= k - 1)
      BY <2>2, <2>3
    <3> HIDE DEF Missing
    <3> QED
      BY <2>1, <3>1
  <2>5. \E f : Follow(f, k - 1)
    BY <2>4
  <2>6. \E h : Follow(h, (k - 1) + 1)
    BY <1>3, <2>4, <2>5
  <2> QED
    BY <2>2, <2>4, <2>6
<1> DEFINE after == CHOOSE f : Follow(f, n)
<1>5. WarmedUp(x, bars) = after[n]
  BY DEF WarmedUp
<1>6. Follow(after, n)
  <2>1. \E f : Follow(f, n)
    BY <1>1, <1>4
  <2> QED
    BY <2>1
<1>7. \A i \in 0..n : after[i] = IF i = 0 THEN x ELSE Feed(after[i - 1], bars[i])
  <2> DEFINE r == [i \in 0..n |-> IF i = 0 THEN x ELSE Feed(after[i - 1], bars[i])]
  <2>1. \A i \in 0..n : r[i] = IF i = 0 THEN x ELSE Feed(after[i - 1], bars[i])
    OBVIOUS
  <2>2. after = r
    BY <1>6
  <2> HIDE DEF after
  <2> QED
    BY <2>1, <2>2
<1> HIDE DEF after
<1> QED
  BY <1>5, <1>7

(* A warm-up keeps the indicators within their bounds.                     *)
LEMMA WarmedUpBounded ==
  ASSUME NEW x, Bounded(x), NEW bars \in Seq(MarketBar)
  PROVE  Bounded(WarmedUp(x, bars))
<1> DEFINE n == Len(bars)
<1>1. n \in Nat /\ \A i \in 1..n : bars[i] \in MarketBar
  BY LenProperties, ElementOfSeq
<1>2. PICK after :
        /\ WarmedUp(x, bars) = after[n]
        /\ \A i \in 0..n : after[i] = IF i = 0 THEN x ELSE Feed(after[i - 1], bars[i])
  BY WarmedUpSteps
<1>3. \A i \in 0..n : Bounded(after[i])
  <2> DEFINE Bad == {i \in 0..n : ~Bounded(after[i])}
  <2> SUFFICES ASSUME Bad # {} PROVE FALSE
    OBVIOUS
  <2>1. PICK k \in Bad : \A j \in Bad : k <= j
    <3>1. Bad \subseteq Nat
      OBVIOUS
    <3> QED
      BY <3>1, LeastExists
  <2>2. k \in 0..n /\ ~Bounded(after[k])
    BY <2>1
  <2>3. k # 0
    BY <1>1, <1>2, <2>2
  <2>4. k - 1 \in 0..n /\ k - 1 \notin Bad /\ k \in 1..n
    BY <1>1, <2>1, <2>2, <2>3
  <2>5. Bounded(after[k - 1]) /\ bars[k] \in MarketBar
    BY <1>1, <2>4
  <2>6. after[k] = Feed(after[k - 1], bars[k])
    BY <1>2, <2>2, <2>3
  <2> QED
    BY <2>2, <2>5, <2>6, FeedBounded
<1> QED
  BY <1>1, <1>2, <1>3
-----------------------------------------------------------------------------
(* The actions.                                                            *)

(* Nothing has happened yet.                                               *)
LEMMA InitInv == Init => Inv
<1> SUFFICES ASSUME Init PROVE Inv
  OBVIOUS
<1>1. /\ clock = 0 /\ traded = {} /\ lastSeen = None /\ queue = <<>> /\ call = "idle"
      /\ answer = <<>> /\ g = NewIndicators /\ delivered = <<>>
      /\ timeouts = 0 /\ errors = 0
  BY DEF Init
<1>2. <<>> \in Seq(traded) /\ Len(<<>>) = 0 /\ Passed = <<>>
  BY <1>1, EmptySeq, ConcatEmptySeq DEF Passed
<1>3. Types
  BY <1>1, <1>2, NewBounded, FeedAssumption DEF Types
<1>4. Increasing(<<>>)
  BY <1>2 DEF Increasing
<1>5. InTimeOrder /\ AnswerIsNewest
  BY <1>1, <1>2, <1>4 DEF InTimeOrder, AnswerIsNewest
<1>6. OnlyLongGapsLoseBars
  BY <1>1 DEF OnlyLongGapsLoseBars
<1> QED
  BY <1>1, <1>3, <1>5, <1>6 DEF Inv, OnePoll

(* What a source that is left alone has passed on.                         *)
LEMMA SourceUnchanged ==
  ASSUME Inv, lastSeen' = lastSeen, delivered' \o queue' = delivered \o queue,
         traded' = traded
  PROVE  InTimeOrder' /\ OnlyLongGapsLoseBars'
BY DEF Inv, InTimeOrder, OnlyLongGapsLoseBars, Passed

(* The market moves on: the new minute is after everything passed on or    *)
(* answered.                                                               *)
LEMMA MinuteInv == ASSUME Inv, Minute PROVE Inv'
<1>1. /\ clock' = clock + 1 /\ clock < EndTime
      /\ traded' \in {traded, traded \cup {clock'}}
      /\ lastSeen' = lastSeen /\ queue' = queue /\ call' = call /\ answer' = answer
      /\ g' = g /\ delivered' = delivered /\ timeouts' = timeouts /\ errors' = errors
      /\ Types /\ clock \in Nat /\ EndTime \in Nat
  BY FeedAssumption DEF Minute, source, Inv, Types
<1>2. traded \subseteq traded' /\ traded' \subseteq 1..clock'
  BY <1>1 DEF Types
<1>3. \A m \in traded' \ traded : m = clock + 1
  BY <1>1
<1>4. \A m \in traded : m \in Nat /\ m < clock + 1
  BY <1>1 DEF Types
<1>5. /\ queue \in Seq(traded') /\ answer \in Seq(traded') /\ delivered \in Seq(traded')
  BY <1>1, <1>2, SeqMonotonic DEF Types
<1>6. Types'
  BY <1>1, <1>2, <1>5 DEF Types
<1>7. InTimeOrder' /\ OnePoll'
  BY <1>1 DEF Inv, InTimeOrder, OnePoll, Passed
<1>8. Range(answer) \subseteq traded
  <2>1. DOMAIN answer = 1..Len(answer) /\ \A i \in 1..Len(answer) : answer[i] \in traded
    BY <1>1, LenProperties, ElementOfSeq DEF Types
  <2> QED
    BY <2>1 DEF Range
<1>9. AnswerIsNewest'
  <2> SUFFICES ASSUME NEW m \in traded' \ Range(answer), NEW k \in Range(answer), m < k
               PROVE  After(Range(answer), m) >= Window
    BY <1>1 DEF Inv, AnswerIsNewest, After
  <2>1. m \in traded
    BY <1>1, <1>3, <1>4, <1>8
  <2> QED
    BY <2>1 DEF Inv, AnswerIsNewest
<1>10. OnlyLongGapsLoseBars'
  <2> SUFFICES ASSUME NEW m \in traded', lastSeen # None, m < lastSeen,
                      m \notin Range(delivered \o queue)
               PROVE  Cardinality({k \in Range(delivered \o queue) : k > m}) >= Window
    BY <1>1 DEF OnlyLongGapsLoseBars
  <2>1. lastSeen \in traded
    BY <1>1 DEF Types
  <2>2. m \in traded
    BY <1>1, <1>3, <1>4, <2>1
  <2> QED
    BY <2>2 DEF Inv, OnlyLongGapsLoseBars
<1> QED
  BY <1>6, <1>7, <1>9, <1>10 DEF Inv

(* A queued bar is handed on.                                              *)
LEMMA TakeQueuedInv == ASSUME Inv, TakeQueued PROVE Inv'
<1>1. /\ queue # <<>> /\ call = "idle"
      /\ delivered' = Append(delivered, Head(queue)) /\ queue' = Tail(queue)
      /\ g' = Feed(g, BarOf(Head(queue)))
      /\ clock' = clock /\ traded' = traded /\ lastSeen' = lastSeen /\ call' = call
      /\ answer' = answer /\ timeouts' = timeouts /\ errors' = errors
      /\ Types
  BY DEF TakeQueued, OnBar, Inv
<1>2. /\ delivered' \o queue' = delivered \o queue
      /\ delivered' \in Seq(traded) /\ queue' \in Seq(traded)
  <2>1. delivered \in Seq(traded) /\ queue \in Seq(traded) /\ queue # <<>>
    BY <1>1 DEF Types
  <2>2. /\ Append(delivered, Head(queue)) \o Tail(queue) = delivered \o queue
        /\ Append(delivered, Head(queue)) \in Seq(traded) /\ Tail(queue) \in Seq(traded)
    BY <2>1, HandOn
  <2> QED
    BY <1>1, <2>2
<1>3. Head(queue) \in traded
  BY <1>1, HeadTailProperties DEF Types
<1>4. Bounded(g')
  BY <1>1, <1>3, BarOfMinute, FeedBounded DEF Types
<1>5. Types'
  BY <1>1, <1>2, <1>4 DEF Types
<1>6. InTimeOrder' /\ OnlyLongGapsLoseBars'
  BY <1>1, <1>2, SourceUnchanged
<1>7. OnePoll' /\ AnswerIsNewest'
  BY <1>1 DEF Inv, OnePoll, AnswerIsNewest, After
<1> QED
  BY <1>5, <1>6, <1>7 DEF Inv

(* A request, and the end of one by a time-out.                            *)
LEMMA AskInv == ASSUME Inv, Ask \/ TimeOut PROVE Inv'
<1>1. /\ queue' = queue /\ delivered' = delivered /\ g' = g
      /\ clock' = clock /\ traded' = traded /\ lastSeen' = lastSeen
      /\ errors' = errors /\ timeouts' \in 0..MaxTimeouts /\ Types
  <2>1. timeouts \in 0..MaxTimeouts /\ MaxTimeouts \in Nat /\ Types
    BY FeedAssumption DEF Inv, Types
  <2>2. CASE Ask
    BY <2>1, <2>2 DEF Ask, source
  <2>3. CASE TimeOut
    BY <2>1, <2>3 DEF TimeOut, source
  <2> QED
    BY <2>2, <2>3
<1>2. /\ call' \in {"asked", "idle"} /\ (call' # "idle" => queue = <<>>)
      /\ answer' = <<>>
  BY DEF Ask, TimeOut, source, Inv, OnePoll
<1>3. <<>> \in Seq(traded) /\ Len(<<>>) = 0 /\ DOMAIN <<>> = {}
  BY EmptySeq
<1>4. Types' /\ OnePoll'
  BY <1>1, <1>2, <1>3 DEF Types, OnePoll
<1>5. AnswerIsNewest'
  BY <1>2, <1>3 DEF AnswerIsNewest, Increasing, Range
<1>6. InTimeOrder' /\ OnlyLongGapsLoseBars'
  BY <1>1, SourceUnchanged
<1> QED
  BY <1>4, <1>5, <1>6 DEF Inv

(* The endpoint answers with the newest bars.                              *)
LEMMA AnswerInv == ASSUME Inv, Answer PROVE Inv'
<1>1. /\ queue' = queue /\ delivered' = delivered /\ g' = g
      /\ clock' = clock /\ traded' = traded /\ lastSeen' = lastSeen
      /\ errors' = errors /\ timeouts' = timeouts /\ Types
      /\ call = "asked" /\ call' = "answered" /\ answer' = Recent(Window)
      /\ Window \in Nat \ {0}
  BY FeedAssumption DEF Answer, source, Inv
<1>2. /\ Recent(Window) \in Seq(traded) /\ Increasing(Recent(Window))
      /\ \A m \in traded \ Range(Recent(Window)) :
           (\E k \in Range(Recent(Window)) : m < k) => After(Range(Recent(Window)), m) >= Window
  BY <1>1, RecentIsNewest
<1>3. Types' /\ OnePoll'
  BY <1>1, <1>2 DEF Types, OnePoll, Inv
<1>4. AnswerIsNewest'
  BY <1>1, <1>2 DEF AnswerIsNewest, After
<1>5. InTimeOrder' /\ OnlyLongGapsLoseBars'
  BY <1>1, SourceUnchanged
<1> QED
  BY <1>3, <1>4, <1>5 DEF Inv

(* An error ends the session: the next one has passed nothing on, and its  *)
(* indicators are warmed up from whatever the endpoint has.                *)
LEMMA SessionErrorInv == ASSUME Inv, SessionError PROVE Inv'
<1>1. /\ queue' = <<>> /\ delivered' = <<>> /\ answer' = <<>> /\ lastSeen' = None
      /\ clock' = clock /\ traded' = traded /\ timeouts' = timeouts /\ call' = "idle"
      /\ errors' \in 0..MaxErrors /\ Types
      /\ warm' \in {<<>>, Recent(WarmUp)}
      /\ g' = WarmedUp(NewIndicators, BarsOf(warm'))
  BY FeedAssumption DEF SessionError, Inv, Types
<1>2. <<>> \in Seq(traded) /\ Len(<<>>) = 0 /\ DOMAIN <<>> = {}
  BY EmptySeq
<1>3. Passed' = <<>>
  BY <1>1, <1>2, ConcatEmptySeq DEF Passed
<1>4. warm' \in Seq(traded)
  BY <1>1, <1>2, RecentIsNewest, FeedAssumption
<1>5. BarsOf(warm') \in Seq(MarketBar)
  <2>1. /\ DOMAIN warm' = 1..Len(warm') /\ Len(warm') \in Nat
        /\ \A i \in 1..Len(warm') : warm'[i] \in traded
    BY <1>4, LenProperties, ElementOfSeq
  <2>2. \A i \in 1..Len(warm') : BarOf(warm'[i]) \in MarketBar
    BY <1>1, <2>1, BarOfMinute
  <2> QED
    BY <2>1, <2>2 DEF BarsOf
<1>6. Bounded(g')
  BY <1>1, <1>5, NewBounded, WarmedUpBounded
<1>7. Types' /\ OnePoll'
  BY <1>1, <1>2, <1>6 DEF Types, OnePoll
<1>8. AnswerIsNewest' /\ InTimeOrder'
  BY <1>1, <1>2, <1>3 DEF AnswerIsNewest, InTimeOrder, Increasing, Range
<1>9. OnlyLongGapsLoseBars'
  BY <1>1 DEF OnlyLongGapsLoseBars
<1> QED
  BY <1>7, <1>8, <1>9 DEF Inv
(* A source that receives new bars passes them on after the old ones, and  *)
(* what it passes over it will not miss: an old bar was covered already, a *)
(* new one the answer lacks is older than all of a full answer.            *)
LEMMA ReceiveNew ==
  ASSUME Inv, Receive, NewBars(answer) # <<>>
  PROVE  InTimeOrder' /\ OnlyLongGapsLoseBars' /\ Types'
<1> DEFINE new == NewBars(answer)
<1>1. /\ Types /\ call = "answered" /\ queue = <<>> /\ AnswerIsNewest /\ new # <<>>
      /\ lastSeen' = Last(new) /\ queue' = Tail(new) /\ call' = "idle"
      /\ delivered' = Append(delivered, Head(new)) /\ g' = Feed(g, BarOf(Head(new)))
      /\ answer' = <<>> /\ clock' = clock /\ traded' = traded
      /\ timeouts' = timeouts /\ errors' = errors
  BY DEF Receive, Inv, OnePoll, OnBar
<1>2. /\ new \in Seq(traded) /\ Increasing(new)
      /\ Range(new) = {m \in Range(answer) : lastSeen = None \/ m > lastSeen}
  BY <1>1, NewBarsSorted
<1> HIDE DEF new
<1>3. /\ delivered \in Seq(traded) /\ traded \in SUBSET Nat /\ traded \in SUBSET Int
      /\ IsFiniteSet(traded)
  BY <1>1, TradedFinite DEF Types
<1>4. Passed = delivered
  BY <1>1, <1>3, ConcatEmptySeq DEF Passed
<1>5. /\ Passed' = delivered \o new
      /\ delivered' \in Seq(traded) /\ queue' \in Seq(traded)
  BY <1>1, <1>2, <1>3, HandOn DEF Passed
<1>6. /\ Len(new) \in Nat \ {0} /\ DOMAIN new = 1..Len(new)
      /\ \A i \in 1..Len(new) : new[i] \in traded /\ new[i] \in Range(new)
      /\ Len(delivered) \in Nat /\ DOMAIN delivered = 1..Len(delivered)
      /\ \A i \in 1..Len(delivered) : delivered[i] \in traded
  BY <1>1, <1>2, <1>3, EmptySeq, LenProperties, ElementOfSeq DEF Range
<1>7. Last(new) \in Range(new) /\ Last(new) \in traded
  BY <1>6 DEF Last
<1>8. Types'
  <2>1. <<>> \in Seq(traded)
    BY EmptySeq
  <2>2. Bounded(g')
    <3>1. Head(new) \in traded
      BY <1>1, <1>2, HeadTailProperties
    <3> QED
      BY <1>1, <3>1, BarOfMinute, FeedBounded DEF Types
  <2> QED
    BY <1>1, <1>5, <1>7, <2>1, <2>2 DEF Types
<1>9. /\ Increasing(delivered)
      /\ lastSeen = IF delivered = <<>> THEN None ELSE Last(delivered)
  BY <1>4 DEF Inv, InTimeOrder
<1>10. ASSUME NEW i \in 1..Len(delivered) PROVE lastSeen # None /\ delivered[i] <= lastSeen
  <2>1. delivered # <<>>
    BY <1>6, EmptySeq
  <2>2. lastSeen = delivered[Len(delivered)] /\ Len(delivered) \in 1..Len(delivered)
    BY <1>6, <1>9, <2>1 DEF Last
  <2>3. lastSeen \in Nat /\ delivered[i] \in Nat
    BY <1>3, <1>6, <2>2
  <2>4. i = Len(delivered) \/ i < Len(delivered)
    <3>1. Len(delivered) \in Nat
      BY <1>6
    <3> QED
      BY <3>1
  <2> QED
    BY <1>9, <2>2, <2>3, <2>4, IndicatorsAssumption DEF Increasing
<1>11. InTimeOrder'
  <2>1. \A i \in 1..Len(delivered), j \in 1..Len(new) : delivered[i] < new[j]
    <3> SUFFICES ASSUME NEW i \in 1..Len(delivered), NEW j \in 1..Len(new)
                 PROVE  delivered[i] < new[j]
      OBVIOUS
    <3>1. lastSeen # None /\ delivered[i] <= lastSeen
      BY <1>10
    <3>2. new[j] > lastSeen
      BY <1>2, <1>6, <3>1
    <3>3. lastSeen \in Nat /\ delivered[i] \in Nat /\ new[j] \in Nat
      BY <1>1, <1>3, <1>6, <3>1 DEF Types
    <3> QED
      BY <3>1, <3>2, <3>3
  <2>2. Increasing(delivered \o new)
    BY <1>2, <1>3, <1>9, <2>1, IncreasingConcat
  <2>3. /\ delivered \o new # <<>> /\ Last(delivered \o new) = Last(new)
    <3>1. /\ Len(delivered \o new) = Len(delivered) + Len(new)
          /\ \A i \in 1..(Len(delivered) + Len(new)) :
               (delivered \o new)[i] = IF i <= Len(delivered) THEN delivered[i]
                                       ELSE new[i - Len(delivered)]
      BY <1>2, <1>3, ConcatProperties
    <3>2. /\ Len(delivered) + Len(new) \in 1..(Len(delivered) + Len(new))
          /\ ~(Len(delivered) + Len(new) <= Len(delivered))
          /\ (Len(delivered) + Len(new)) - Len(delivered) = Len(new)
          /\ Len(delivered) + Len(new) # 0
      BY <1>6
    <3>3. Len(<<>>) = 0
      BY EmptySeq
    <3> QED
      BY <3>1, <3>2, <3>3 DEF Last
  <2> QED
    BY <1>1, <1>5, <2>2, <2>3 DEF InTimeOrder
<1>12. Range(delivered \o new) = Range(delivered) \cup Range(new)
  BY <1>2, <1>3, RangeOfConcat
<1>13. Range(delivered) \subseteq traded /\ Range(new) \subseteq traded
  BY <1>6 DEF Range
<1>14. OnlyLongGapsLoseBars'
  <2> DEFINE passed == Range(delivered \o new)
  <2> SUFFICES ASSUME NEW m \in traded, m < Last(new), m \notin passed
               PROVE  Cardinality({k \in passed : k > m}) >= Window
    BY <1>1, <1>5 DEF OnlyLongGapsLoseBars, Passed
  <2>1. m \notin Range(delivered) /\ m \notin Range(new) /\ m \in Nat
    BY <1>3, <1>12
  <2>2. IsFiniteSet(passed)
    <3>1. passed \in SUBSET traded
      BY <1>12, <1>13
    <3> QED
      BY <1>3, <3>1, FS_Subset
  <2>3. ASSUME NEW some \in SUBSET passed, Cardinality({k \in some : k > m}) >= Window
        PROVE  Cardinality({k \in passed : k > m}) >= Window
    <3> DEFINE later == {k \in passed : k > m}
               known == {k \in some : k > m}
    <3>1. later \in SUBSET passed /\ known \in SUBSET later
      OBVIOUS
    <3>2. IsFiniteSet(later)
      BY <2>2, <3>1, FS_Subset
    <3>3. Cardinality(known) <= Cardinality(later) /\ IsFiniteSet(known)
      BY <3>1, <3>2, FS_Subset
    <3>4. Cardinality(known) \in Nat /\ Cardinality(later) \in Nat /\ Window \in Nat
      BY <3>2, <3>3, FS_CardinalityType, FeedAssumption
    <3> HIDE DEF known, later
    <3>5. Cardinality(known) >= Window
      BY <2>3 DEF known
    <3>6. Cardinality(later) >= Window
      BY <3>3, <3>4, <3>5
    <3> QED
      BY <3>6 DEF later
  <2>4. CASE lastSeen # None /\ m < lastSeen
    <3>1. Cardinality({k \in Range(delivered) : k > m}) >= Window
      BY <1>4, <2>1, <2>4 DEF Inv, OnlyLongGapsLoseBars, Passed
    <3> QED
      BY <1>12, <2>3, <3>1
  <2>5. CASE lastSeen = None \/ ~(m < lastSeen)
    <3>1. lastSeen = None \/ m > lastSeen
      <4> SUFFICES ASSUME lastSeen # None PROVE m > lastSeen
        OBVIOUS
      <4>1. lastSeen = delivered[Len(delivered)] /\ Len(delivered) \in 1..Len(delivered)
        BY <1>6, <1>9, EmptySeq DEF Last
      <4>2. lastSeen \in Range(delivered) /\ lastSeen \in Nat
        BY <1>3, <1>6, <1>13, <4>1 DEF Range
      <4> QED
        BY <2>1, <2>5, <4>2
    <3>2. m \notin Range(answer)
      BY <1>2, <2>1, <3>1
    <3>3. Last(new) \in Range(answer)
      BY <1>2, <1>7
    <3>4. After(Range(answer), m) >= Window
      BY <1>1, <3>2, <3>3 DEF AnswerIsNewest
    <3>5. \A k \in Range(answer) : k > m => k \in Range(new)
      <4> SUFFICES ASSUME NEW k \in Range(answer), k > m, lastSeen # None PROVE k > lastSeen
        BY <1>2
      <4>1. k \in Nat /\ lastSeen \in Nat
        <5>1. answer \in Seq(traded)
          BY <1>1 DEF Types
        <5>2. DOMAIN answer = 1..Len(answer) /\ \A i \in 1..Len(answer) : answer[i] \in traded
          BY <5>1, LenProperties, ElementOfSeq
        <5> QED
          BY <1>1, <1>3, <5>2 DEF Types, Range
      <4> QED
        BY <2>1, <3>1, <4>1
    <3>6. {k \in Range(answer) : k > m} = {k \in Range(new) : k > m}
      BY <1>2, <3>5
    <3>7. Cardinality({k \in Range(new) : k > m}) >= Window
      BY <3>4, <3>6 DEF After
    <3> QED
      BY <1>12, <2>3, <3>7
  <2> QED
    BY <2>4, <2>5
<1> QED
  BY <1>8, <1>11, <1>14

(* The answer reaches next_bar, with something new in it or not.           *)
LEMMA ReceiveInv == ASSUME Inv, Receive PROVE Inv'
<1>1. answer' = <<>> /\ DOMAIN <<>> = {} /\ Len(<<>>) = 0
  BY EmptySeq DEF Receive
<1>2. AnswerIsNewest'
  BY <1>1 DEF AnswerIsNewest, Increasing, Range
<1>3. CASE NewBars(answer) # <<>>
  <2>1. call' = "idle"
    BY <1>3 DEF Receive
  <2>2. OnePoll'
    BY <1>1, <2>1 DEF OnePoll
  <2> QED
    BY <1>2, <1>3, <2>2, ReceiveNew DEF Inv
<1>4. CASE NewBars(answer) = <<>>
  <2>1. /\ queue' = queue /\ delivered' = delivered /\ g' = g /\ lastSeen' = lastSeen
        /\ clock' = clock /\ traded' = traded /\ timeouts' = timeouts /\ errors' = errors
        /\ call' = "asleep" /\ queue = <<>> /\ Types
    BY <1>4 DEF Receive, source, Inv, OnePoll
  <2>2. <<>> \in Seq(traded)
    BY EmptySeq
  <2>3. Types' /\ OnePoll'
    BY <1>1, <2>1, <2>2 DEF Types, OnePoll
  <2>4. InTimeOrder' /\ OnlyLongGapsLoseBars'
    BY <2>1, SourceUnchanged
  <2> QED
    BY <1>2, <2>3, <2>4 DEF Inv
<1> QED
  BY <1>3, <1>4

(* A step that changes nothing.                                            *)
LEMMA StutterInv ==
  ASSUME Inv, UNCHANGED vars
  PROVE  Inv'
BY DEF Inv, Types, OnePoll, InTimeOrder, AnswerIsNewest, OnlyLongGapsLoseBars, After, Passed,
       vars, source

-----------------------------------------------------------------------------
(* The indicators against the set of bars they were given.                 *)

(* The candle a minute belongs to, as CandlesOf numbers them.              *)
CandleNumber(m) == (m + Timeframe - 1) \div Timeframe

(* The minutes of a set in one candle, and the candles they are in.        *)
InCandle(S, n) == {m \in S : CandleNumber(m) = n}
Numbers(S) == {CandleNumber(m) : m \in S}

Closes(candles) == [i \in DOMAIN candles |-> candles[i].close]

OpenCandle(x) == [time |-> x.at, high |-> x.high, low |-> x.low, close |-> x.close]

(* Indicators x have been given the bars of the minutes S: the aggregator  *)
(* holds the latest candle as far as it goes, and the deques the newest of *)
(* the complete ones.  The average, the trailing candle and the last price *)
(* alone would not be inductive: what the next bar does to them depends on *)
(* the open candle and on candles the strategy does not read yet.          *)
Knows(x, S) ==
  IF S = {} THEN x = NewIndicators
  ELSE /\ x.bucket = BucketStart(MaxOf(S))
       /\ OpenCandle(x) = CandleOf(InCandle(S, CandleNumber(MaxOf(S))))
       /\ x.last = Shape[MaxOf(S)].close
       /\ x.candles = LastOf(CandlesOf(S), HistoryLen)
       /\ x.closes = LastOf(Closes(CandlesOf(S)), Period)

(* No bar of the warm-up is given to the engine again.                     *)
StartsAfterWarmUp == warm = <<>> \/ delivered = <<>> \/ delivered[1] > Last(warm)

(* The inductive invariant of the indicators, on top of Inv.               *)
KnowsBars ==
  /\ warm \in Seq(1..EndTime) /\ Increasing(warm)
  /\ StartsAfterWarmUp => Knows(g, Range(warm \o delivered))

(* A minute lies in the candle its number names.                           *)
LEMMA Numbering ==
  ASSUME NEW m \in Nat \ {0}
  PROVE  /\ CandleNumber(m) \in Nat \ {0}
         /\ BucketStart(m) = (CandleNumber(m) - 1) * Timeframe
         /\ BucketStart(m) \in Nat
         /\ BucketStart(m) < m /\ m <= BucketStart(m) + Timeframe
<1> DEFINE q == (m - 1) \div Timeframe
<1>1. Timeframe \in Nat \ {0} /\ m - 1 \in Nat
  BY IndicatorsAssumption
<1>2. q \in Nat /\ q * Timeframe <= m - 1 /\ m - 1 < q * Timeframe + Timeframe
  BY <1>1
<1>3. (m + Timeframe - 1) \div Timeframe = q + 1
  BY <1>1, <1>2
<1> QED
  BY <1>1, <1>2, <1>3 DEF CandleNumber, BucketStart

(* A later minute is in the same candle or a later one.                    *)
LEMMA LaterNumber ==
  ASSUME NEW m \in Nat \ {0}, NEW k \in Nat \ {0}, m <= k
  PROVE  /\ CandleNumber(m) <= CandleNumber(k)
         /\ BucketStart(m) = BucketStart(k) <=> CandleNumber(m) = CandleNumber(k)
<1> DEFINE a == CandleNumber(m)
           b == CandleNumber(k)
<1>1. Timeframe \in Nat \ {0}
  BY IndicatorsAssumption
<1>2. /\ a \in Nat \ {0} /\ b \in Nat \ {0}
      /\ BucketStart(m) = (a - 1) * Timeframe /\ BucketStart(k) = (b - 1) * Timeframe
      /\ (a - 1) * Timeframe < m /\ k <= (b - 1) * Timeframe + Timeframe
  BY Numbering
<1> HIDE DEF a, b
<1>3. a <= b
  <2> SUFFICES ASSUME b < a PROVE FALSE
    BY <1>2
  <2> DEFINE d == a - b - 1
  <2>1. d \in Nat /\ a - 1 = b + d
    BY <1>2
  <2>2. (a - 1) * Timeframe = b * Timeframe + d * Timeframe
    BY <1>1, <1>2, <2>1
  <2>3. d * Timeframe >= 0 /\ b * Timeframe = (b - 1) * Timeframe + Timeframe
    BY <1>1, <1>2, <2>1
  <2> QED
    BY <1>1, <1>2, <2>2, <2>3
<1>4. a - 1 = b - 1 <=> a = b
  BY <1>2
<1>5. (a - 1) * Timeframe = (b - 1) * Timeframe => a - 1 = b - 1
  BY <1>1, <1>2
<1> QED
  BY <1>2, <1>3, <1>4, <1>5 DEF a, b

(* A finite set of numbers has a greatest and a least one.                 *)
LEMMA GreatestAndLeast ==
  ASSUME NEW S \in SUBSET Int, IsFiniteSet(S), S # {}
  PROVE  /\ \E x \in S : \A y \in S : x >= y
         /\ \E x \in S : \A y \in S : x <= y
<1> DEFINE Ends(U) == /\ \E x \in U : \A y \in U : x >= y
                      /\ \E x \in U : \A y \in U : x <= y
           Bad(n) == \E U \in SUBSET Int : U # {} /\ IsFiniteSet(U) /\ Cardinality(U) = n /\ ~Ends(U)
           Sizes == {n \in Nat : Bad(n)}
<1> SUFFICES ASSUME ~Ends(S) PROVE FALSE
  OBVIOUS
<1>1. Cardinality(S) \in Sizes
  BY FS_CardinalityType
<1>2. PICK n \in Sizes : \A k \in Sizes : n <= k
  <2>1. Sizes \subseteq Nat /\ Sizes # {}
    BY <1>1
  <2> HIDE DEF Sizes
  <2> QED
    BY <2>1, LeastExists
<1>3. n \in Nat /\ Bad(n)
  BY <1>2
<1>4. PICK U \in SUBSET Int : U # {} /\ IsFiniteSet(U) /\ Cardinality(U) = n /\ ~Ends(U)
  BY <1>3
<1>5. PICK e \in U : TRUE
  BY <1>4
<1> DEFINE R == U \ {e}
<1>6. e \in Int /\ R \in SUBSET Int /\ IsFiniteSet(R) /\ Cardinality(R) = n - 1 /\ U = R \cup {e}
  BY <1>4, <1>5, FS_RemoveElement
<1>7. R # {}
  <2> SUFFICES ASSUME R = {} PROVE Ends(U)
    BY <1>4
  <2>1. e \in U /\ \A y \in U : e >= y /\ e <= y
    BY <1>6
  <2> QED
    BY <2>1
<1>8. Ends(R)
  <2> SUFFICES ASSUME ~Ends(R) PROVE FALSE
    OBVIOUS
  <2>1. Cardinality(R) \in Nat
    BY <1>6, FS_CardinalityType
  <2>2. n - 1 \in Sizes
    BY <1>6, <1>7, <2>1
  <2> QED
    BY <1>2, <1>3, <2>2
<1>9. PICK hi \in R, lo \in R : \A y \in R : hi >= y /\ lo <= y
  BY <1>8
<1>10. Ends(U)
  <2>1. hi \in U /\ lo \in U /\ hi \in Int /\ lo \in Int /\ e \in Int
    BY <1>6, <1>9
  <2>2. \A y \in U : y \in R \/ y = e
    BY <1>6
  <2>3. \A y \in U : Max2(hi, e) >= y /\ Min2(lo, e) <= y
    BY <1>6, <1>9, <2>1, <2>2 DEF Max2, Min2
  <2>4. Max2(hi, e) \in U /\ Min2(lo, e) \in U
    BY <1>5, <2>1 DEF Max2, Min2
  <2> QED
    BY <2>3, <2>4
<1> QED
  BY <1>4, <1>10

(* What a maximum or a minimum of a set is.                                *)
LEMMA ExtremeIs ==
  ASSUME NEW S \in SUBSET Int, NEW v \in S
  PROVE  /\ (\A y \in S : v >= y) => MaxOf(S) = v
         /\ (\A y \in S : v <= y) => MinOf(S) = v
<1>1. ASSUME \A y \in S : v >= y PROVE MaxOf(S) = v
  <2>1. MaxOf(S) \in S /\ \A y \in S : MaxOf(S) >= y
    BY <1>1 DEF MaxOf
  <2>2. MaxOf(S) >= v /\ v >= MaxOf(S) /\ v \in Int /\ MaxOf(S) \in Int
    BY <1>1, <2>1
  <2> QED
    BY <2>2
<1>2. ASSUME \A y \in S : v <= y PROVE MinOf(S) = v
  <2>1. MinOf(S) \in S /\ \A y \in S : MinOf(S) <= y
    BY <1>2 DEF MinOf
  <2>2. MinOf(S) <= v /\ v <= MinOf(S) /\ v \in Int /\ MinOf(S) \in Int
    BY <1>2, <2>1
  <2> QED
    BY <2>2
<1> QED
  BY <1>1, <1>2

(* A finite set of numbers has its extremes among its members.             *)
LEMMA ExtremesOf ==
  ASSUME NEW S \in SUBSET Int, IsFiniteSet(S), S # {}
  PROVE  /\ MaxOf(S) \in S /\ MaxOf(S) \in Int /\ \A y \in S : MaxOf(S) >= y
         /\ MinOf(S) \in S /\ MinOf(S) \in Int /\ \A y \in S : MinOf(S) <= y
<1>1. PICK hi \in S, lo \in S : \A y \in S : hi >= y /\ lo <= y
  BY GreatestAndLeast
<1>2. MaxOf(S) = hi /\ MinOf(S) = lo
  BY <1>1, ExtremeIs
<1> QED
  BY <1>1, <1>2

(* One more member: the new extreme is the old one or the new member.      *)
LEMMA ExtremesOfMore ==
  ASSUME NEW S \in SUBSET Int, IsFiniteSet(S), S # {}, NEW x \in Int
  PROVE  /\ MaxOf(S \cup {x}) = Max2(MaxOf(S), x)
         /\ MinOf(S \cup {x}) = Min2(MinOf(S), x)
<1> DEFINE U == S \cup {x}
           hi == Max2(MaxOf(S), x)
           lo == Min2(MinOf(S), x)
<1>1. /\ MaxOf(S) \in S /\ MaxOf(S) \in Int /\ \A y \in S : MaxOf(S) >= y
      /\ MinOf(S) \in S /\ MinOf(S) \in Int /\ \A y \in S : MinOf(S) <= y
  BY ExtremesOf
<1>2. U \in SUBSET Int /\ hi \in U /\ lo \in U
  BY <1>1 DEF Max2, Min2
<1>3. ASSUME NEW y \in U PROVE hi >= y /\ lo <= y
  <2>1. CASE y = x
    BY <1>1, <2>1 DEF Max2, Min2
  <2>2. CASE y \in S
    <3>1. MaxOf(S) >= y /\ MinOf(S) <= y /\ y \in Int
      BY <1>1, <2>2
    <3> QED
      BY <1>1, <3>1 DEF Max2, Min2
  <2> QED
    BY <2>1, <2>2
<1> HIDE DEF U, hi, lo
<1>4. MaxOf(U) = hi /\ MinOf(U) = lo
  BY <1>2, <1>3, ExtremeIs
<1> QED
  BY <1>4 DEF U, hi, lo

(* The extreme of a single number.                                         *)
LEMMA ExtremesOfOne ==
  ASSUME NEW x \in Int
  PROVE  MaxOf({x}) = x /\ MinOf({x}) = x
<1>1. {x} \in SUBSET Int /\ x \in {x} /\ \A y \in {x} : x >= y /\ x <= y
  OBVIOUS
<1> QED
  BY <1>1, ExtremeIs

(* The prices of a finite set of minutes.                                  *)
LEMMA PricesFinite ==
  ASSUME NEW S \in SUBSET (1..EndTime), S # {}
  PROVE  /\ IsFiniteSet(S) /\ S \in SUBSET Nat /\ S \in SUBSET Int
         /\ {Shape[m].high : m \in S} \in SUBSET Int /\ {Shape[m].high : m \in S} # {}
         /\ IsFiniteSet({Shape[m].high : m \in S})
         /\ {Shape[m].low : m \in S} \in SUBSET Int /\ {Shape[m].low : m \in S} # {}
         /\ IsFiniteSet({Shape[m].low : m \in S})
<1> DEFINE highs == {Shape[m].high : m \in S}
           lows == {Shape[m].low : m \in S}
           hi == [m \in S |-> Shape[m].high]
           lo == [m \in S |-> Shape[m].low]
<1>1. EndTime \in Nat /\ \A m \in 1..EndTime : Shape[m].high \in Int /\ Shape[m].low \in Int
  BY FeedAssumption
<1>2. IsFiniteSet(S) /\ S \in SUBSET Nat /\ S \in SUBSET Int
  <2>1. IsFiniteSet(1..EndTime)
    BY <1>1, FS_Interval
  <2>2. IsFiniteSet(S)
    BY <2>1, FS_Subset
  <2>3. \A m \in S : m \in Nat /\ m \in Int
    <3>1. 1..EndTime \subseteq Nat /\ 1..EndTime \subseteq Int
      BY <1>1
    <3> QED
      BY <3>1
  <2> QED
    BY <2>2, <2>3
<1>3. highs \in SUBSET Int /\ lows \in SUBSET Int /\ highs # {} /\ lows # {}
  BY <1>1
<1>4. hi \in Surjection(S, highs) /\ lo \in Surjection(S, lows)
  BY DEF Surjection
<1> HIDE DEF hi, lo, highs, lows
<1>5. IsFiniteSet(highs) /\ IsFiniteSet(lows)
  BY <1>2, <1>4, FS_Surjection
<1> QED
  BY <1>2, <1>3, <1>5 DEF highs, lows

(* The candle of one minute, and of one minute more.                       *)
LEMMA CandleGrows ==
  ASSUME NEW m \in 1..EndTime
  PROVE  /\ CandleOf({m}) = [time |-> m, high |-> Shape[m].high, low |-> Shape[m].low,
                             close |-> Shape[m].close]
         /\ \A C \in SUBSET (1..EndTime) : C # {} /\ (\A k \in C : k < m) =>
              CandleOf(C \cup {m}) =
                [time |-> m, high |-> Max2(CandleOf(C).high, Shape[m].high),
                 low |-> Min2(CandleOf(C).low, Shape[m].low), close |-> Shape[m].close]
<1>1. m \in Int /\ Shape[m].high \in Int /\ Shape[m].low \in Int
  BY FeedAssumption
<1>2. CandleOf({m}) = [time |-> m, high |-> Shape[m].high, low |-> Shape[m].low,
                       close |-> Shape[m].close]
  <2>1. MaxOf({m}) = m /\ MaxOf({Shape[m].high}) = Shape[m].high
        /\ MinOf({Shape[m].low}) = Shape[m].low
    BY <1>1, ExtremesOfOne
  <2>2. {Shape[k].high : k \in {m}} = {Shape[m].high} /\ {Shape[k].low : k \in {m}} = {Shape[m].low}
    OBVIOUS
  <2> QED
    BY <2>1, <2>2 DEF CandleOf
<1>3. ASSUME NEW C \in SUBSET (1..EndTime), C # {}, \A k \in C : k < m
      PROVE  CandleOf(C \cup {m}) =
               [time |-> m, high |-> Max2(CandleOf(C).high, Shape[m].high),
                low |-> Min2(CandleOf(C).low, Shape[m].low), close |-> Shape[m].close]
  <2> DEFINE highs(U) == {Shape[k].high : k \in U}
             lows(U) == {Shape[k].low : k \in U}
  <2>1. /\ IsFiniteSet(C) /\ C \in SUBSET Int
        /\ highs(C) \in SUBSET Int /\ highs(C) # {} /\ IsFiniteSet(highs(C))
        /\ lows(C) \in SUBSET Int /\ lows(C) # {} /\ IsFiniteSet(lows(C))
    BY <1>3, PricesFinite
  <2>2. highs(C \cup {m}) = highs(C) \cup {Shape[m].high}
        /\ lows(C \cup {m}) = lows(C) \cup {Shape[m].low}
    OBVIOUS
  <2>3. /\ CandleOf(C).high = MaxOf(highs(C)) /\ CandleOf(C).low = MinOf(lows(C))
        /\ CandleOf(C \cup {m}) = [time |-> MaxOf(C \cup {m}), high |-> MaxOf(highs(C \cup {m})),
                                   low |-> MinOf(lows(C \cup {m})),
                                   close |-> Shape[MaxOf(C \cup {m})].close]
    BY DEF CandleOf
  <2> HIDE DEF highs, lows
  <2>4. /\ MaxOf(highs(C) \cup {Shape[m].high}) = Max2(MaxOf(highs(C)), Shape[m].high)
        /\ MinOf(lows(C) \cup {Shape[m].low}) = Min2(MinOf(lows(C)), Shape[m].low)
    BY <1>1, <2>1, ExtremesOfMore
  <2>5. MaxOf(C \cup {m}) = m
    <3>1. C \cup {m} \in SUBSET Int /\ m \in C \cup {m} /\ \A k \in C \cup {m} : m >= k
      BY <1>1, <1>3, <2>1
    <3> QED
      BY <3>1, ExtremeIs
  <2> QED
    BY <2>2, <2>3, <2>4, <2>5
<1> QED
  BY <1>2, <1>3

(* A candle is a bar.                                                      *)
LEMMA CandleIsBar ==
  ASSUME NEW S \in SUBSET (1..EndTime), S # {}
  PROVE  CandleOf(S) \in MarketBar
<1>1. /\ MaxOf(S) \in S /\ MaxOf(S) \in Int
      /\ MaxOf({Shape[m].high : m \in S}) \in Int /\ MinOf({Shape[m].low : m \in S}) \in Int
  BY PricesFinite, ExtremesOf
<1>2. Shape[MaxOf(S)].close \in Int
  BY <1>1, FeedAssumption
<1> QED
  BY <1>1, <1>2 DEF CandleOf, MarketBar

(* A new greatest member comes last.                                       *)
LEMMA InOrderAppends ==
  ASSUME NEW S \in SUBSET Nat, IsFiniteSet(S), NEW x \in Nat, \A m \in S : m < x
  PROVE  InOrder(S \cup {x}) = Append(InOrder(S), x)
<1> DEFINE U == S \cup {x}
           n == Cardinality(S)
           a == InOrder(U)
           b == Append(InOrder(S), x)
<1>1. x \notin S
  <2> SUFFICES ASSUME x \in S PROVE FALSE
    OBVIOUS
  <2>1. x < x /\ x \in Nat
    OBVIOUS
  <2> QED
    BY <2>1
<1>2. n \in Nat /\ IsFiniteSet(U) /\ Cardinality(U) = n + 1 /\ U \in SUBSET Nat
  BY <1>1, FS_CardinalityType, FS_AddElement
<1>3. ASSUME NEW m \in S PROVE Rank(U, m) = Rank(S, m)
  <2>1. ~(x < m)
    <3>1. m < x /\ m \in Nat /\ x \in Nat
      OBVIOUS
    <3> QED
      BY <3>1
  <2>2. {k \in U : k < m} = {k \in S : k < m}
    BY <2>1
  <2> QED
    BY <2>2 DEF Rank
<1>4. Rank(U, x) = n
  <2>1. ~(x < x)
    OBVIOUS
  <2>2. {k \in U : k < x} = S
    BY <2>1
  <2> QED
    BY <2>2 DEF Rank
<1> DEFINE atS(i) == CHOOSE m \in S : Rank(S, m) = i - 1
           atU(i) == CHOOSE m \in U : Rank(U, m) = i - 1
<1>5. InOrder(S) = [i \in 1..n |-> atS(i)] /\ a = [i \in 1..(n + 1) |-> atU(i)]
  BY <1>2 DEF InOrder, Rank
<1>6. ASSUME NEW i \in 1..(n + 1), NEW m \in U, Rank(U, m) = i - 1 PROVE atU(i) = m
  <2>1. atU(i) \in U /\ Rank(U, atU(i)) = i - 1
    <3>1. \E k \in U : Rank(U, k) = i - 1
      BY <1>6
    <3> HIDE DEF U
    <3> QED
      BY <3>1
  <2> HIDE DEF atU, U
  <2>2. atU(i) \in Nat /\ m \in Nat /\ i - 1 \in Int
    <3>1. atU(i) \in Nat /\ m \in Nat
      BY <1>2, <2>1
    <3>2. i - 1 \in Int
      <4> HIDE DEF n
      <4> QED
        BY <1>2
    <3> QED
      BY <3>1, <3>2
  <2>3. ~(atU(i) < m)
    <3>1. atU(i) < m => Rank(U, atU(i)) < Rank(U, m)
      BY <1>2, <2>1, Ranks
    <3> QED
      BY <1>6, <2>1, <2>2, <3>1
  <2>4. ~(m < atU(i))
    <3>1. m < atU(i) => Rank(U, m) < Rank(U, atU(i))
      BY <1>2, <2>1, Ranks
    <3> QED
      BY <1>6, <2>1, <2>2, <3>1
  <2> QED
    BY <2>2, <2>3, <2>4
<1>7. ASSUME NEW i \in 1..n PROVE atU(i) = atS(i) /\ atS(i) \in S
  <2>1. i - 1 \in 0..(Cardinality(S) - 1) /\ i \in 1..(n + 1)
    BY <1>2
  <2>2. \E m \in S : Rank(S, m) = i - 1
    BY <2>1, Ranks
  <2>3. atS(i) \in S /\ Rank(S, atS(i)) = i - 1
    BY <2>2
  <2>4. Rank(U, atS(i)) = i - 1 /\ atS(i) \in U
    BY <1>3, <2>3
  <2> HIDE DEF atS, atU
  <2> QED
    BY <1>6, <2>1, <2>3, <2>4
<1>8. atU(n + 1) = x
  <2>1. n + 1 \in 1..(n + 1) /\ (n + 1) - 1 = n /\ x \in U
    BY <1>2
  <2> HIDE DEF atU
  <2> QED
    BY <1>4, <1>6, <2>1
<1>9. /\ InOrder(S) \in Seq(Nat) /\ Len(InOrder(S)) = n
      /\ a \in Seq(Nat) /\ Len(a) = n + 1
  <2>1. InOrder(S) \in Seq(S) /\ Len(InOrder(S)) = n /\ InOrder(U) \in Seq(U)
        /\ Len(InOrder(U)) = n + 1
    BY <1>2, InOrderSorts
  <2> QED
    BY <1>2, <2>1, SeqMonotonic
<1>10. b \in Seq(Nat) /\ Len(b) = n + 1 /\ b[n + 1] = x
       /\ \A i \in 1..n : b[i] = InOrder(S)[i]
  BY <1>9, AppendProperties
<1> HIDE DEF atS, atU, a, b, n
<1>11. \A i \in 1..(n + 1) : a[i] = b[i]
  <2> SUFFICES ASSUME NEW i \in 1..(n + 1) PROVE a[i] = b[i]
    OBVIOUS
  <2>1. CASE i = n + 1
    BY <1>5, <1>8, <1>10, <2>1
  <2>2. CASE i # n + 1
    <3>1. i \in 1..n
      BY <1>2, <2>2
    <3> QED
      BY <1>5, <1>7, <1>10, <3>1
  <2> QED
    BY <2>1, <2>2
<1>12. a = b
  BY <1>9, <1>10, <1>11, SeqEqual
<1> QED
  BY <1>12 DEF a, b

(* The newest n of a sequence.                                             *)
LEMMA LastOfProperties ==
  ASSUME NEW S, NEW s \in Seq(S), NEW n \in Nat \ {0}
  PROVE  /\ LastOf(s, n) \in Seq(S)
         /\ Len(LastOf(s, n)) = Min2(Len(s), n)
         /\ \A i \in 1..Min2(Len(s), n) :
              /\ LastOf(s, n)[i] = s[i + (Len(s) - Min2(Len(s), n))]
              /\ i + (Len(s) - Min2(Len(s), n)) \in 1..Len(s)
<1> DEFINE t == LastOf(s, n)
           l == Len(s)
<1>1. l \in Nat /\ \A i \in 1..l : s[i] \in S
  BY LenProperties, ElementOfSeq
<1>2. CASE l <= n
  <2>1. t = s /\ Min2(l, n) = l
    BY <1>2 DEF LastOf, Min2
  <2>2. \A i \in 1..l : i + (l - l) = i
    BY <1>1
  <2> QED
    BY <1>1, <2>1, <2>2
<1>3. CASE ~(l <= n)
  <2> DEFINE a == l + 1 - n
  <2>1. a \in 1..l /\ a \in Int /\ l \in Int /\ l - a + 1 = n /\ a <= l /\ Min2(l, n) = n
    BY <1>1, <1>3 DEF Min2
  <2>2. t = SubSeq(s, a, l)
    BY <1>3 DEF LastOf
  <2>3. \A i \in a..l : s[i] \in S
    BY <1>1, <2>1
  <2> HIDE DEF a, t, l
  <2>4. /\ t \in Seq(S) /\ Len(t) = IF a <= l THEN l - a + 1 ELSE 0
        /\ \A i \in 1..(l - a + 1) : t[i] = s[a + i - 1]
    BY <2>1, <2>2, <2>3, SubSeqProperties
  <2>5. Len(t) = n
    BY <2>1, <2>4
  <2>6. \A i \in 1..n : a + i - 1 = i + (l - n) /\ i + (l - n) \in 1..l
    BY <1>1, <1>3 DEF a
  <2>7. \A i \in 1..n : t[i] = s[i + (l - n)]
    BY <2>1, <2>4, <2>6
  <2> QED
    BY <2>1, <2>4, <2>5, <2>6, <2>7 DEF t, l
<1> QED
  BY <1>2, <1>3

(* deque(maxlen = n): pushing keeps the newest n.                          *)
LEMMA PushKeepsNewest ==
  ASSUME NEW S, NEW s \in Seq(S), NEW x \in S, NEW n \in Nat \ {0}
  PROVE  Push(LastOf(s, n), x, n) = LastOf(Append(s, x), n)
<1> DEFINE t == LastOf(s, n)
           u == Append(s, x)
           v == LastOf(u, n)
           l == Len(s)
           p == Push(t, x, n)
<1>1. l \in Nat
  BY LenProperties
<1>2. /\ t \in Seq(S) /\ Len(t) = Min2(l, n)
      /\ \A i \in 1..Min2(l, n) : t[i] = s[i + (l - Min2(l, n))]
                                  /\ i + (l - Min2(l, n)) \in 1..l
  BY LastOfProperties
<1>3. u \in Seq(S) /\ Len(u) = l + 1 /\ u[l + 1] = x /\ \A i \in 1..l : u[i] = s[i]
  BY AppendProperties
<1>4. /\ v \in Seq(S) /\ Len(v) = Min2(l + 1, n)
      /\ \A i \in 1..Min2(l + 1, n) : v[i] = u[i + ((l + 1) - Min2(l + 1, n))]
                                      /\ i + ((l + 1) - Min2(l + 1, n)) \in 1..(l + 1)
  <2>1. /\ v \in Seq(S) /\ Len(v) = Min2(Len(u), n)
        /\ \A i \in 1..Min2(Len(u), n) : v[i] = u[i + (Len(u) - Min2(Len(u), n))]
                                        /\ i + (Len(u) - Min2(Len(u), n)) \in 1..Len(u)
    BY <1>3, LastOfProperties
  <2> QED
    BY <1>3, <2>1
<1>5. CASE l < n
  <2>1. Min2(l, n) = l /\ Min2(l + 1, n) = l + 1
    BY <1>1, <1>5 DEF Min2
  <2>2. p = Append(t, x) /\ t = s
    BY <1>2, <1>5, <2>1 DEF Push, LastOf
  <2>3. v = u
    BY <1>1, <1>3, <1>5 DEF LastOf
  <2> QED
    BY <2>2, <2>3
<1>6. CASE ~(l < n)
  <2>1. Min2(l, n) = n /\ Min2(l + 1, n) = n
    BY <1>1, <1>6 DEF Min2
  <2>2. Len(t) = n /\ Len(v) = n /\ n \in Nat
    BY <1>2, <1>4, <2>1
  <2>3. t # <<>>
    BY <2>2, EmptySeq
  <2> DEFINE r == Tail(t)
  <2>4. r \in Seq(S) /\ Len(r) = n - 1 /\ \A i \in 1..(n - 1) : r[i] = t[i + 1]
    <3>1. r \in Seq(S) /\ Len(r) = Len(t) - 1 /\ \A i \in 1..Len(r) : r[i] = t[i + 1]
      BY <1>2, <2>3, HeadTailProperties
    <3> QED
      BY <2>2, <3>1
  <2>5. p = Append(r, x)
    BY <2>2 DEF Push
  <2> HIDE DEF r, p, t, u, v, l
  <2>6. p \in Seq(S) /\ Len(p) = n /\ p[n] = x /\ \A i \in 1..(n - 1) : p[i] = r[i]
    <3>1. p \in Seq(S) /\ Len(p) = Len(r) + 1 /\ p[Len(r) + 1] = x /\ \A i \in 1..Len(r) : p[i] = r[i]
      BY <2>4, <2>5, AppendProperties
    <3>2. Len(r) + 1 = n /\ Len(r) = n - 1
      BY <2>4
    <3> QED
      BY <3>1, <3>2
  <2>7. ASSUME NEW i \in 1..n PROVE p[i] = v[i]
    <3>1. v[i] = u[i + ((l + 1) - n)]
      BY <1>4, <2>1
    <3>2. CASE i = n
      <4>1. i + ((l + 1) - n) = l + 1
        BY <1>1, <3>2
      <4> QED
        BY <1>3, <2>6, <3>1, <3>2, <4>1
    <3>3. CASE i # n
      <4>1. i \in 1..(n - 1) /\ i + 1 \in 1..n /\ i + ((l + 1) - n) = (i + 1) + (l - n)
        BY <1>1, <3>3
      <4>2. p[i] = t[i + 1]
        BY <2>4, <2>6, <4>1
      <4>3. t[i + 1] = s[(i + 1) + (l - n)] /\ (i + 1) + (l - n) \in 1..l
        BY <1>2, <2>1, <4>1
      <4> QED
        BY <1>3, <3>1, <4>1, <4>2, <4>3
    <3> QED
      BY <3>2, <3>3
  <2>8. p = v
    BY <1>4, <2>2, <2>6, <2>7, SeqEqual
  <2> QED
    BY <2>8 DEF p, v, t, u
<1> QED
  BY <1>5, <1>6

(* The candles that are complete.                                          *)
Complete(S) == InOrder(Numbers(S) \ {MaxOf(Numbers(S))})

(* The candles of a set of minutes, by number.                             *)
LEMMA CandlesByNumber ==
  ASSUME NEW S
  PROVE  CandlesOf(S) = [i \in DOMAIN Complete(S) |-> CandleOf(InCandle(S, Complete(S)[i]))]
BY DEF CandlesOf, Complete, Numbers, InCandle, CandleNumber

(* The numbers of a set of minutes; the latest minute has the greatest.    *)
LEMMA NumbersOf ==
  ASSUME NEW S \in SUBSET (1..EndTime), S # {}
  PROVE  /\ Numbers(S) \in SUBSET Nat /\ Numbers(S) \in SUBSET Int /\ IsFiniteSet(Numbers(S))
         /\ Numbers(S) # {}
         /\ MaxOf(S) \in S /\ \A k \in S : k <= MaxOf(S)
         /\ MaxOf(Numbers(S)) = CandleNumber(MaxOf(S))
         /\ CandleNumber(MaxOf(S)) \in Numbers(S)
<1> DEFINE N == Numbers(S)
           f == [m \in S |-> CandleNumber(m)]
           top == MaxOf(S)
<1>1. /\ IsFiniteSet(S) /\ S \in SUBSET Int /\ \A m \in S : m \in Nat \ {0}
      /\ top \in S /\ \A k \in S : top >= k
  <2>1. IsFiniteSet(S) /\ S \in SUBSET Int
    BY PricesFinite
  <2>2. top \in S /\ \A k \in S : top >= k
    BY <2>1, ExtremesOf
  <2>3. \A m \in S : m \in Nat \ {0}
    BY FeedAssumption
  <2> QED
    BY <2>1, <2>2, <2>3
<1>2. \A m \in S : CandleNumber(m) \in Nat \ {0}
  BY <1>1, Numbering
<1>3. N \in SUBSET Nat /\ N \in SUBSET Int /\ N # {} /\ CandleNumber(top) \in N
  BY <1>1, <1>2 DEF Numbers
<1>4. f \in Surjection(S, N)
  BY DEF Surjection, Numbers
<1>5. IsFiniteSet(N)
  BY <1>1, <1>4, FS_Surjection
<1>6. \A n \in N : CandleNumber(top) >= n
  <2> SUFFICES ASSUME NEW k \in S PROVE CandleNumber(top) >= CandleNumber(k)
    BY DEF Numbers
  <2>1. k <= top /\ k \in Nat \ {0} /\ top \in Nat \ {0}
    BY <1>1
  <2>2. CandleNumber(k) <= CandleNumber(top)
    BY <2>1, LaterNumber
  <2> QED
    BY <1>1, <1>2, <2>2
<1>7. MaxOf(N) = CandleNumber(top)
  BY <1>3, <1>6, ExtremeIs
<1>8. \A k \in S : k <= top
  BY <1>1
<1> QED
  BY <1>1, <1>3, <1>5, <1>7, <1>8

(* The complete candles are bars, in order.                                *)
LEMMA CandlesAreBars ==
  ASSUME NEW S \in SUBSET (1..EndTime), S # {}
  PROVE  /\ CandlesOf(S) \in Seq(MarketBar)
         /\ Len(CandlesOf(S)) = Len(Complete(S))
         /\ Complete(S) \in Seq(Nat)
         /\ \A i \in 1..Len(Complete(S)) : Complete(S)[i] \in Numbers(S) \ {MaxOf(Numbers(S))}
<1> DEFINE N == Numbers(S) \ {MaxOf(Numbers(S))}
           c == Complete(S)
<1>1. N \in SUBSET Nat /\ IsFiniteSet(N)
  BY NumbersOf, FS_RemoveElement
<1>2. c \in Seq(N)
  BY <1>1, InOrderSorts DEF Complete
<1>3. /\ DOMAIN c = 1..Len(c) /\ Len(c) \in Nat /\ c \in Seq(Nat)
      /\ \A i \in 1..Len(c) : c[i] \in N
  BY <1>1, <1>2, LenProperties, ElementOfSeq, SeqMonotonic
<1>4. ASSUME NEW i \in 1..Len(c) PROVE CandleOf(InCandle(S, c[i])) \in MarketBar
  <2>1. c[i] \in Numbers(S)
    BY <1>3
  <2>2. InCandle(S, c[i]) # {} /\ InCandle(S, c[i]) \in SUBSET (1..EndTime)
    BY <2>1 DEF InCandle, Numbers
  <2> QED
    BY <2>2, CandleIsBar
<1>5. CandlesOf(S) = [i \in 1..Len(c) |-> CandleOf(InCandle(S, c[i]))]
  BY <1>3, CandlesByNumber
<1>6. CandlesOf(S) \in Seq(MarketBar) /\ Len(CandlesOf(S)) = Len(c)
  BY <1>3, <1>4, <1>5
<1> QED
  BY <1>3, <1>6

(* The first minute completes no candle.                                   *)
LEMMA FirstCandle ==
  ASSUME NEW m \in 1..EndTime
  PROVE  /\ CandlesOf({m}) = <<>> /\ MaxOf({m}) = m
         /\ InCandle({m}, CandleNumber(m)) = {m}
<1>1. m \in Int /\ MaxOf({m}) = m /\ Numbers({m}) = {CandleNumber(m)}
  BY ExtremesOfOne DEF Numbers
<1>2. MaxOf(Numbers({m})) = CandleNumber(m)
  BY <1>1, NumbersOf
<1>3. Complete({m}) = InOrder({})
  BY <1>1, <1>2 DEF Complete
<1>4. Len(InOrder({})) = 0
  <2>1. {} \in SUBSET Nat /\ IsFiniteSet({}) /\ Cardinality({}) = 0
    BY FS_EmptySet
  <2> QED
    BY <2>1, InOrderSorts
<1>5. Len(CandlesOf({m})) = 0 /\ CandlesOf({m}) \in Seq(MarketBar)
  BY <1>3, <1>4, CandlesAreBars
<1>6. CandlesOf({m}) = <<>>
  BY <1>5, EmptySeq
<1> QED
  BY <1>1, <1>6 DEF InCandle

(* A later minute widens the candle of the latest one, or completes it.    *)
LEMMA CandlesGrow ==
  ASSUME NEW S \in SUBSET (1..EndTime), S # {}, NEW m \in 1..EndTime, \A k \in S : k < m
  PROVE  /\ MaxOf(S \cup {m}) = m
         /\ CandleNumber(MaxOf(S)) = CandleNumber(m) =>
              /\ CandlesOf(S \cup {m}) = CandlesOf(S)
              /\ InCandle(S \cup {m}, CandleNumber(m)) = InCandle(S, CandleNumber(m)) \cup {m}
         /\ CandleNumber(MaxOf(S)) # CandleNumber(m) =>
              /\ CandlesOf(S \cup {m}) =
                   Append(CandlesOf(S), CandleOf(InCandle(S, CandleNumber(MaxOf(S)))))
              /\ InCandle(S \cup {m}, CandleNumber(m)) = {m}
<1> DEFINE U == S \cup {m}
           top == MaxOf(S)
           N == Numbers(S)
           n == CandleNumber(top)
           k == CandleNumber(m)
<1>1. /\ N \in SUBSET Nat /\ N \in SUBSET Int /\ IsFiniteSet(N) /\ N # {}
      /\ top \in S /\ (\A j \in S : j <= top)
      /\ MaxOf(N) = n /\ n \in N
  BY NumbersOf
<1>2. U \in SUBSET (1..EndTime) /\ U # {} /\ Numbers(U) = N \cup {k}
  BY DEF Numbers
<1>3. MaxOf(U) = m
  <2>1. U \in SUBSET Int /\ m \in U /\ \A j \in U : m >= j
    BY <1>2, FeedAssumption
  <2> QED
    BY <2>1, ExtremeIs
<1>4. MaxOf(Numbers(U)) = k
  BY <1>2, <1>3, NumbersOf
<1>5. m \in Nat \ {0} /\ top \in Nat \ {0} /\ top <= m
  <2>1. top < m /\ top \in 1..EndTime /\ EndTime \in Nat
    BY <1>1, FeedAssumption
  <2> HIDE DEF top
  <2> QED
    BY <2>1
<1>6. n \in Nat \ {0} /\ k \in Nat \ {0} /\ n <= k
  BY <1>5, Numbering, LaterNumber
<1>7. \A j \in N : j <= n
  BY <1>1, ExtremesOf
<1> HIDE DEF N, n, k, U, top
<1>8. ASSUME NEW j \in Nat, j # k PROVE InCandle(U, j) = InCandle(S, j)
  BY <1>8 DEF InCandle, U, k
<1>9. CASE n = k
  <2>1. Complete(U) = Complete(S)
    BY <1>1, <1>2, <1>4, <1>9 DEF Complete, N
  <2>2. \A i \in 1..Len(Complete(S)) : Complete(S)[i] \in Nat /\ Complete(S)[i] # k
    BY <1>1, <1>9, CandlesAreBars DEF N
  <2>3. DOMAIN Complete(S) = 1..Len(Complete(S))
    BY CandlesAreBars, LenProperties
  <2>4. CandlesOf(U) = CandlesOf(S)
    BY <1>8, <2>1, <2>2, <2>3, CandlesByNumber
  <2>5. InCandle(U, k) = InCandle(S, k) \cup {m}
    BY DEF InCandle, U, k
  <2> QED
    BY <1>3, <1>9, <2>4, <2>5 DEF U, n, k, top
<1>10. CASE n # k
  <2>1. n < k /\ k \notin N
    BY <1>1, <1>6, <1>7, <1>10
  <2> DEFINE R == N \ {n}
             c == Complete(S)
  <2>2. /\ R \in SUBSET Nat /\ IsFiniteSet(R) /\ N = R \cup {n}
        /\ n \in Nat /\ \A j \in R : j < n
    <3>1. IsFiniteSet(R)
      BY <1>1, FS_RemoveElement
    <3>2. \A j \in R : j \in Nat /\ j # n /\ j <= n /\ n \in Nat
      BY <1>1, <1>7
    <3>3. \A j \in R : j < n
      BY <3>2
    <3> QED
      BY <1>1, <3>1, <3>3
  <2>3. c = InOrder(R)
    BY <1>1 DEF Complete, N
  <2>4. Complete(U) = InOrder(N)
    <3>1. Numbers(U) \ {k} = N
      BY <1>2, <2>1
    <3> QED
      BY <1>4, <3>1 DEF Complete
  <2> HIDE DEF R, c
  <2>5. Complete(U) = Append(c, n)
    BY <2>2, <2>3, <2>4, InOrderAppends
  <2>6. /\ CandlesOf(S) \in Seq(MarketBar) /\ Len(CandlesOf(S)) = Len(c) /\ c \in Seq(Nat)
        /\ Len(c) \in Nat /\ DOMAIN c = 1..Len(c)
    BY CandlesAreBars, LenProperties DEF c
  <2>7. /\ Append(c, n) \in Seq(Nat) /\ Len(Append(c, n)) = Len(c) + 1
        /\ Append(c, n)[Len(c) + 1] = n /\ \A i \in 1..Len(c) : Append(c, n)[i] = c[i]
    BY <2>2, <2>6, AppendProperties
  <2> DEFINE last == CandleOf(InCandle(S, n))
             a == CandlesOf(U)
             b == Append(CandlesOf(S), last)
  <2>8. last \in MarketBar
    <3>1. InCandle(S, n) \in SUBSET (1..EndTime) /\ top \in InCandle(S, n)
      BY <1>1 DEF InCandle, n
    <3>2. InCandle(S, n) # {}
      BY <3>1
    <3> QED
      BY <3>1, <3>2, CandleIsBar
  <2>9. /\ a \in Seq(MarketBar) /\ Len(a) = Len(c) + 1
        /\ \A i \in 1..(Len(c) + 1) : a[i] = CandleOf(InCandle(U, Append(c, n)[i]))
    <3>1. a \in Seq(MarketBar) /\ Len(a) = Len(Append(c, n))
      BY <1>2, <2>5, CandlesAreBars
    <3>2. DOMAIN Append(c, n) = 1..(Len(c) + 1)
      BY <2>7, LenProperties
    <3> QED
      BY <2>5, <2>7, <3>1, <3>2, CandlesByNumber
  <2>10. /\ b \in Seq(MarketBar) /\ Len(b) = Len(c) + 1 /\ b[Len(c) + 1] = last
         /\ \A i \in 1..Len(c) : b[i] = CandlesOf(S)[i]
    <3> HIDE DEF last
    <3> QED
      BY <2>6, <2>8, AppendProperties
  <2>11. \A i \in 1..Len(c) : CandlesOf(S)[i] = CandleOf(InCandle(S, c[i]))
    BY <2>6, CandlesByNumber DEF c
  <2>12. \A i \in 1..Len(c) : c[i] \in Nat /\ c[i] # k
    <3>1. \A i \in 1..Len(c) : c[i] \in Numbers(S)
      BY CandlesAreBars DEF c
    <3> QED
      BY <1>1, <2>1, <3>1 DEF N
  <2> HIDE DEF a, b
  <2>13. ASSUME NEW i \in 1..(Len(c) + 1) PROVE a[i] = b[i]
    <3>1. CASE i = Len(c) + 1
      <4>1. a[i] = CandleOf(InCandle(U, n))
        BY <2>7, <2>9, <3>1
      <4>2. InCandle(U, n) = InCandle(S, n)
        BY <1>6, <1>8, <1>10
      <4> QED
        BY <2>10, <3>1, <4>1, <4>2
    <3>2. CASE i # Len(c) + 1
      <4>1. i \in 1..Len(c)
        BY <2>6, <3>2
      <4>2. a[i] = CandleOf(InCandle(U, c[i]))
        BY <2>7, <2>9, <4>1
      <4>3. InCandle(U, c[i]) = InCandle(S, c[i])
        BY <1>8, <2>12, <4>1
      <4> QED
        BY <2>10, <2>11, <4>1, <4>2, <4>3
    <3> QED
      BY <3>1, <3>2
  <2>14. a = b
    BY <2>9, <2>10, <2>13, SeqEqual
  <2>15. InCandle(U, k) = {m}
    <3>1. \A j \in S : CandleNumber(j) # k
      BY <2>1 DEF N, Numbers
    <3> QED
      BY <3>1 DEF InCandle, U, k
  <2> QED
    BY <1>3, <1>10, <2>14, <2>15 DEF U, n, k, top, a, b
<1> QED
  BY <1>9, <1>10

(* The first bar opens a candle and completes none.                        *)
LEMMA FirstBarKnown ==
  ASSUME NEW m \in 1..EndTime
  PROVE  Knows(Feed(NewIndicators, BarOf(m)), {m})
<1> DEFINE y == Feed(NewIndicators, BarOf(m))
<1>1. y = [bucket |-> BucketStart(m), high |-> Shape[m].high, low |-> Shape[m].low,
           close |-> Shape[m].close, at |-> m, closes |-> <<>>, candles |-> <<>>,
           last |-> Shape[m].close]
  BY DEF Feed, NewIndicators, StartBucket, BarOf
<1>2. CandlesOf({m}) = <<>> /\ MaxOf({m}) = m /\ InCandle({m}, CandleNumber(m)) = {m}
  BY FirstCandle
<1>3. CandleOf({m}) = [time |-> m, high |-> Shape[m].high, low |-> Shape[m].low,
                       close |-> Shape[m].close]
  BY CandleGrows
<1>4. Closes(<<>>) = <<>> /\ LastOf(<<>>, HistoryLen) = <<>> /\ LastOf(<<>>, Period) = <<>>
  <2>1. Len(<<>>) = 0 /\ DOMAIN <<>> = {} /\ HistoryLen >= 0 /\ Period >= 0
    BY IndicatorsAssumption, EmptySeq
  <2> QED
    BY <2>1 DEF Closes, LastOf
<1>5. /\ OpenCandle(y) = CandleOf({m}) /\ y.bucket = BucketStart(m) /\ y.last = Shape[m].close
      /\ y.candles = <<>> /\ y.closes = <<>>
  BY <1>1, <1>3 DEF OpenCandle
<1> HIDE DEF y
<1>6. {m} # {}
  OBVIOUS
<1> QED
  BY <1>2, <1>4, <1>5, <1>6 DEF Knows, y

(* The closes of candles, one more candle at the end.                      *)
LEMMA ClosesOf ==
  ASSUME NEW s \in Seq(MarketBar), NEW c \in MarketBar
  PROVE  /\ Closes(s) \in Seq(Int) /\ Len(Closes(s)) = Len(s)
         /\ \A i \in 1..Len(s) : Closes(s)[i] = s[i].close
         /\ Closes(Append(s, c)) = Append(Closes(s), c.close)
<1> DEFINE l == Len(s)
           u == Append(s, c)
           a == Closes(u)
           b == Append(Closes(s), c.close)
<1>1. l \in Nat /\ DOMAIN s = 1..l /\ \A i \in 1..l : s[i] \in MarketBar
  BY LenProperties, ElementOfSeq
<1>2. Closes(s) = [i \in 1..l |-> s[i].close] /\ \A i \in 1..l : s[i].close \in Int
  BY <1>1 DEF Closes, MarketBar
<1>3. Closes(s) \in Seq(Int) /\ Len(Closes(s)) = l /\ \A i \in 1..l : Closes(s)[i] = s[i].close
  BY <1>1, <1>2
<1>4. u \in Seq(MarketBar) /\ Len(u) = l + 1 /\ u[l + 1] = c /\ \A i \in 1..l : u[i] = s[i]
  BY AppendProperties
<1>5. c.close \in Int
  BY DEF MarketBar
<1>6. b \in Seq(Int) /\ Len(b) = l + 1 /\ b[l + 1] = c.close
      /\ \A i \in 1..l : b[i] = Closes(s)[i]
  BY <1>3, <1>5, AppendProperties
<1> HIDE DEF u, b
<1>7. DOMAIN u = 1..(l + 1) /\ \A i \in 1..(l + 1) : u[i] \in MarketBar
  BY <1>4, LenProperties, ElementOfSeq
<1>8. a = [i \in 1..(l + 1) |-> u[i].close] /\ \A i \in 1..(l + 1) : u[i].close \in Int
  BY <1>7 DEF Closes, MarketBar
<1>9. a \in Seq(Int) /\ Len(a) = l + 1 /\ \A i \in 1..(l + 1) : a[i] = u[i].close
  BY <1>1, <1>8
<1> HIDE DEF a, l
<1>10. \A i \in 1..(l + 1) : i = l + 1 \/ i \in 1..l
  BY <1>1 DEF l
<1>11. \A i \in 1..(l + 1) : a[i] = b[i]
  BY <1>3, <1>4, <1>6, <1>9, <1>10
<1>12. a = b
  BY <1>6, <1>9, <1>11, SeqEqual
<1> QED
  BY <1>3, <1>12 DEF a, b, u, l

(* One bar more.                                                           *)
LEMMA FeedKnows ==
  ASSUME NEW x, Bounded(x), NEW S \in SUBSET (1..EndTime), NEW m \in 1..EndTime,
         \A k \in S : k < m, Knows(x, S)
  PROVE  Knows(Feed(x, BarOf(m)), S \cup {m})
<1>1. CASE S = {}
  <2>1. x = NewIndicators /\ S \cup {m} = {m}
    BY <1>1 DEF Knows
  <2> QED
    BY <2>1, FirstBarKnown
<1>2. CASE S # {}
  <2> DEFINE top == MaxOf(S)
             U == S \cup {m}
             n == CandleNumber(top)
             open == CandleOf(InCandle(S, n))
             y == Feed(x, BarOf(m))
             cs == CandlesOf(S)
  <2>1. /\ x.bucket = BucketStart(top) /\ OpenCandle(x) = open /\ x.last = Shape[top].close
        /\ x.candles = LastOf(cs, HistoryLen) /\ x.closes = LastOf(Closes(cs), Period)
    BY <1>2 DEF Knows
  <2>2. x = [bucket |-> x.bucket, high |-> x.high, low |-> x.low, close |-> x.close,
             at |-> x.at, closes |-> x.closes, candles |-> x.candles, last |-> x.last]
    BY DEF Bounded, IndicatorState
  <2>3. top \in S /\ top \in Nat \ {0} /\ m \in Nat \ {0} /\ top <= m
    <3>1. top \in S /\ EndTime \in Nat
      BY <1>2, NumbersOf, FeedAssumption
    <3>2. top < m /\ top \in 1..EndTime
      BY <3>1
    <3> HIDE DEF top
    <3> QED
      BY <3>1, <3>2
  <2>4. /\ MaxOf(U) = m
        /\ n = CandleNumber(m) =>
             CandlesOf(U) = cs /\ InCandle(U, CandleNumber(m)) = InCandle(S, CandleNumber(m)) \cup {m}
        /\ n # CandleNumber(m) =>
             CandlesOf(U) = Append(cs, open) /\ InCandle(U, CandleNumber(m)) = {m}
    BY <1>2, CandlesGrow
  <2>5. /\ x.bucket # None
        /\ BucketStart(m) = x.bucket <=> n = CandleNumber(m)
    <3>1. BucketStart(top) \in Int
      BY <2>3, Numbering
    <3>2. BucketStart(top) = BucketStart(m) <=> n = CandleNumber(m)
      BY <2>3, LaterNumber
    <3> HIDE DEF top, n
    <3> QED
      BY <2>1, <3>1, <3>2, IndicatorsAssumption
  <2>6. /\ InCandle(S, n) \in SUBSET (1..EndTime) /\ InCandle(S, n) # {}
        /\ \A k \in InCandle(S, n) : k < m
    <3>1. top \in InCandle(S, n)
      BY <2>3 DEF InCandle
    <3> QED
      BY <3>1 DEF InCandle
  <2>7. open \in MarketBar /\ cs \in Seq(MarketBar)
    BY <1>2, <2>6, CandleIsBar, CandlesAreBars
  <2>8. open = [time |-> x.at, high |-> x.high, low |-> x.low, close |-> x.close]
    BY <2>1 DEF OpenCandle
  <2>9. open.high = x.high /\ open.low = x.low /\ open.close = x.close /\ open.time = x.at
    BY <2>8
  <2>10. U # {}
    OBVIOUS
  <2> HIDE DEF top, U, n, open, cs
  <2>11. CASE n = CandleNumber(m)
    <3>1. Completed(x, BarOf(m)) = None
      BY <2>5, <2>11 DEF Completed, BarOf
    <3>2. y = [bucket |-> x.bucket, high |-> Max2(x.high, Shape[m].high),
               low |-> Min2(x.low, Shape[m].low), close |-> Shape[m].close, at |-> m,
               closes |-> x.closes, candles |-> x.candles, last |-> Shape[m].close]
      <4> DEFINE p == [x EXCEPT !.last = Shape[m].close]
      <4>1. y = Widen(p, BarOf(m))
        BY <2>5, <3>1 DEF Feed, BarOf
      <4>2. p = [bucket |-> x.bucket, high |-> x.high, low |-> x.low, close |-> x.close,
                 at |-> x.at, closes |-> x.closes, candles |-> x.candles,
                 last |-> Shape[m].close]
        BY <2>2
      <4> HIDE DEF p
      <4> QED
        BY <4>1, <4>2 DEF Widen, BarOf
    <3> HIDE DEF y
    <3>3. CandleOf(InCandle(U, CandleNumber(m))) =
            [time |-> m, high |-> Max2(open.high, Shape[m].high),
             low |-> Min2(open.low, Shape[m].low), close |-> Shape[m].close]
      BY <2>4, <2>6, <2>11, CandleGrows DEF open
    <3>4. OpenCandle(y) = CandleOf(InCandle(U, CandleNumber(m)))
      BY <2>9, <3>2, <3>3 DEF OpenCandle
    <3>5. y.bucket = BucketStart(m) /\ y.last = Shape[m].close
          /\ y.candles = x.candles /\ y.closes = x.closes
      BY <2>5, <2>11, <3>2
    <3> QED
      BY <2>1, <2>4, <2>10, <2>11, <3>4, <3>5 DEF Knows, y, U
  <2>12. CASE n # CandleNumber(m)
    <3>1. Completed(x, BarOf(m)) = open
      BY <2>5, <2>8, <2>12 DEF Completed, BarOf
    <3>2. open # None
      BY <2>7, IndicatorsAssumption DEF MarketBar
    <3>3. y = [bucket |-> BucketStart(m), high |-> Shape[m].high, low |-> Shape[m].low,
               close |-> Shape[m].close, at |-> m, closes |-> Push(x.closes, open.close, Period),
               candles |-> Push(x.candles, open, HistoryLen), last |-> Shape[m].close]
      <4> DEFINE p == [x EXCEPT !.last = Shape[m].close]
                 q == StartBucket(p, BarOf(m))
      <4>1. y = [q EXCEPT !.closes = Push(q.closes, open.close, Period),
                          !.candles = Push(q.candles, open, HistoryLen)]
        BY <2>5, <3>1, <3>2 DEF Feed, BarOf
      <4>2. p = [bucket |-> x.bucket, high |-> x.high, low |-> x.low, close |-> x.close,
                 at |-> x.at, closes |-> x.closes, candles |-> x.candles,
                 last |-> Shape[m].close]
        BY <2>2
      <4> HIDE DEF p
      <4>3. q = [bucket |-> BucketStart(m), high |-> Shape[m].high, low |-> Shape[m].low,
                 close |-> Shape[m].close, at |-> m, closes |-> x.closes,
                 candles |-> x.candles, last |-> Shape[m].close]
        <5>1. q = [p EXCEPT !.bucket = BucketStart(m), !.high = Shape[m].high,
                            !.low = Shape[m].low, !.close = Shape[m].close, !.at = m]
          BY DEF StartBucket, BarOf
        <5> HIDE DEF q
        <5> QED
          BY <4>2, <5>1
      <4> HIDE DEF q
      <4> QED
        BY <4>1, <4>3
    <3> HIDE DEF y
    <3>4. y.candles = LastOf(Append(cs, open), HistoryLen)
      <4>1. HistoryLen \in Nat \ {0}
        BY IndicatorsAssumption
      <4> QED
        BY <2>1, <2>7, <3>3, <4>1, PushKeepsNewest
    <3>5. y.closes = LastOf(Closes(Append(cs, open)), Period)
      <4>1. Period \in Nat \ {0} /\ Closes(cs) \in Seq(Int) /\ open.close \in Int
            /\ Closes(Append(cs, open)) = Append(Closes(cs), open.close)
        BY <2>7, ClosesOf, IndicatorsAssumption DEF MarketBar
      <4> QED
        BY <2>1, <3>3, <4>1, PushKeepsNewest
    <3>6. OpenCandle(y) = CandleOf(InCandle(U, CandleNumber(m)))
      BY <2>4, <2>12, <3>3, CandleGrows DEF OpenCandle
    <3>7. y.bucket = BucketStart(m) /\ y.last = Shape[m].close
      BY <3>3
    <3> QED
      BY <2>4, <2>10, <2>12, <3>4, <3>5, <3>6, <3>7 DEF Knows, y, U
  <2> QED
    BY <2>11, <2>12
<1> QED
  BY <1>1, <1>2
-----------------------------------------------------------------------------
(* The moving average.  Sums over a set, and over the places of a list.    *)

(* F sums a over every set of places up to n, one place taken out at a     *)
(* time, whichever it is; p sums a over the first places.                  *)
Sums(F, p, a, n) ==
  /\ F \in [SUBSET (1..n) -> Int] /\ p \in [0..n -> Int]
  /\ F[{}] = 0 /\ (\A s \in SUBSET (1..n) : \A x \in s : F[s] = a[x] + F[s \ {x}])
  /\ p[0] = 0 /\ (\A i \in 1..n : p[i] = p[i - 1] + a[i])
  /\ F[1..n] = p[n]

(* Sums of one place more.                                                 *)
LEMMA SumsExtend ==
  ASSUME NEW n \in Nat, NEW a, \A i \in 1..(n + 1) : a[i] \in Int,
         NEW F, NEW p, Sums(F, p, a, n)
  PROVE  \E G, q : Sums(G, q, a, n + 1)
<1> DEFINE k == n + 1
           add(s) == IF k \in s THEN a[k] ELSE 0
           G == [s \in SUBSET (1..k) |-> F[s \ {k}] + add(s)]
           q == [i \in 0..k |-> IF i <= n THEN p[i] ELSE p[n] + a[k]]
<1>1. /\ F \in [SUBSET (1..n) -> Int] /\ p \in [0..n -> Int]
      /\ F[{}] = 0 /\ (\A s \in SUBSET (1..n) : \A x \in s : F[s] = a[x] + F[s \ {x}])
      /\ p[0] = 0 /\ (\A i \in 1..n : p[i] = p[i - 1] + a[i])
      /\ F[1..n] = p[n]
  BY DEF Sums
<1>2. k \in Nat \ {0} /\ k \in 1..k /\ k \notin 1..n /\ a[k] \in Int /\ n \in 0..n
      /\ (1..k) \ {k} = 1..n
  OBVIOUS
<1>3. \A s \in SUBSET (1..k) : s \ {k} \in SUBSET (1..n)
  BY <1>2
<1>4. \A s \in SUBSET (1..k) : F[s \ {k}] \in Int /\ add(s) \in Int
  <2> SUFFICES ASSUME NEW s \in SUBSET (1..k) PROVE F[s \ {k}] \in Int /\ add(s) \in Int
    OBVIOUS
  <2>1. s \ {k} \in SUBSET (1..n)
    BY <1>3
  <2>2. F[s \ {k}] \in Int
    BY <1>1, <2>1
  <2>3. add(s) \in Int
    BY <1>2
  <2> QED
    BY <2>2, <2>3
<1>5. G \in [SUBSET (1..k) -> Int] /\ \A s \in SUBSET (1..k) : G[s] = F[s \ {k}] + add(s)
  <2> HIDE DEF add, k
  <2>1. \A s \in SUBSET (1..k) : F[s \ {k}] + add(s) \in Int
    <3> SUFFICES ASSUME NEW s \in SUBSET (1..k) PROVE F[s \ {k}] + add(s) \in Int
      OBVIOUS
    <3>1. F[s \ {k}] \in Int /\ add(s) \in Int
      BY <1>4
    <3> QED
      BY <3>1
  <2> QED
    BY <2>1
<1>6. q \in [0..k -> Int] /\ q[0] = 0 /\ \A i \in 1..k : q[i] = q[i - 1] + a[i]
  <2>1. \A i \in 0..n : p[i] \in Int
    BY <1>1
  <2>2. q \in [0..k -> Int]
    BY <1>2, <2>1
  <2>3. \A i \in 0..k : q[i] = IF i <= n THEN p[i] ELSE p[n] + a[k]
    OBVIOUS
  <2> HIDE DEF q
  <2>4. ASSUME NEW i \in 1..k PROVE q[i] = q[i - 1] + a[i]
    <3>1. i - 1 \in 0..k /\ i - 1 <= n /\ i \in 0..k
      OBVIOUS
    <3>2. q[i - 1] = p[i - 1]
      BY <2>3, <3>1
    <3>3. CASE i <= n
      BY <1>1, <2>3, <3>1, <3>2, <3>3
    <3>4. CASE ~(i <= n)
      <4>1. i = k /\ i - 1 = n
        BY <3>4
      <4> QED
        BY <2>3, <3>1, <3>2, <3>4, <4>1
    <3> QED
      BY <3>3, <3>4
  <2> QED
    BY <1>1, <2>2, <2>3, <2>4
<1>7. q[k] = p[n] + a[k]
  <2>1. k \in 0..k /\ ~(k <= n)
    OBVIOUS
  <2> QED
    BY <2>1
<1> HIDE DEF G, q
<1>8. G[{}] = 0
  <2>1. {} \in SUBSET (1..k) /\ {} \ {k} = {} /\ add({}) = 0
    OBVIOUS
  <2> QED
    BY <1>1, <1>5, <2>1
<1>9. G[1..k] = q[k]
  <2>1. G[1..k] = F[(1..k) \ {k}] + add(1..k) /\ add(1..k) = a[k]
    BY <1>2, <1>5
  <2> QED
    BY <1>1, <1>2, <1>7, <2>1
<1>10. ASSUME NEW s \in SUBSET (1..k), NEW x \in s PROVE G[s] = a[x] + G[s \ {x}]
  <2> DEFINE r == s \ {k}
             u == s \ {x}
  <2>1. r \in SUBSET (1..n) /\ u \in SUBSET (1..k)
    BY <1>3
  <2>2. G[s] = F[r] + add(s) /\ G[u] = F[u \ {k}] + add(u)
    BY <1>5, <2>1
  <2>3. CASE x = k
    <3>1. u \ {k} = r /\ add(s) = a[k] /\ add(u) = 0
      BY <2>3
    <3>2. F[r] \in Int
      BY <1>1, <2>1
    <3> HIDE DEF r, u, add
    <3>3. G[s] = a[x] + G[u]
      BY <1>2, <2>2, <2>3, <3>1, <3>2
    <3> QED
      BY <3>3 DEF u
  <2>4. CASE x # k
    <3>1. x \in r /\ u \ {k} = r \ {x} /\ add(u) = add(s)
      BY <2>4
    <3>2. F[r] = a[x] + F[r \ {x}]
      BY <1>1, <2>1, <3>1
    <3>3. r \ {x} \in SUBSET (1..n) /\ x \in 1..k
      BY <2>1
    <3>4. F[r \ {x}] \in Int /\ a[x] \in Int /\ add(s) \in Int
      BY <1>1, <1>4, <3>3
    <3> HIDE DEF r, u, add
    <3>5. G[s] = a[x] + G[u]
      BY <2>2, <3>1, <3>2, <3>4
    <3> QED
      BY <3>5 DEF u
  <2> QED
    BY <2>3, <2>4
<1>11. Sums(G, q, a, k)
  BY <1>5, <1>6, <1>8, <1>9, <1>10 DEF Sums
<1> QED
  BY <1>11

(* There are sums for every number of places: a least number without them  *)
(* would have them from the one before.                                    *)
LEMMA SumsExist ==
  ASSUME NEW n \in Nat, NEW a, \A i \in 1..n : a[i] \in Int
  PROVE  \E F, p : Sums(F, p, a, n)
<1> DEFINE Missing == {k \in 0..n : ~\E F, p : Sums(F, p, a, k)}
<1> SUFFICES ASSUME Missing # {} PROVE FALSE
  <2>1. n \in 0..n
    OBVIOUS
  <2> QED
    BY <2>1
<1>1. PICK k \in Missing : \A j \in Missing : k <= j
  <2>1. Missing \subseteq Nat
    OBVIOUS
  <2> HIDE DEF Missing
  <2> QED
    BY <2>1, LeastExists
<1>2. k \in 0..n /\ ~\E F, p : Sums(F, p, a, k)
  BY <1>1
<1>3. k # 0
  <2> SUFFICES ASSUME k = 0 PROVE FALSE
    OBVIOUS
  <2> DEFINE F == [s \in SUBSET (1..0) |-> 0]
             p == [i \in 0..0 |-> 0]
  <2>1. 1..0 = {} /\ 0 \in 0..0
    OBVIOUS
  <2>2. /\ F \in [SUBSET (1..0) -> Int] /\ p \in [0..0 -> Int]
        /\ F[{}] = 0 /\ F[1..0] = 0 /\ p[0] = 0
    BY <2>1
  <2>3. \A s \in SUBSET (1..0) : s = {}
    BY <2>1
  <2> HIDE DEF F, p
  <2>4. \A s \in SUBSET (1..0) : \A x \in s : F[s] = a[x] + F[s \ {x}]
    BY <2>3
  <2>5. \A i \in 1..0 : p[i] = p[i - 1] + a[i]
    BY <2>1
  <2>6. Sums(F, p, a, 0)
    BY <2>2, <2>4, <2>5 DEF Sums
  <2> QED
    BY <1>2, <2>6
<1>4. k - 1 \in 0..n /\ k - 1 \in Nat /\ (k - 1) + 1 = k /\ ~(k <= k - 1)
  BY <1>2, <1>3
<1>5. k - 1 \notin Missing
  <2> HIDE DEF Missing
  <2> QED
    BY <1>1, <1>4
<1>6. PICK F, p : Sums(F, p, a, k - 1)
  BY <1>4, <1>5
<1>7. \A i \in 1..k : a[i] \in Int
  BY <1>2
<1>8. \E G, q : Sums(G, q, a, (k - 1) + 1)
  BY <1>4, <1>6, <1>7, SumsExtend
<1> QED
  BY <1>2, <1>4, <1>8

(* The sum of the closes of a list of candles, over the set of its places. *)
CloseSum(r) == MapThenSumSet(LAMBDA i : r[i].close, DOMAIN r)

(* The fold of the community modules sums like that.                       *)
LEMMA SumOfSet ==
  ASSUME NEW n \in Nat, NEW r \in Seq(MarketBar), Len(r) = n,
         NEW F, NEW p, Sums(F, p, Closes(r), n)
  PROVE  CloseSum(r) = p[n]
<1> DEFINE V == 1..n
           one(s) == CHOOSE x \in s : TRUE
           Folds(h) == h = [s \in SUBSET V |-> IF s = {} THEN 0
                                               ELSE r[one(s)].close + h[s \ {one(s)}]]
           iter == CHOOSE h : Folds(h)
<1>1. DOMAIN r = V /\ \A i \in V : Closes(r)[i] = r[i].close /\ r[i].close \in Int
  <2>1. DOMAIN r = V /\ \A i \in V : r[i] \in MarketBar
    BY LenProperties, ElementOfSeq
  <2> QED
    BY <2>1 DEF Closes, MarketBar
<1>2. /\ F \in [SUBSET V -> Int] /\ F[{}] = 0 /\ F[V] = p[n]
      /\ \A s \in SUBSET V : \A x \in s : F[s] = r[x].close + F[s \ {x}]
  <2>1. /\ F \in [SUBSET V -> Int] /\ F[{}] = 0 /\ F[V] = p[n]
        /\ \A s \in SUBSET V : \A x \in s : F[s] = Closes(r)[x] + F[s \ {x}]
    BY DEF Sums
  <2>2. ASSUME NEW s \in SUBSET V, NEW x \in s PROVE F[s] = r[x].close + F[s \ {x}]
    <3>1. x \in V
      OBVIOUS
    <3> QED
      BY <1>1, <2>1, <3>1
  <2> QED
    BY <2>1, <2>2
<1>3. CloseSum(r) =
        (CHOOSE h : h = [s \in SUBSET DOMAIN r |->
                           IF s = {} THEN 0
                           ELSE r[CHOOSE x \in s : TRUE].close
                                  + h[s \ {CHOOSE x \in s : TRUE}]])[DOMAIN r]
  BY Zenon DEF CloseSum, MapThenSumSet, MapThenFoldSet
<1>4. CloseSum(r) = iter[V]
  BY <1>1, <1>3
<1>5. \A s \in SUBSET V : s # {} => one(s) \in s
  OBVIOUS
<1> HIDE DEF one, V
<1>6. Folds(F)
  <2> DEFINE h == [s \in SUBSET V |-> IF s = {} THEN 0
                                      ELSE r[one(s)].close + F[s \ {one(s)}]]
  <2>1. \A s \in SUBSET V : F[s] = h[s]
    BY <1>2, <1>5
  <2>2. F = [s \in SUBSET V |-> F[s]] /\ h = [s \in SUBSET V |-> h[s]]
    BY <1>2
  <2> HIDE DEF h
  <2>3. F = h
    BY <2>1, <2>2
  <2> QED
    BY <2>3 DEF h
<1>7. Folds(iter)
  BY <1>6
<1>8. \A s \in SUBSET V : iter[s] = IF s = {} THEN 0 ELSE r[one(s)].close + iter[s \ {one(s)}]
  <2> DEFINE h == [s \in SUBSET V |-> IF s = {} THEN 0
                                      ELSE r[one(s)].close + iter[s \ {one(s)}]]
  <2>1. iter = h
    BY <1>7
  <2>2. \A s \in SUBSET V : h[s] = IF s = {} THEN 0 ELSE r[one(s)].close + iter[s \ {one(s)}]
    OBVIOUS
  <2> HIDE DEF h, iter
  <2> QED
    BY <2>1, <2>2
<1> HIDE DEF iter
<1>9. IsFiniteSet(V)
  BY FS_Interval DEF V
<1>10. \A s \in SUBSET V : iter[s] = F[s]
  <2> DEFINE Bad(k) == \E s \in SUBSET V : Cardinality(s) = k /\ iter[s] # F[s]
             Sizes == {k \in Nat : Bad(k)}
  <2> SUFFICES ASSUME NEW z \in SUBSET V, iter[z] # F[z] PROVE FALSE
    OBVIOUS
  <2>1. Cardinality(z) \in Nat
    BY <1>9, FS_Subset, FS_CardinalityType
  <2>2. Sizes # {} /\ Sizes \subseteq Nat
    BY <2>1
  <2>3. PICK k \in Sizes : \A j \in Sizes : k <= j
    <3> HIDE DEF Sizes
    <3> QED
      BY <2>2, LeastExists
  <2>4. k \in Nat /\ Bad(k)
    BY <2>3
  <2>5. PICK s \in SUBSET V : Cardinality(s) = k /\ iter[s] # F[s]
    BY <2>4
  <2>6. s # {}
    BY <1>2, <1>8, <2>5
  <2> DEFINE x == one(s)
             t == s \ {x}
  <2>7. x \in s /\ IsFiniteSet(s) /\ t \in SUBSET V
    BY <1>5, <1>9, <2>6, FS_Subset
  <2>8. Cardinality(t) = k - 1 /\ IsFiniteSet(t)
    BY <2>5, <2>7, FS_RemoveElement
  <2>9. Cardinality(t) \in Nat
    BY <2>8, FS_CardinalityType
  <2>10. iter[t] = F[t]
    <3> SUFFICES ASSUME iter[t] # F[t] PROVE FALSE
      OBVIOUS
    <3>1. Bad(k - 1) /\ k - 1 \in Nat
      BY <2>7, <2>8, <2>9
    <3>2. k - 1 \in Sizes
      BY <3>1
    <3>3. k <= k - 1
      BY <2>3, <3>2
    <3> QED
      BY <2>4, <3>3
  <2>11. iter[s] = r[x].close + iter[t] /\ F[s] = r[x].close + F[t]
    BY <1>2, <1>8, <2>6, <2>7
  <2> QED
    BY <2>5, <2>10, <2>11
<1>11. V \in SUBSET V
  OBVIOUS
<1> QED
  BY <1>2, <1>4, <1>10, <1>11

(* RollingSMA.value sums like that, too.                                   *)
LEMMA SumOfList ==
  ASSUME NEW x, Len(x.closes) = Period, NEW F, NEW p, Sums(F, p, x.closes, Period)
  PROVE  SmaSum(x) = p[Period]
<1> DEFINE Adds(h) == h = [i \in 0..Period |-> IF i = 0 THEN 0 ELSE h[i - 1] + x.closes[i]]
           sum == CHOOSE h : Adds(h)
<1>1. Period \in Nat \ {0}
  BY IndicatorsAssumption
<1>2. SmaSum(x) = sum[Period]
  <2>1. ~(Period < Period)
    BY <1>1
  <2> QED
    BY <2>1 DEF SmaSum
<1>3. /\ p \in [0..Period -> Int] /\ p[0] = 0
      /\ \A i \in 1..Period : p[i] = p[i - 1] + x.closes[i]
  BY DEF Sums
<1>4. Adds(p)
  <2> DEFINE h == [i \in 0..Period |-> IF i = 0 THEN 0 ELSE p[i - 1] + x.closes[i]]
  <2>1. \A i \in 0..Period : p[i] = h[i]
    BY <1>1, <1>3
  <2>2. p = [i \in 0..Period |-> p[i]] /\ h = [i \in 0..Period |-> h[i]]
    BY <1>3
  <2> HIDE DEF h
  <2>3. p = h
    BY <2>1, <2>2
  <2> QED
    BY <2>3 DEF h
<1>5. Adds(sum)
  BY <1>4
<1>6. \A i \in 0..Period : sum[i] = IF i = 0 THEN 0 ELSE sum[i - 1] + x.closes[i]
  <2> DEFINE h == [i \in 0..Period |-> IF i = 0 THEN 0 ELSE sum[i - 1] + x.closes[i]]
  <2>1. sum = h
    BY <1>5
  <2>2. \A i \in 0..Period : h[i] = IF i = 0 THEN 0 ELSE sum[i - 1] + x.closes[i]
    OBVIOUS
  <2> HIDE DEF h, sum
  <2> QED
    BY <2>1, <2>2
<1> HIDE DEF sum
<1>7. \A i \in 0..Period : sum[i] = p[i]
  <2> DEFINE Bad == {i \in 0..Period : sum[i] # p[i]}
  <2> SUFFICES ASSUME Bad # {} PROVE FALSE
    OBVIOUS
  <2>1. PICK k \in Bad : \A j \in Bad : k <= j
    <3>1. Bad \subseteq Nat
      OBVIOUS
    <3> HIDE DEF Bad
    <3> QED
      BY <3>1, LeastExists
  <2>2. k \in 0..Period /\ sum[k] # p[k]
    BY <2>1
  <2>3. k # 0
    BY <1>1, <1>3, <1>6, <2>2
  <2>4. k - 1 \in 0..Period /\ k \in 1..Period /\ ~(k <= k - 1)
    BY <1>1, <2>2, <2>3
  <2>5. k - 1 \notin Bad
    <3> HIDE DEF Bad
    <3> QED
      BY <2>1, <2>4
  <2>6. sum[k - 1] = p[k - 1]
    BY <2>4, <2>5
  <2>7. sum[k] = sum[k - 1] + x.closes[k] /\ p[k] = p[k - 1] + x.closes[k]
    BY <1>3, <1>6, <2>2, <2>3, <2>4
  <2> QED
    BY <2>2, <2>6, <2>7
<1>8. Period \in 0..Period
  BY <1>1
<1> QED
  BY <1>2, <1>7, <1>8
-----------------------------------------------------------------------------
(* What the strategy reads.                                                *)

(* The closes of the newest candles are the newest closes.                 *)
LEMMA ClosesOfNewest ==
  ASSUME NEW s \in Seq(MarketBar), NEW n \in Nat \ {0}
  PROVE  LastOf(Closes(s), n) = Closes(LastOf(s, n))
<1> DEFINE t == LastOf(s, n)
           c == Closes(s)
           l == Len(s)
           k == Min2(l, n)
<1>1. l \in Nat /\ k \in Nat
  <2>1. l \in Nat
    BY LenProperties
  <2> QED
    BY <2>1 DEF Min2
<1>2. /\ t \in Seq(MarketBar) /\ Len(t) = k
      /\ \A i \in 1..k : t[i] = s[i + (l - k)] /\ i + (l - k) \in 1..l
  BY LastOfProperties
<1>3. c \in Seq(Int) /\ Len(c) = l /\ \A i \in 1..l : c[i] = s[i].close
  <2>1. PICK bar : bar \in MarketBar
    <3>1. [time |-> 0, high |-> 0, low |-> 0, close |-> 0] \in MarketBar
      BY DEF MarketBar
    <3> QED
      BY <3>1
  <2> QED
    BY <2>1, ClosesOf
<1>4. Closes(t) \in Seq(Int) /\ Len(Closes(t)) = k /\ \A i \in 1..k : Closes(t)[i] = t[i].close
  <2>1. PICK bar : bar \in MarketBar
    <3>1. [time |-> 0, high |-> 0, low |-> 0, close |-> 0] \in MarketBar
      BY DEF MarketBar
    <3> QED
      BY <3>1
  <2> HIDE DEF t, k, l
  <2> QED
    BY <1>2, <2>1, ClosesOf
<1> DEFINE u == LastOf(c, n)
<1>5. /\ u \in Seq(Int) /\ Len(u) = k
      /\ \A i \in 1..k : u[i] = c[i + (l - k)]
  <2> HIDE DEF c, l, k
  <2>1. /\ u \in Seq(Int) /\ Len(u) = Min2(Len(c), n)
        /\ \A i \in 1..Min2(Len(c), n) : u[i] = c[i + (Len(c) - Min2(Len(c), n))]
    BY <1>3, LastOfProperties
  <2>2. Len(c) = l /\ Min2(Len(c), n) = k
    BY <1>3 DEF k
  <2> HIDE DEF u
  <2> QED
    BY <2>1, <2>2
<1> HIDE DEF u, t, c, k, l
<1>6. \A i \in 1..k : u[i] = Closes(t)[i]
  <2> SUFFICES ASSUME NEW i \in 1..k PROVE u[i] = Closes(t)[i]
    OBVIOUS
  <2> DEFINE j == i + (l - k)
  <2>1. u[i] = c[j] /\ t[i] = s[j] /\ j \in 1..l
    BY <1>2, <1>5
  <2> HIDE DEF j
  <2> QED
    BY <1>3, <1>4, <2>1
<1>7. u = Closes(t)
  BY <1>4, <1>5, <1>6, SeqEqual
<1> QED
  BY <1>7 DEF u, c, t

(* The moving average of indicators that keep the newest closes of the     *)
(* candles cs.                                                             *)
LEMMA AverageKnown ==
  ASSUME NEW x, NEW cs \in Seq(MarketBar), x.closes = LastOf(Closes(cs), Period)
  PROVE  SmaSum(x) = IF Len(cs) < Period THEN None ELSE CloseSum(LastOf(cs, Period))
<1> DEFINE r == LastOf(cs, Period)
<1>1. Period \in Nat \ {0} /\ Len(cs) \in Nat
  BY IndicatorsAssumption, LenProperties
<1>2. x.closes = Closes(r)
  BY <1>1, ClosesOfNewest
<1>3. r \in Seq(MarketBar) /\ Len(r) = Min2(Len(cs), Period)
  BY <1>1, LastOfProperties
<1>4. \A bar \in MarketBar : Closes(r) \in Seq(Int) /\ Len(Closes(r)) = Len(r)
  <2> HIDE DEF r
  <2> QED
    BY <1>3, ClosesOf
<1>5. [time |-> 0, high |-> 0, low |-> 0, close |-> 0] \in MarketBar
  BY DEF MarketBar
<1>6. Closes(r) \in Seq(Int) /\ Len(Closes(r)) = Min2(Len(cs), Period)
  BY <1>3, <1>4, <1>5
<1> HIDE DEF r
<1>7. CASE Len(cs) < Period
  <2>1. Len(x.closes) < Period
    BY <1>1, <1>2, <1>6, <1>7 DEF Min2
  <2> QED
    BY <1>7, <2>1 DEF SmaSum
<1>8. CASE ~(Len(cs) < Period)
  <2>1. Min2(Len(cs), Period) = Period
    BY <1>1, <1>8 DEF Min2
  <2>2. Len(Closes(r)) = Period /\ Len(x.closes) = Period /\ Len(r) = Period
    BY <1>2, <1>3, <1>6, <2>1
  <2>3. \A i \in 1..Period : Closes(r)[i] \in Int
    BY <1>6, <2>2, ElementOfSeq
  <2>4. PICK F, p : Sums(F, p, Closes(r), Period)
    BY <1>1, <2>3, SumsExist
  <2>5. CloseSum(r) = p[Period]
    BY <1>1, <1>3, <2>2, <2>4, SumOfSet
  <2>6. SmaSum(x) = p[Period]
    BY <1>2, <2>2, <2>4, SumOfList
  <2> QED
    BY <1>8, <2>5, <2>6 DEF r
<1> QED
  BY <1>7, <1>8

(* The candle that phase B trails, of indicators that keep the newest of   *)
(* the candles cs.                                                         *)
LEMMA TrailKnown ==
  ASSUME NEW x, NEW cs \in Seq(MarketBar), x.candles = LastOf(cs, HistoryLen)
  PROVE  TrailReference(x) = IF Len(cs) < Lookback THEN None ELSE LastOf(cs, Lookback)[1]
<1> DEFINE l == Len(cs)
           k == Min2(l, HistoryLen)
<1>1. /\ Lookback \in Nat \ {0} /\ HistoryLen \in Nat \ {0} /\ HistoryLen >= Lookback
      /\ l \in Nat
  BY IndicatorsAssumption, LenProperties
<1>2. /\ Len(x.candles) = k
      /\ \A i \in 1..k : x.candles[i] = cs[i + (l - k)]
  BY <1>1, LastOfProperties
<1>3. k < Lookback <=> l < Lookback
  BY <1>1 DEF Min2
<1>4. CASE l < Lookback
  BY <1>2, <1>3, <1>4 DEF TrailReference
<1>5. CASE ~(l < Lookback)
  <2>1. Min2(l, Lookback) = Lookback /\ k \in Nat /\ k >= Lookback
    BY <1>1, <1>5 DEF Min2
  <2>2. LastOf(cs, Lookback)[1] = cs[1 + (l - Lookback)]
    <3>1. \A i \in 1..Min2(l, Lookback) :
            LastOf(cs, Lookback)[i] = cs[i + (l - Min2(l, Lookback))]
      BY <1>1, LastOfProperties
    <3>2. 1 \in 1..Lookback
      BY <1>1
    <3> QED
      BY <2>1, <3>1, <3>2
  <2> DEFINE i == k + 1 - Lookback
  <2>3. i \in 1..k /\ i + (l - k) = 1 + (l - Lookback)
    BY <1>1, <2>1
  <2>4. TrailReference(x) = x.candles[i]
    BY <1>2, <1>3, <1>5 DEF TrailReference
  <2> HIDE DEF i, k, l
  <2>5. x.candles[i] = cs[1 + (l - Lookback)]
    BY <1>2, <2>3
  <2> QED
    BY <1>5, <2>2, <2>4, <2>5 DEF l
<1> QED
  BY <1>4, <1>5

(* Indicators that know a set of bars say what the set says.               *)
LEMMA KnowsAgrees ==
  ASSUME NEW x, NEW S \in SUBSET (1..EndTime), Knows(x, S)
  PROVE  [sum |-> SmaSum(x), trail |-> TrailReference(x), last |-> x.last] = IndicatorsOf(S)
<1> DEFINE cs == IF S = {} THEN <<>> ELSE CandlesOf(S)
<1>1. /\ cs \in Seq(MarketBar)
      /\ x.closes = LastOf(Closes(cs), Period) /\ x.candles = LastOf(cs, HistoryLen)
      /\ x.last = IF S = {} THEN None ELSE Shape[MaxOf(S)].close
  <2>1. CASE S = {}
    <3>1. cs = <<>> /\ x.closes = <<>> /\ x.candles = <<>> /\ x.last = None
      BY <2>1 DEF Knows, NewIndicators
    <3>2. /\ <<>> \in Seq(MarketBar) /\ Closes(<<>>) = <<>>
          /\ LastOf(<<>>, HistoryLen) = <<>> /\ LastOf(<<>>, Period) = <<>>
      <4>1. Len(<<>>) = 0 /\ DOMAIN <<>> = {} /\ HistoryLen >= 0 /\ Period >= 0
        BY IndicatorsAssumption, EmptySeq
      <4> QED
        BY <4>1, EmptySeq DEF Closes, LastOf
    <3> HIDE DEF cs
    <3> QED
      BY <2>1, <3>1, <3>2
  <2>2. CASE S # {}
    BY <2>2, CandlesAreBars DEF Knows
  <2> QED
    BY <2>1, <2>2
<1>2. IndicatorsOf(S) =
        [sum |-> IF Len(cs) < Period THEN None ELSE CloseSum(LastOf(cs, Period)),
         trail |-> IF Len(cs) < Lookback THEN None ELSE LastOf(cs, Lookback)[1],
         last |-> IF S = {} THEN None ELSE Shape[MaxOf(S)].close]
  BY Zenon DEF IndicatorsOf, CloseSum, MapThenSumSet, MapThenFoldSet
<1> HIDE DEF cs
<1>3. SmaSum(x) = IF Len(cs) < Period THEN None ELSE CloseSum(LastOf(cs, Period))
  BY <1>1, AverageKnown
<1>4. TrailReference(x) = IF Len(cs) < Lookback THEN None ELSE LastOf(cs, Lookback)[1]
  BY <1>1, TrailKnown
<1> QED
  BY <1>1, <1>2, <1>3, <1>4
-----------------------------------------------------------------------------
(* A warm-up, and a bar of a session.                                      *)

(* A warm-up knows the bars it was given.                                  *)
LEMMA WarmedUpKnows ==
  ASSUME NEW h \in Seq(1..EndTime), Increasing(h)
  PROVE  Knows(WarmedUp(NewIndicators, BarsOf(h)), Range(h))
<1> DEFINE n == Len(h)
           bars == BarsOf(h)
           Seen(i) == {h[j] : j \in 1..i}
<1>1. /\ n \in Nat /\ DOMAIN h = 1..n /\ \A i \in 1..n : h[i] \in 1..EndTime
  BY LenProperties, ElementOfSeq
<1>2. \A i \in 1..n : BarOf(h[i]) \in MarketBar
  <2> SUFFICES ASSUME NEW i \in 1..n PROVE BarOf(h[i]) \in MarketBar
    OBVIOUS
  <2>1. h[i] \in 1..EndTime /\ h[i] \in Int
    BY <1>1
  <2>2. Shape[h[i]] \in [high : Int, low : Int, close : Int]
    BY <2>1, FeedAssumption
  <2> QED
    BY <2>1, <2>2 DEF BarOf, MarketBar
<1>3. bars \in Seq(MarketBar) /\ Len(bars) = n /\ \A i \in 1..n : bars[i] = BarOf(h[i])
  BY <1>1, <1>2 DEF BarsOf
<1> HIDE DEF bars
<1>4. PICK after :
        /\ WarmedUp(NewIndicators, bars) = after[n]
        /\ \A i \in 0..n :
             after[i] = IF i = 0 THEN NewIndicators ELSE Feed(after[i - 1], bars[i])
  BY <1>3, WarmedUpSteps
<1> DEFINE Good(i) == Bounded(after[i]) /\ Knows(after[i], Seen(i))
<1>5. Good(0)
  <2>1. after[0] = NewIndicators /\ Seen(0) = {}
    BY <1>1, <1>4
  <2>2. Knows(NewIndicators, {})
    BY DEF Knows
  <2> QED
    BY <2>1, <2>2, NewBounded
<1>6. ASSUME NEW i \in 1..n, Good(i - 1) PROVE Good(i)
  <2>1. after[i] = Feed(after[i - 1], BarOf(h[i])) /\ h[i] \in 1..EndTime
    <3>1. i \in 0..n /\ i # 0
      BY <1>1
    <3> QED
      BY <1>1, <1>3, <1>4, <3>1
  <2>2. Seen(i) = Seen(i - 1) \cup {h[i]}
    <3>1. 1..i = (1..(i - 1)) \cup {i}
      BY <1>1
    <3> QED
      BY <3>1
  <2>3. Seen(i - 1) \in SUBSET (1..EndTime) /\ \A k \in Seen(i - 1) : k < h[i]
    <3> SUFFICES ASSUME NEW j \in 1..(i - 1) PROVE h[j] \in 1..EndTime /\ h[j] < h[i]
      OBVIOUS
    <3>1. j \in 1..n /\ j < i
      BY <1>1
    <3> QED
      BY <1>1, <3>1 DEF Increasing
  <2>4. Bounded(after[i - 1]) /\ Knows(after[i - 1], Seen(i - 1))
    BY <1>6
  <2> HIDE DEF Seen
  <2>5. Knows(Feed(after[i - 1], BarOf(h[i])), Seen(i - 1) \cup {h[i]})
    BY <2>1, <2>3, <2>4, FeedKnows
  <2>6. Bounded(Feed(after[i - 1], BarOf(h[i])))
    BY <1>2, <2>4, FeedBounded
  <2> QED
    BY <2>1, <2>2, <2>5, <2>6
<1> HIDE DEF Good
<1>7. \A i \in 0..n : Good(i)
  <2> DEFINE Bad == {i \in 0..n : ~Good(i)}
  <2> SUFFICES ASSUME Bad # {} PROVE FALSE
    OBVIOUS
  <2>1. PICK k \in Bad : \A j \in Bad : k <= j
    <3>1. Bad \subseteq Nat
      OBVIOUS
    <3> HIDE DEF Bad
    <3> QED
      BY <3>1, LeastExists
  <2>2. k \in 0..n /\ ~Good(k) /\ k # 0
    BY <1>5, <2>1
  <2>3. k - 1 \in 0..n /\ k \in 1..n /\ ~(k <= k - 1)
    BY <1>1, <2>2
  <2>4. k - 1 \notin Bad
    <3> HIDE DEF Bad
    <3> QED
      BY <2>1, <2>3
  <2>5. Good(k - 1)
    BY <2>3, <2>4
  <2> QED
    BY <1>6, <2>2, <2>3, <2>5
<1>8. Range(h) = Seen(n)
  BY <1>1 DEF Range
<1>9. Good(n)
  BY <1>1, <1>7
<1> QED
  BY <1>4, <1>8, <1>9 DEF Good, bars

(* Traded minutes are minutes of the day.                                  *)
LEMMA TradedInDay ==
  ASSUME Types
  PROVE  traded \in SUBSET (1..EndTime) /\ clock \in 0..EndTime
<1>1. clock \in 0..EndTime /\ EndTime \in Nat /\ traded \subseteq 1..clock
  BY FeedAssumption DEF Types
<1>2. 1..clock \subseteq 1..EndTime
  BY <1>1
<1> QED
  BY <1>1, <1>2

(* A bar given to an engine: it is later than those before it, and than    *)
(* the warm-up if the first one was.                                       *)
LEMMA OnBarKnows ==
  ASSUME Inv, Inv', KnowsBars, NEW m \in traded,
         delivered' = Append(delivered, m), g' = Feed(g, BarOf(m)), warm' = warm
  PROVE  KnowsBars'
<1>1. /\ delivered \in Seq(traded) /\ traded \in SUBSET (1..EndTime) /\ Bounded(g)
  BY TradedInDay DEF Inv, Types
<1>2. /\ Len(delivered) \in Nat /\ DOMAIN delivered = 1..Len(delivered)
      /\ \A i \in 1..Len(delivered) : delivered[i] \in traded
      /\ delivered' \in Seq(traded) /\ Len(delivered') = Len(delivered) + 1
      /\ delivered'[Len(delivered) + 1] = m
      /\ \A i \in 1..Len(delivered) : delivered'[i] = delivered[i]
  BY <1>1, LenProperties, ElementOfSeq, AppendProperties
<1>3. DOMAIN delivered' = 1..(Len(delivered) + 1)
  BY <1>2, LenProperties
<1>4. delivered' # <<>> /\ warm \in Seq(1..EndTime) /\ Increasing(warm)
  BY <1>2, EmptySeq DEF KnowsBars
<1>5. CASE ~StartsAfterWarmUp'
  BY <1>4, <1>5 DEF KnowsBars
<1>6. CASE StartsAfterWarmUp'
  <2>1. StartsAfterWarmUp
    <3> SUFFICES ASSUME warm # <<>>, delivered # <<>> PROVE delivered[1] > Last(warm)
      BY DEF StartsAfterWarmUp
    <3>1. delivered'[1] > Last(warm)
      BY <1>4, <1>6 DEF StartsAfterWarmUp
    <3>2. 1 \in 1..Len(delivered)
      <4>1. Len(delivered) # 0 /\ Len(delivered) \in Nat
        BY <1>1, <1>2, EmptySeq
      <4> QED
        BY <4>1
    <3> QED
      BY <1>2, <3>1, <3>2
  <2>2. Knows(g, Range(warm \o delivered))
    BY <2>1 DEF KnowsBars
  <2>3. Range(delivered') = Range(delivered) \cup {m}
    <3>1. \A i \in 1..(Len(delivered) + 1) : i = Len(delivered) + 1 \/ i \in 1..Len(delivered)
      BY <1>2
    <3>2. \A i \in 1..Len(delivered) : i \in 1..(Len(delivered) + 1)
      BY <1>2
    <3>3. Len(delivered) + 1 \in 1..(Len(delivered) + 1)
      BY <1>2
    <3>4. Range(delivered') \subseteq Range(delivered) \cup {m}
      BY <1>2, <1>3, <3>1 DEF Range
    <3>5. Range(delivered) \cup {m} \subseteq Range(delivered')
      BY <1>2, <1>3, <3>2, <3>3 DEF Range
    <3> QED
      BY <3>4, <3>5
  <2>4. \A k \in Range(delivered) : k < m
    <3> SUFFICES ASSUME NEW i \in 1..Len(delivered) PROVE delivered[i] < m
      BY <1>2 DEF Range
    <3> DEFINE n == Len(delivered) + 1
               u == delivered' \o queue'
    <3>1. Increasing(u) /\ queue' \in Seq(traded')  /\ delivered' \in Seq(traded')
      BY DEF Inv, InTimeOrder, Passed, Types
    <3>2. /\ Len(u) = n + Len(queue') /\ Len(queue') \in Nat
          /\ \A j \in 1..(n + Len(queue')) : j <= n => u[j] = delivered'[j]
      <4>1. /\ Len(u) = Len(delivered') + Len(queue') /\ Len(queue') \in Nat
            /\ \A j \in 1..(Len(delivered') + Len(queue')) :
                 u[j] = IF j <= Len(delivered') THEN delivered'[j] ELSE queue'[j - Len(delivered')]
        BY <3>1, ConcatProperties, LenProperties
      <4>2. Len(delivered') = n
        BY <1>2
      <4> HIDE DEF u, n
      <4> QED
        BY <4>1, <4>2
    <3>3. i \in 1..Len(u) /\ n \in 1..Len(u) /\ i < n /\ i <= n /\ n <= n
      BY <1>2, <3>2
    <3>4. u[i] = delivered[i] /\ u[n] = m
      BY <1>2, <3>2, <3>3
    <3> HIDE DEF u, n
    <3> QED
      BY <3>1, <3>3, <3>4 DEF Increasing
  <2>5. Range(delivered) \subseteq 1..EndTime /\ m \in 1..EndTime /\ EndTime \in Nat
    BY <1>1, <1>2, FeedAssumption DEF Range
  <2>6. /\ DOMAIN warm = 1..Len(warm) /\ Len(warm) \in Nat
        /\ \A i \in 1..Len(warm) : warm[i] \in 1..EndTime
    BY <1>4, LenProperties, ElementOfSeq
  <2>7. Range(warm) \subseteq 1..EndTime
    BY <2>6 DEF Range
  <2>8. ASSUME warm # <<>> PROVE Last(warm) \in 1..EndTime /\ Last(warm) < m
    <3>1. Len(warm) \in 1..Len(warm)
      <4>1. Len(warm) # 0
        BY <1>4, <2>8, EmptySeq
      <4> QED
        BY <2>6, <4>1
    <3>2. Last(warm) \in 1..EndTime
      BY <2>6, <3>1 DEF Last
    <3>3. delivered'[1] > Last(warm)
      BY <1>4, <1>6, <2>8 DEF StartsAfterWarmUp
    <3>4. CASE Len(delivered) = 0
      BY <1>2, <2>5, <3>2, <3>3, <3>4
    <3>5. CASE Len(delivered) # 0
      <4>1. 1 \in 1..Len(delivered)
        BY <1>2, <3>5
      <4>2. delivered[1] \in Range(delivered) /\ delivered'[1] = delivered[1]
        BY <1>2, <4>1 DEF Range
      <4>3. delivered[1] < m /\ delivered[1] \in 1..EndTime
        BY <2>4, <2>5, <4>2
      <4> QED
        BY <2>5, <3>2, <3>3, <4>2, <4>3
    <3> QED
      BY <3>2, <3>4, <3>5
  <2>9. \A k \in Range(warm) : k < m
    <3> SUFFICES ASSUME NEW i \in 1..Len(warm) PROVE warm[i] < m
      BY <2>6 DEF Range
    <3>1. warm # <<>> /\ Len(warm) \in 1..Len(warm) /\ (i = Len(warm) \/ i < Len(warm))
      <4>1. i \in 1..Len(warm)
        OBVIOUS
      <4>2. PICK n \in Nat : n = Len(warm)
        BY <2>6
      <4>3. n # 0 /\ n \in 1..n /\ (i = n \/ i < n)
        BY <4>1, <4>2
      <4>4. warm # <<>>
        BY <4>2, <4>3, EmptySeq
      <4> QED
        BY <4>2, <4>3, <4>4
    <3>2. Last(warm) = warm[Len(warm)] /\ Last(warm) \in 1..EndTime /\ Last(warm) < m
      BY <2>8, <3>1 DEF Last
    <3>3. i < Len(warm) => warm[i] < warm[Len(warm)]
      BY <1>4, <3>1 DEF Increasing
    <3>4. warm[i] \in 1..EndTime
      BY <2>6
    <3> QED
      BY <2>5, <3>1, <3>2, <3>3, <3>4
  <2>10. /\ Range(warm \o delivered) = Range(warm) \cup Range(delivered)
         /\ Range(warm \o delivered') = Range(warm) \cup Range(delivered')
    <3>1. /\ warm \in Seq(Nat) /\ delivered \in Seq(Nat) /\ delivered' \in Seq(Nat)
      <4>1. 1..EndTime \subseteq Nat /\ traded \subseteq Nat
        BY <1>1, <2>5
      <4> QED
        BY <1>1, <1>2, <1>4, <4>1, SeqMonotonic
    <3>2. Range(warm \o delivered) = Range(warm) \cup Range(delivered)
      BY <3>1, RangeOfConcat
    <3>3. \A d \in Seq(Nat) : Range(warm \o d) = Range(warm) \cup Range(d)
      BY <3>1, RangeOfConcat
    <3> QED
      BY <3>1, <3>2, <3>3
  <2> DEFINE S == Range(warm \o delivered)
  <2>11. S \in SUBSET (1..EndTime) /\ \A k \in S : k < m
    BY <2>4, <2>5, <2>7, <2>9, <2>10
  <2>12. Knows(Feed(g, BarOf(m)), S \cup {m})
    <3> HIDE DEF S
    <3>1. Knows(g, S)
      BY <2>2 DEF S
    <3> QED
      BY <1>1, <2>5, <2>11, <3>1, FeedKnows
  <2>13. Range(warm \o delivered') = S \cup {m}
    BY <2>3, <2>10
  <2> HIDE DEF S
  <2> QED
    BY <1>4, <2>12, <2>13 DEF KnowsBars
<1> QED
  BY <1>5, <1>6

(* A new session, warmed up or not.                                        *)
LEMMA SessionErrorKnows ==
  ASSUME Inv, SessionError
  PROVE  KnowsBars'
<1>1. /\ Types /\ warm' \in {<<>>, Recent(WarmUp)} /\ delivered' = <<>>
      /\ g' = WarmedUp(NewIndicators, BarsOf(warm'))
  BY DEF SessionError, Inv
<1>2. warm' \in Seq(1..EndTime) /\ Increasing(warm')
  <2>1. <<>> \in Seq(1..EndTime) /\ Increasing(<<>>)
    BY EmptySeq DEF Increasing
  <2>2. Recent(WarmUp) \in Seq(1..EndTime) /\ Increasing(Recent(WarmUp))
    <3>1. Recent(WarmUp) \in Seq(traded) /\ Increasing(Recent(WarmUp))
      BY <1>1, RecentIsNewest, FeedAssumption
    <3>2. traded \in SUBSET (1..EndTime)
      BY <1>1, TradedInDay
    <3> QED
      BY <3>1, <3>2, SeqMonotonic
  <2> QED
    BY <1>1, <2>1, <2>2
<1>3. PICK w : w = warm'
  OBVIOUS
<1>4. w \in Seq(1..EndTime) /\ Increasing(w)
  BY <1>2, <1>3
<1>5. Knows(WarmedUp(NewIndicators, BarsOf(w)), Range(w))
  BY <1>4, WarmedUpKnows
<1>6. w \o <<>> = w
  BY <1>4, ConcatEmptySeq
<1> QED
  BY <1>1, <1>2, <1>3, <1>5, <1>6 DEF KnowsBars

(* A step gives no bar, one bar, or starts a new session.                  *)
LEMMA NextKnows ==
  ASSUME Inv, Inv', KnowsBars, [Next]_vars
  PROVE  KnowsBars'
<1>1. CASE UNCHANGED <<g, warm, delivered>>
  BY <1>1 DEF KnowsBars, StartsAfterWarmUp
<1>2. CASE TakeQueued
  <2>1. /\ queue # <<>> /\ delivered' = Append(delivered, Head(queue))
        /\ g' = Feed(g, BarOf(Head(queue))) /\ warm' = warm /\ queue \in Seq(traded)
    BY <1>2 DEF TakeQueued, OnBar, Inv, Types
  <2>2. Head(queue) \in traded
    BY <2>1, HeadTailProperties
  <2> QED
    BY <2>1, <2>2, OnBarKnows
<1>3. CASE Receive
  <2>1. CASE NewBars(answer) = <<>>
    BY <1>1, <1>3, <2>1 DEF Receive
  <2>2. CASE NewBars(answer) # <<>>
    <3>1. /\ delivered' = Append(delivered, Head(NewBars(answer)))
          /\ g' = Feed(g, BarOf(Head(NewBars(answer)))) /\ warm' = warm
      BY <1>3, <2>2 DEF Receive, OnBar
    <3>2. NewBars(answer) \in Seq(traded)
      BY NewBarsSorted DEF Inv
    <3>3. Head(NewBars(answer)) \in traded
      BY <2>2, <3>2, HeadTailProperties
    <3> QED
      BY <3>1, <3>3, OnBarKnows
  <2> QED
    BY <2>1, <2>2
<1>4. CASE SessionError
  BY <1>4, SessionErrorKnows
<1>5. CASE Minute \/ Ask \/ Answer \/ TimeOut \/ UNCHANGED vars
  BY <1>1, <1>5 DEF Minute, Ask, Answer, TimeOut, vars
<1> QED
  BY <1>2, <1>3, <1>4, <1>5 DEF Next

(* Nothing is known of no bars.                                            *)
LEMMA InitKnows == Init => KnowsBars
<1> SUFFICES ASSUME Init PROVE KnowsBars
  OBVIOUS
<1>1. g = NewIndicators /\ warm = <<>> /\ delivered = <<>>
  BY DEF Init
<1>2. /\ <<>> \o <<>> = <<>> /\ Range(<<>>) = {}
      /\ <<>> \in Seq(1..EndTime) /\ Increasing(<<>>)
  <2>1. <<>> \in Seq({}) /\ DOMAIN <<>> = {} /\ <<>> \in Seq(1..EndTime)
    BY EmptySeq
  <2> QED
    BY <2>1, EmptySeq, ConcatEmptySeq DEF Range, Increasing
<1> QED
  BY <1>1, <1>2 DEF KnowsBars, Knows

-----------------------------------------------------------------------------
(* The theorems.                                                           *)

(* The source, the running poll and the indicators satisfy the invariant   *)
(* at every moment.                                                        *)
THEOREM Invariance == Spec => []Inv
<1>1. Inv /\ [Next]_vars => Inv'
  BY MinuteInv, TakeQueuedInv, AskInv, AnswerInv, ReceiveInv, SessionErrorInv, StutterInv
  DEF Next
<1> QED
  BY <1>1, InitInv, PTL DEF Spec

(* Every field keeps its type, and the deques of the indicators their      *)
(* bounds.                                                                 *)
THEOREM TypeCorrect == Spec => []TypeOK
<1>1. Inv => TypeOK
  BY DEF Inv, Types, OnePoll, Bounded, TypeOK
<1> QED
  BY <1>1, Invariance, PTL

(* bar_source.py, "dedup by timestamp": bars reach the engine in order and *)
(* once, through time-outs at any point of a poll.                         *)
THEOREM BarsInOrder == Spec => []FedInOrder
<1>1. Inv => FedInOrder
  <2> SUFFICES ASSUME Inv, NEW i \in 2..Len(Passed) PROVE Passed[i - 1] < Passed[i]
    BY DEF Inv, InTimeOrder, FedInOrder, Passed
  <2>1. Len(Passed) \in Nat
    BY ConcatProperties, LenProperties DEF Inv, Types, Passed
  <2>2. i - 1 \in 1..Len(Passed) /\ i \in 1..Len(Passed) /\ i - 1 < i
    BY <2>1
  <2> QED
    BY <2>2 DEF Inv, InTimeOrder, Increasing
<1> QED
  BY <1>1, Invariance, PTL

(* A time-out never loses a bar: one that is passed over is older than a   *)
(* full window of those passed on.                                         *)
THEOREM OnlyGapsLoseBars == Spec => []OnlyLongGapsLoseBars
<1>1. Inv => OnlyLongGapsLoseBars
  BY DEF Inv
<1> QED
  BY <1>1, Invariance, PTL

(* The moving average, the trailing candle and the last price are those of *)
(* the set of bars that the engine was given.                              *)
THEOREM IndicatorsAgree == Spec => []IndicatorsMatch
<1>1. Inv /\ KnowsBars => IndicatorsMatch
  <2> SUFFICES ASSUME Inv, KnowsBars, StartsAfterWarmUp
               PROVE  Known = IndicatorsOf(Range(warm \o delivered))
    BY DEF IndicatorsMatch, StartsAfterWarmUp
  <2>1. Knows(g, Range(warm \o delivered))
    BY DEF KnowsBars
  <2>2. Range(warm \o delivered) \in SUBSET (1..EndTime)
    <3>1. warm \in Seq(1..EndTime) /\ delivered \in Seq(1..EndTime)
      BY TradedInDay, SeqMonotonic DEF KnowsBars, Inv, Types
    <3>2. Range(warm \o delivered) = Range(warm) \cup Range(delivered)
      BY <3>1, RangeOfConcat
    <3>3. /\ DOMAIN warm = 1..Len(warm) /\ DOMAIN delivered = 1..Len(delivered)
          /\ \A i \in 1..Len(warm) : warm[i] \in 1..EndTime
          /\ \A i \in 1..Len(delivered) : delivered[i] \in 1..EndTime
      BY <3>1, LenProperties, ElementOfSeq
    <3>4. Range(warm) \subseteq 1..EndTime /\ Range(delivered) \subseteq 1..EndTime
      BY <3>3 DEF Range
    <3> QED
      BY <3>2, <3>4
  <2> QED
    BY <2>1, <2>2, KnowsAgrees DEF Known
<1>2. Inv /\ Inv' /\ KnowsBars /\ [Next]_vars => KnowsBars'
  BY NextKnows
<1> QED
  BY <1>1, <1>2, InitKnows, Invariance, PTL DEF Spec
=============================================================================
