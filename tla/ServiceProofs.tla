---------------------------- MODULE ServiceProofs ---------------------------
(***************************************************************************)
(* The scheduler keeps its promise, and a save leaves a whole file, for    *)
(* every calendar, every set of configurations, every length of the day    *)
(* and of the scan, and any number of threads, saves and faults.           *)
(***************************************************************************)
EXTENDS Service, SequenceTheorems, WellFoundedInduction, TLAPS

(* A non-empty set of naturals has a least element.                        *)
LEMMA LeastExists ==
  ASSUME NEW S, S \subseteq Nat, S # {}
  PROVE  \E d \in S : \A x \in S : d <= x
<1>1. \E d \in S : \A x \in S : ~(<<x, d>> \in OpToRel(<, Nat))
  BY WFMin, NatLessThanWellFounded
<1>2. \A x, d \in S : ~(<<x, d>> \in OpToRel(<, Nat)) => d <= x
  BY DEF OpToRel
<1> QED
  BY <1>1, <1>2

(* A minute belongs to the day that Date names.                            *)
LEMMA DateBounds ==
  ASSUME NEW m \in Nat
  PROVE  /\ Date(m) \in Nat
         /\ Date(m) * DayLength <= m /\ m < Date(m) * DayLength + DayLength
         /\ m % DayLength = m - Date(m) * DayLength
  BY ServiceAssumption DEF Date

(* The days do not overlap.                                                *)
LEMMA DaysApart ==
  ASSUME NEW d \in Int, NEW x \in Int, d < x
  PROVE  d * DayLength + DayLength <= x * DayLength
<1>1. PICK k \in Nat : x = d + 1 + k
  <2>1. x - d - 1 \in Nat /\ x = d + 1 + (x - d - 1)
    OBVIOUS
  <2> QED
    BY <2>1
<1>2. x * DayLength = d * DayLength + DayLength + k * DayLength
  BY <1>1, ServiceAssumption
<1>3. k * DayLength >= 0
  BY ServiceAssumption
<1> QED
  BY <1>2, <1>3, ServiceAssumption

(* A minute between the bounds of a day has that date.                     *)
LEMMA DateUnique ==
  ASSUME NEW m \in Nat, NEW d \in Int,
         d * DayLength <= m, m < d * DayLength + DayLength
  PROVE  Date(m) = d
<1> DEFINE e == Date(m)
<1>1. e \in Nat /\ e * DayLength <= m /\ m < e * DayLength + DayLength
  BY DateBounds
<1> HIDE DEF e
<1>2. d * DayLength \in Int /\ e * DayLength \in Int
  BY <1>1, ServiceAssumption
<1>3. ~(e < d)
  BY <1>1, <1>2, DaysApart, ServiceAssumption
<1>4. ~(d < e)
  BY <1>1, <1>2, DaysApart, ServiceAssumption
<1>5. e = d
  BY <1>1, <1>3, <1>4
<1> QED
  BY <1>5 DEF e

(* The window of a day lies inside that day.                               *)
LEMMA WindowInDay ==
  ASSUME NEW c \in Configs, NEW d \in Int
  PROVE  /\ WindowStart(c, d) \in Int /\ WindowEnd(c, d) \in Int
         /\ d * DayLength \in Int
         /\ d * DayLength <= WindowStart(c, d)
         /\ WindowStart(c, d) < WindowEnd(c, d)
         /\ WindowEnd(c, d) < d * DayLength + DayLength
  BY ServiceAssumption DEF WindowStart, WindowEnd

(* Windows open in the order of their days.                                *)
LEMMA WindowsInOrder ==
  ASSUME NEW c \in Configs, NEW d \in Int, NEW x \in Int, d <= x
  PROVE  WindowStart(c, d) <= WindowStart(c, x)
<1>1. CASE d = x
  BY <1>1, WindowInDay
<1>2. CASE d < x
  <2>1. d * DayLength + DayLength <= x * DayLength
    BY <1>2, DaysApart
  <2>2. /\ WindowStart(c, d) \in Int /\ d * DayLength \in Int
        /\ WindowStart(c, d) < d * DayLength + DayLength
    BY WindowInDay, ServiceAssumption
  <2>3. WindowStart(c, x) \in Int /\ x * DayLength <= WindowStart(c, x) /\ x * DayLength \in Int
    BY WindowInDay
  <2> QED
    BY <2>1, <2>2, <2>3, ServiceAssumption
<1> QED
  BY <1>1, <1>2

-----------------------------------------------------------------------------
(* The start of the next session.                                          *)

(* A day on which the market opens.                                        *)
IsOpen(d) == SessionStatus(d) # "closed"

(* A start that does not pass over any part of an open day's window.       *)
PassesNoWindow(c, m, start) ==
  \A d \in Int : IsOpen(d) /\ m < WindowEnd(c, d) =>
    start <= WindowStart(c, d) \/ start <= m

(* What next_session_start returns: a moment inside the window of an open  *)
(* day, now or later, and no open window is passed over to reach it.       *)
LEMMA NextSessionStartCorrect ==
  ASSUME NEW c \in Configs, NEW m \in Nat, NEW start, start = NextSessionStart(c, m),
         start # None
  PROVE  /\ start \in Nat /\ m <= start
         /\ IsOpen(Date(start))
         /\ WindowStart(c, Date(start)) <= start /\ start <= WindowEnd(c, Date(start))
         /\ PassesNoWindow(c, m, start)
<1> DEFINE days == {d \in Date(m)..(Date(m) + ScanDays - 1) :
                      /\ SessionStatus(d) # "closed"
                      /\ m <= WindowStart(c, d) \/ m < WindowEnd(c, d)}
           first == CHOOSE d \in days : \A x \in days : d <= x
<1>1. /\ days # {}
      /\ start = IF m <= WindowStart(c, first) THEN WindowStart(c, first) ELSE m
  BY DEF NextSessionStart
<1>2. Date(m) \in Nat /\ Date(m) + ScanDays - 1 \in Int
  <2>1. Date(m) \in Nat
    BY DateBounds
  <2> QED
    BY <2>1, ServiceAssumption
<1>3. days \subseteq Nat
  BY <1>2
<1>4. first \in days /\ \A x \in days : first <= x
  <2>1. \E d \in days : \A x \in days : d <= x
    BY <1>1, <1>3, LeastExists
  <2> QED
    BY <2>1
<1>5. /\ first \in Nat /\ Date(m) <= first /\ IsOpen(first)
      /\ m <= WindowStart(c, first) \/ m < WindowEnd(c, first)
  BY <1>2, <1>3, <1>4 DEF IsOpen
<1> HIDE DEF first
<1>6. /\ WindowStart(c, first) \in Int /\ WindowEnd(c, first) \in Int
      /\ first * DayLength \in Int
      /\ first * DayLength <= WindowStart(c, first)
      /\ WindowStart(c, first) < WindowEnd(c, first)
      /\ WindowEnd(c, first) < first * DayLength + DayLength
  BY <1>5, WindowInDay
<1>7. /\ start \in Nat /\ m <= start
      /\ WindowStart(c, first) <= start /\ start <= WindowEnd(c, first)
  BY <1>1, <1>5, <1>6
<1>8. Date(start) = first
  BY <1>5, <1>6, <1>7, DateUnique, ServiceAssumption
<1>9. PassesNoWindow(c, m, start)
  <2> SUFFICES ASSUME NEW d \in Int, IsOpen(d), m < WindowEnd(c, d)
               PROVE  start <= WindowStart(c, d) \/ start <= m
    BY DEF PassesNoWindow
  <2>1. Date(m) <= d
    <3>1. WindowEnd(c, d) \in Int /\ WindowEnd(c, d) < d * DayLength + DayLength
          /\ d * DayLength \in Int
      BY WindowInDay
    <3>2. d < Date(m) => d * DayLength + DayLength <= Date(m) * DayLength
      BY <1>2, DaysApart
    <3>3. Date(m) * DayLength \in Int /\ Date(m) * DayLength <= m
      BY <1>2, DateBounds, ServiceAssumption
    <3> QED
      BY <1>2, <3>1, <3>2, <3>3, ServiceAssumption
  <2>2. first <= d
    <3>1. CASE d <= Date(m) + ScanDays - 1
      <4>1. d \in days
        BY <1>2, <2>1, <3>1 DEF IsOpen
      <4> QED
        BY <1>4, <4>1
    <3>2. CASE ~(d <= Date(m) + ScanDays - 1)
      <4>1. first <= Date(m) + ScanDays - 1
        BY <1>2, <1>4
      <4> QED
        BY <1>2, <1>5, <3>2, <4>1
    <3> QED
      BY <3>1, <3>2
  <2>3. WindowStart(c, first) <= WindowStart(c, d) /\ WindowStart(c, d) \in Int
    BY <1>5, <2>2, WindowsInOrder, WindowInDay
  <2> QED
    BY <1>1, <1>6, <2>3
<1> QED
  BY <1>5, <1>7, <1>8, <1>9

-----------------------------------------------------------------------------
(* The bot.                                                                *)

BotTypes ==
  /\ now \in Nat /\ now <= EndTime
  /\ pc \in {"load", "sleep", "session", "down"}
  /\ config \in Configs /\ wake \in Int \cup {None} /\ date \in Int \cup {None}
  /\ faults \in 0..MaxFaults /\ upAllDay \in BOOLEAN

HadSession(d) == \E s \in sessions : s.date = d

(* A sleeping bot wakes inside an open window and passes none over.        *)
SleepsUntilWindow ==
  pc = "sleep" =>
    /\ wake \in Nat /\ now <= wake
    /\ IsOpen(Date(wake))
    /\ WindowStart(config, Date(wake)) <= wake /\ wake <= WindowEnd(config, Date(wake))
    /\ PassesNoWindow(config, now, wake)

(* A running session is today's, in its window, and on record.             *)
TradesInWindow ==
  pc = "session" =>
    /\ date = Date(now) /\ IsOpen(date)
    /\ WindowStart(config, date) <= now /\ now <= WindowEnd(config, date)
    /\ HadSession(date)

(* An open day without a session, on which the bot has not been down, has  *)
(* its session still ahead.                                                *)
SessionAhead ==
  upAllDay /\ IsOpen(Date(now)) /\ ~HadSession(Date(now)) =>
    \/ pc = "load" /\ now = Date(now) * DayLength
    \/ pc = "sleep" /\ wake <= WindowStart(config, Date(now))

SchedulerInv ==
  /\ BotTypes /\ SleepsUntilWindow /\ TradesInWindow /\ SessionAhead
  /\ pc = "down" => ~upAllDay

(* What the loader makes of a text is a configuration or nothing.          *)
LEMMA LoadedConfigs ==
  ASSUME NEW content
  PROVE  Loaded(content) \subseteq Configs \cup {None}
  BY DEF Loaded

(* The bot starts at midnight, before the window of its first day.         *)
LEMMA SchedulerInit == Init => SchedulerInv
<1> SUFFICES ASSUME Init PROVE SchedulerInv
  OBVIOUS
<1>1. FirstDay * DayLength \in Nat /\ now = FirstDay * DayLength
  BY ServiceAssumption DEF Init
<1>2. Date(now) = FirstDay
  BY <1>1, DateUnique, ServiceAssumption
<1>3. pc = "load"
  BY DEF Init
<1>4. BotTypes
  BY <1>1, ServiceAssumption DEF Init, BotTypes
<1> QED
  BY <1>1, <1>2, <1>3, <1>4
     DEF SchedulerInv, SleepsUntilWindow, TradesInWindow, SessionAhead

(* Loading a configuration chooses the next start.                         *)
LEMMA SchedulerLoad == SchedulerInv /\ LoadConfig => SchedulerInv'
<1> SUFFICES ASSUME SchedulerInv, LoadConfig PROVE SchedulerInv'
  OBVIOUS
<1>1. /\ now' = now /\ date' = date /\ faults' = faults /\ sessions' = sessions
      /\ now \in Nat
  BY DEF LoadConfig, SchedulerInv, BotTypes, files
<1>2. config' \in Configs
  <2>1. PICK c \in Loaded(contents[path]) : config' = IF c = None THEN config ELSE c
    BY DEF LoadConfig
  <2> QED
    BY <2>1, LoadedConfigs DEF SchedulerInv, BotTypes
<1>3. wake' = NextSessionStart(config', now)
  BY DEF LoadConfig
<1>4. CASE wake' = None
  <2>1. pc' = "down" /\ upAllDay' = FALSE
    BY <1>4 DEF LoadConfig
  <2>2. BotTypes'
    BY <1>1, <1>2, <1>4, <2>1 DEF SchedulerInv, BotTypes
  <2> QED
    BY <2>1, <2>2 DEF SchedulerInv, SleepsUntilWindow, TradesInWindow, SessionAhead
<1>5. CASE wake' # None
  <2>1. pc' = "sleep" /\ upAllDay' = upAllDay
    BY <1>5 DEF LoadConfig
  <2>2. /\ wake' \in Nat /\ now <= wake'
        /\ IsOpen(Date(wake'))
        /\ WindowStart(config', Date(wake')) <= wake'
        /\ wake' <= WindowEnd(config', Date(wake'))
        /\ PassesNoWindow(config', now, wake')
    BY <1>1, <1>2, <1>3, <1>5, NextSessionStartCorrect
  <2>3. BotTypes'
    BY <1>1, <1>2, <2>1, <2>2 DEF SchedulerInv, BotTypes
  <2>4. SleepsUntilWindow'
    BY <1>1, <2>2 DEF SleepsUntilWindow
  <2>5. SessionAhead'
    <3> SUFFICES ASSUME upAllDay, IsOpen(Date(now)), ~HadSession(Date(now))
                 PROVE  wake' <= WindowStart(config', Date(now))
      BY <1>1, <2>1 DEF SessionAhead, HadSession
    <3>1. now = Date(now) * DayLength
      BY DEF LoadConfig, SchedulerInv, SessionAhead
    <3>2. Date(now) \in Int
      BY <1>1, DateBounds
    <3>3. /\ WindowStart(config', Date(now)) \in Int /\ WindowEnd(config', Date(now)) \in Int
          /\ now <= WindowStart(config', Date(now))
          /\ WindowStart(config', Date(now)) < WindowEnd(config', Date(now))
      BY <1>2, <3>1, <3>2, WindowInDay
    <3> QED
      BY <1>1, <2>2, <3>2, <3>3 DEF PassesNoWindow
  <2> QED
    BY <2>1, <2>3, <2>4, <2>5 DEF SchedulerInv, TradesInWindow
<1> QED
  BY <1>4, <1>5

(* A session starts when a sleep is over, so inside an open window.        *)
LEMMA SchedulerStart == SchedulerInv /\ StartSession => SchedulerInv'
<1> SUFFICES ASSUME SchedulerInv, StartSession PROVE SchedulerInv'
  OBVIOUS
<1>1. /\ now' = now /\ config' = config /\ wake' = wake /\ faults' = faults
      /\ upAllDay' = upAllDay /\ pc = "sleep" /\ pc' = "session" /\ date' = Date(now)
      /\ sessions' = sessions \cup {[date |-> date', config |-> config]}
      /\ now >= wake
  BY DEF StartSession, files
<1>2. /\ wake = now /\ Date(now) \in Int
      /\ IsOpen(Date(now))
      /\ WindowStart(config, Date(now)) <= now /\ now <= WindowEnd(config, Date(now))
  BY <1>1, DateBounds DEF SchedulerInv, SleepsUntilWindow, BotTypes
<1>3. HadSession(Date(now))'
  <2>1. [date |-> date', config |-> config] \in sessions'
    BY <1>1
  <2>2. \E s \in sessions' : s.date = Date(now')
    BY <1>1, <2>1
  <2> QED
    BY <2>2 DEF HadSession, Date
<1>4. BotTypes'
  BY <1>1, <1>2 DEF SchedulerInv, BotTypes
<1>5. TradesInWindow'
  BY <1>1, <1>2, <1>3 DEF TradesInWindow
<1> QED
  BY <1>1, <1>3, <1>4, <1>5 DEF SchedulerInv, SleepsUntilWindow, SessionAhead

(* A session that ends, by the clock or by an exception, is on record.     *)
LEMMA SchedulerEnd == SchedulerInv /\ (EndSession \/ SessionError) => SchedulerInv'
<1> SUFFICES ASSUME SchedulerInv, EndSession \/ SessionError PROVE SchedulerInv'
  OBVIOUS
<1>1. /\ now' = now /\ config' = config /\ wake' = wake /\ date' = date
      /\ upAllDay' = upAllDay /\ sessions' = sessions
      /\ pc = "session" /\ pc' = "load"
  BY DEF EndSession, SessionError, files
<1>2. faults' \in 0..MaxFaults
  BY ServiceAssumption DEF EndSession, SessionError, SchedulerInv, BotTypes
<1>3. BotTypes'
  BY <1>1, <1>2 DEF SchedulerInv, BotTypes
<1>4. HadSession(Date(now))'
  <2>1. HadSession(date) /\ date = Date(now)
    BY <1>1 DEF SchedulerInv, TradesInWindow
  <2>2. PICK s \in sessions : s.date = date
    BY <2>1 DEF HadSession
  <2>3. s \in sessions' /\ s.date = Date(now')
    BY <1>1, <2>1, <2>2
  <2> QED
    BY <2>3 DEF HadSession, Date
<1> QED
  BY <1>1, <1>3, <1>4 DEF SchedulerInv, SleepsUntilWindow, TradesInWindow, SessionAhead

(* A bot that was down is not held to the windows of that day.             *)
LEMMA SchedulerFaults == SchedulerInv /\ (BotDies \/ BotRestarts) => SchedulerInv'
<1> SUFFICES ASSUME SchedulerInv, BotDies \/ BotRestarts PROVE SchedulerInv'
  OBVIOUS
<1>1. now' = now /\ wake' = wake /\ date' = date /\ sessions' = sessions
  BY DEF BotDies, BotRestarts, files
<1>2. upAllDay' = FALSE /\ pc' \in {"load", "down"}
  BY DEF BotDies, BotRestarts, SchedulerInv, BotTypes
<1>3. config' \in Configs
  BY LoadedConfigs DEF BotDies, BotRestarts, SchedulerInv, BotTypes
<1>4. faults' \in 0..MaxFaults
  BY ServiceAssumption DEF BotDies, BotRestarts, SchedulerInv, BotTypes, files
<1>5. BotTypes'
  BY <1>1, <1>2, <1>3, <1>4 DEF SchedulerInv, BotTypes
<1> QED
  BY <1>2, <1>5 DEF SchedulerInv, SleepsUntilWindow, TradesInWindow, SessionAhead

(* A minute passes: midnight comes only to a bot that is asleep or down.   *)
LEMMA SchedulerTick == SchedulerInv /\ Tick => SchedulerInv'
<1> SUFFICES ASSUME SchedulerInv, Tick PROVE SchedulerInv'
  OBVIOUS
<1>1. /\ now' = now + 1 /\ now \in Nat /\ pc' = pc /\ config' = config /\ wake' = wake
      /\ date' = date /\ faults' = faults /\ sessions' = sessions
      /\ pc \in {"sleep", "session", "down"} /\ config \in Configs
  BY DEF Tick, files, SchedulerInv, BotTypes
<1>2. BotTypes'
  <2>1. now' \in Nat /\ now' <= EndTime
    BY <1>1, ServiceAssumption DEF Tick
  <2>2. upAllDay' \in BOOLEAN
    BY DEF Tick, SchedulerInv, BotTypes
  <2> QED
    BY <1>1, <2>1, <2>2 DEF SchedulerInv, BotTypes
<1>3. CASE pc = "down"
  <2>1. ~upAllDay'
    BY <1>3 DEF Tick, SchedulerInv
  <2> QED
    BY <1>1, <1>2, <1>3, <2>1
       DEF SchedulerInv, SleepsUntilWindow, TradesInWindow, SessionAhead
<1>4. CASE pc = "session"
  <2>1. /\ date = Date(now) /\ IsOpen(date) /\ HadSession(date)
        /\ WindowStart(config, date) <= now /\ now < WindowEnd(config, date)
    BY <1>4 DEF Tick, SchedulerInv, TradesInWindow
  <2>2. /\ date \in Int /\ WindowStart(config, date) \in Int /\ WindowEnd(config, date) \in Int
        /\ date * DayLength \in Int /\ date * DayLength <= now
        /\ WindowEnd(config, date) < date * DayLength + DayLength
    <3>1. date \in Int
      BY <1>1, <2>1, DateBounds
    <3>2. /\ WindowStart(config, date) \in Int /\ WindowEnd(config, date) \in Int
          /\ date * DayLength \in Int
          /\ WindowEnd(config, date) < date * DayLength + DayLength
      BY <1>1, <3>1, WindowInDay
    <3>3. date * DayLength <= now
      BY <1>1, <2>1, DateBounds
    <3> QED
      BY <3>1, <3>2, <3>3
  <2>3. now' \in Nat /\ date * DayLength <= now' /\ now' < date * DayLength + DayLength
    BY <1>1, <2>1, <2>2, ServiceAssumption
  <2>4. Date(now') = date
    BY <2>2, <2>3, DateUnique
  <2>5. WindowStart(config, date) <= now' /\ now' <= WindowEnd(config, date)
    BY <1>1, <2>1, <2>2
  <2>6. HadSession(date)'
    BY <1>1, <2>1 DEF HadSession
  <2>7. TradesInWindow'
    BY <1>1, <2>1, <2>4, <2>5, <2>6 DEF TradesInWindow
  <2>8. SessionAhead'
    BY <1>1, <2>4, <2>6 DEF SessionAhead
  <2> QED
    BY <1>1, <1>2, <1>4, <2>7, <2>8 DEF SchedulerInv, SleepsUntilWindow
<1>5. CASE pc = "sleep"
  <2>1. /\ wake \in Nat /\ now < wake /\ IsOpen(Date(wake))
        /\ WindowStart(config, Date(wake)) <= wake /\ wake <= WindowEnd(config, Date(wake))
        /\ PassesNoWindow(config, now, wake)
    BY <1>5 DEF Tick, SchedulerInv, SleepsUntilWindow
  <2>2. \A d \in Int : IsOpen(d) /\ now' < WindowEnd(config, d) => wake <= WindowStart(config, d)
    <3> SUFFICES ASSUME NEW d \in Int, IsOpen(d), now' < WindowEnd(config, d)
                 PROVE  wake <= WindowStart(config, d)
      OBVIOUS
    <3>1. WindowEnd(config, d) \in Int
      BY <1>1, WindowInDay
    <3>2. now < WindowEnd(config, d)
      BY <1>1, <3>1
    <3>3. wake <= WindowStart(config, d) \/ wake <= now
      BY <2>1, <3>2 DEF PassesNoWindow
    <3> QED
      BY <1>1, <2>1, <3>3
  <2>3. SleepsUntilWindow'
    <3>1. now' <= wake
      BY <1>1, <2>1
    <3>2. PassesNoWindow(config, now, wake)'
      BY <1>1, <2>2 DEF PassesNoWindow
    <3> QED
      BY <1>1, <2>1, <3>1, <3>2 DEF SleepsUntilWindow
  <2>4. SessionAhead'
    <3> SUFFICES ASSUME upAllDay', IsOpen(Date(now')), ~HadSession(Date(now'))
                 PROVE  wake <= WindowStart(config, Date(now'))
      BY <1>1, <1>5 DEF SessionAhead, HadSession
    <3>1. Date(now') \in Int /\ now' \in Nat
      BY <1>1, DateBounds
    <3>2. CASE Date(now') = Date(now)
      BY <1>1, <1>5, <3>2 DEF Tick, SchedulerInv, SessionAhead
    <3>3. CASE Date(now') # Date(now)
      <4>1. now' < WindowEnd(config, Date(now'))
        <5>1. /\ Date(now') * DayLength \in Int /\ Date(now') * DayLength <= now'
              /\ now' < Date(now') * DayLength + DayLength
          BY <1>1, <3>1, DateBounds, WindowInDay
        <5>2. now < Date(now') * DayLength
          <6>1. CASE Date(now') * DayLength <= now
            <7>1. now < Date(now') * DayLength + DayLength
              BY <1>1, <5>1, ServiceAssumption
            <7> QED
              BY <1>1, <3>1, <3>3, <6>1, <7>1, DateUnique
          <6> QED
            BY <1>1, <5>1, <6>1
        <5>3. /\ WindowEnd(config, Date(now')) \in Int /\ WindowStart(config, Date(now')) \in Int
              /\ Date(now') * DayLength <= WindowStart(config, Date(now'))
              /\ WindowStart(config, Date(now')) < WindowEnd(config, Date(now'))
          BY <1>1, <3>1, WindowInDay
        <5> QED
          BY <1>1, <5>1, <5>2, <5>3
      <4> QED
        BY <2>2, <3>1, <4>1
    <3> QED
      BY <3>2, <3>3
  <2> QED
    BY <1>1, <1>2, <1>5, <2>3, <2>4 DEF SchedulerInv, TradesInWindow
<1> QED
  BY <1>1, <1>3, <1>4, <1>5

(* The web UI does not touch the bot.                                      *)
LEMMA SchedulerFrame ==
  ASSUME SchedulerInv, UNCHANGED <<now, bot>>, faults' \in 0..MaxFaults
  PROVE  SchedulerInv'
  BY DEF SchedulerInv, BotTypes, SleepsUntilWindow, TradesInWindow, SessionAhead, HadSession, bot

(* Every step preserves the invariant; those of the UI only touch files.   *)
LEMMA SchedulerStep == SchedulerInv /\ [Next]_vars => SchedulerInv'
<1> SUFFICES ASSUME SchedulerInv, [Next]_vars PROVE SchedulerInv'
  OBVIOUS
<1>1. CASE BotStep
  BY <1>1, SchedulerLoad, SchedulerStart, SchedulerEnd DEF BotStep
<1>2. CASE SessionError \/ BotDies \/ BotRestarts
  BY <1>2, SchedulerEnd, SchedulerFaults
<1>3. CASE Tick
  BY <1>3, SchedulerTick
<1>4. CASE UiDies
  <2>1. UNCHANGED <<now, bot>> /\ faults' \in 0..MaxFaults
    BY <1>4, ServiceAssumption DEF UiDies, bot, SchedulerInv, BotTypes
  <2> QED
    BY <2>1, SchedulerFrame
<1>5. ASSUME NEW w \in Threads, Save(w) PROVE SchedulerInv'
  <2>1. UNCHANGED <<now, bot>> /\ faults' \in 0..MaxFaults
    BY <1>5 DEF Save, BeginSave, OpenTmp, WriteTmp, Replace, bot, SchedulerInv, BotTypes
  <2> QED
    BY <2>1, SchedulerFrame
<1>6. CASE UNCHANGED vars
  <2>1. UNCHANGED <<now, bot>> /\ faults' \in 0..MaxFaults
    BY <1>6 DEF vars, SchedulerInv, BotTypes
  <2> QED
    BY <2>1, SchedulerFrame
<1> QED
  BY <1>1, <1>2, <1>3, <1>4, <1>5, <1>6 DEF Next

(* run_forever: what the bot sleeps for and runs is tied to the window of  *)
(* an open day, in every reachable state.                                  *)
THEOREM SchedulerInvariant == Spec => []SchedulerInv
  BY SchedulerInit, SchedulerStep, PTL DEF Spec

(* app.py:283-284, scheduler.py:33-36: whatever the calendar, the saves,   *)
(* the failed sessions and the restarts, sessions run only inside the      *)
(* windows of open days, and an open day on which the bot was not down     *)
(* does not end without one.                                               *)
THEOREM ServiceFollowsTheCalendar == Spec => []SessionsFollowTheCalendar
<1>1. SchedulerInv => SessionsFollowTheCalendar
  <2> SUFFICES ASSUME SchedulerInv PROVE SessionsFollowTheCalendar
    OBVIOUS
  <2> DEFINE today == Date(now)
  <2>1. /\ now \in Nat /\ config \in Configs /\ today \in Int
        /\ today * DayLength <= now /\ now % DayLength = now - today * DayLength
    BY DateBounds DEF SchedulerInv, BotTypes
  <2>2. /\ WindowStart(config, today) \in Int /\ WindowEnd(config, today) \in Int
        /\ today * DayLength \in Int /\ today * DayLength <= WindowStart(config, today)
        /\ WindowStart(config, today) < WindowEnd(config, today)
        /\ WindowEnd(config, today) < today * DayLength + DayLength
    BY <2>1, WindowInDay
  <2>3. IsOpen(today) => today \notin {d \in DOMAIN Exceptions : Exceptions[d] = "closed"}
    BY DEF IsOpen, SessionStatus
  <2>4. ASSUME pc = "session"
        PROVE  /\ SessionStatus(today) # "closed"
               /\ today \notin {d \in DOMAIN Exceptions : Exceptions[d] = "closed"}
               /\ now \in WindowStart(config, today)..WindowEnd(config, today)
               /\ date = today
    BY <2>1, <2>2, <2>3, <2>4 DEF SchedulerInv, TradesInWindow, IsOpen
  <2>5. ASSUME pc = "sleep", SessionStatus(today) # "closed",
               now \in WindowStart(config, today)..WindowEnd(config, today),
               now < WindowEnd(config, today)
        PROVE  wake = now
    <3>1. wake \in Nat /\ now <= wake /\ PassesNoWindow(config, now, wake)
      BY <2>5 DEF SchedulerInv, SleepsUntilWindow
    <3>2. wake <= WindowStart(config, today) \/ wake <= now
      BY <2>1, <2>5, <3>1 DEF PassesNoWindow, IsOpen
    <3> QED
      BY <2>1, <2>2, <2>5, <3>1, <3>2
  <2>6. ASSUME upAllDay, SessionStatus(today) # "closed", now % DayLength = DayLength - 1
        PROVE  \E s \in sessions : s.date = today
    <3> SUFFICES ASSUME ~HadSession(today) PROVE FALSE
      BY DEF HadSession
    <3>1. \/ pc = "load" /\ now = today * DayLength
          \/ pc = "sleep" /\ wake <= WindowStart(config, today)
      BY <2>6 DEF SchedulerInv, SessionAhead, IsOpen
    <3>2. now >= WindowEnd(config, today)
      BY <2>1, <2>2, <2>6, ServiceAssumption
    <3>3. pc = "sleep" => wake \in Nat /\ now <= wake
      BY DEF SchedulerInv, SleepsUntilWindow
    <3> QED
      BY <2>1, <2>2, <3>1, <3>2, <3>3
  <2> HIDE DEF today
  <2> QED
    BY <2>4, <2>5, <2>6 DEF SessionsFollowTheCalendar, today
<1> QED
  BY <1>1, SchedulerInvariant, PTL

-----------------------------------------------------------------------------
(* The files.                                                              *)

Contents == Configs \cup {Empty, Mixed}

Saver ==
  [at : {"idle", "open", "write", "replace"}, new : Configs \cup {None}, file : Nat \cup {None}]

HasFile(w) == saver[w].at \in {"write", "replace"}

FileTypes ==
  /\ contents \in Seq(Contents)
  /\ path \in 1..Len(contents) /\ tmp \in 1..Len(contents) \cup {None} /\ tmp # path
  /\ saver \in [Threads -> Saver]
  /\ \A w \in Threads : saver[w].at # "idle" => saver[w].new \in Configs
  /\ \A w \in Threads : HasFile(w) => saver[w].file \in 1..Len(contents)
  /\ saves \in 0..MaxSaves /\ overlapped \in BOOLEAN

(* Without overlap one thread at most is saving, its file is the temporary *)
(* one, and that is empty until it is written and whole when it is moved.  *)
SavesApart ==
  ~overlapped =>
    /\ contents[path] \in Configs
    /\ \A w, x \in Threads : saver[w].at # "idle" /\ saver[x].at # "idle" => w = x
    /\ \A w \in Threads : HasFile(w) => saver[w].file = tmp
    /\ \A w \in Threads : saver[w].at = "write" => contents[tmp] = Empty
    /\ \A w \in Threads : saver[w].at = "replace" => contents[tmp] \in Configs

FilesInv == FileTypes /\ SavesApart

(* At first there is one file, whole, and nobody saves.                    *)
LEMMA FilesInit == Init => FilesInv
<1> SUFFICES ASSUME Init PROVE FilesInv
  OBVIOUS
<1>1. PICK c \in Configs : contents = <<c>>
  BY DEF Init
<1>2. contents \in Seq(Contents) /\ Len(contents) = 1 /\ contents[1] = c
  BY <1>1 DEF Contents
<1>3. path = 1 /\ tmp = None /\ tmp # path
  BY ServiceAssumption DEF Init
<1>4. saver \in [Threads -> Saver] /\ \A w \in Threads : saver[w].at = "idle"
  BY DEF Init, Idle, Saver
<1>5. saves \in 0..MaxSaves /\ overlapped = FALSE
  BY ServiceAssumption DEF Init
<1>6. FileTypes
  <2>1. path \in 1..Len(contents) /\ tmp \in 1..Len(contents) \cup {None}
    BY <1>2, <1>3
  <2>2. \A w \in Threads : ~HasFile(w)
    BY <1>4 DEF HasFile
  <2> QED
    BY <1>2, <1>3, <1>4, <1>5, <2>1, <2>2 DEF FileTypes
<1>7. SavesApart
  <2>1. contents[path] \in Configs
    BY <1>1, <1>2, <1>3
  <2> QED
    BY <1>4, <2>1 DEF SavesApart, HasFile
<1> QED
  BY <1>6, <1>7 DEF FilesInv

(* A step that leaves the files and their savers alone.                    *)
LEMMA FilesFrame ==
  ASSUME FilesInv, UNCHANGED files
  PROVE  FilesInv'
  BY DEF FilesInv, FileTypes, SavesApart, HasFile, files

(* A thread begins to save: alone, or the saves overlap from here on.      *)
LEMMA FilesBegin ==
  ASSUME FilesInv, NEW w \in Threads, BeginSave(w)
  PROVE  FilesInv'
<1>1. /\ contents' = contents /\ path' = path /\ tmp' = tmp
      /\ saver[w].at = "idle" /\ saves' \in 0..MaxSaves
  BY ServiceAssumption DEF BeginSave, FilesInv, FileTypes
<1>2. PICK c \in Configs : saver' = [saver EXCEPT ![w] = [at |-> "open", new |-> c, file |-> None]]
  BY DEF BeginSave
<1>3. /\ saver' \in [Threads -> Saver]
      /\ saver'[w] = [at |-> "open", new |-> c, file |-> None]
      /\ \A x \in Threads \ {w} : saver'[x] = saver[x]
  BY <1>2 DEF FilesInv, FileTypes, Saver
<1>4. overlapped' \in BOOLEAN
  BY DEF BeginSave, FilesInv, FileTypes
<1>5. ~overlapped' => ~overlapped /\ \A x \in Threads : saver[x].at = "idle"
  BY DEF BeginSave
<1>6. FileTypes'
  BY <1>1, <1>3, <1>4 DEF FilesInv, FileTypes, HasFile
<1>7. SavesApart'
  BY <1>1, <1>3, <1>5 DEF FilesInv, SavesApart, HasFile
<1> QED
  BY <1>6, <1>7 DEF FilesInv

(* open(tmp, "w"): a new inode, or the one the name has, emptied.          *)
LEMMA FilesOpen ==
  ASSUME FilesInv, NEW w \in Threads, OpenTmp(w)
  PROVE  FilesInv'
<1> DEFINE f == IF Target = None THEN Len(contents') ELSE Target
<1>1. /\ path' = path /\ saves' = saves /\ overlapped' = overlapped
      /\ saver[w].at = "open"
      /\ saver' = [saver EXCEPT ![w].at = "write", ![w].file = f]
  BY DEF OpenTmp
<1>2. Len(contents) \in Nat /\ path \in 1..Len(contents)
  BY DEF FilesInv, FileTypes
<1>3. /\ contents' \in Seq(Contents) /\ Len(contents) <= Len(contents') /\ Len(contents') \in Nat
      /\ f \in 1..Len(contents') /\ f = tmp' /\ f # path /\ contents'[f] = Empty
      /\ \A i \in 1..Len(contents) : i # f => contents'[i] = contents[i]
  <2>1. CASE Target = None
    <3>1. contents' = Append(contents, Empty) /\ tmp' = Len(contents')
      BY <2>1 DEF OpenTmp
    <3>2. contents \in Seq(Contents) /\ Empty \in Contents
      BY DEF FilesInv, FileTypes, Contents
    <3>3. /\ contents' \in Seq(Contents) /\ Len(contents') = Len(contents) + 1
          /\ \A i \in 1..Len(contents) : contents'[i] = contents[i]
          /\ contents'[Len(contents) + 1] = Empty
      BY <3>1, <3>2, AppendProperties
    <3>4. f = Len(contents) + 1
      BY <2>1, <3>3
    <3>5. f \in 1..Len(contents') /\ f # path /\ contents'[f] = Empty
      BY <1>2, <3>3, <3>4
    <3>6. tmp' = f
      BY <3>1, <3>3, <3>4
    <3> HIDE DEF f
    <3> QED
      BY <1>2, <3>3, <3>5, <3>6
  <2>2. CASE Target # None
    <3>1. /\ contents' = [contents EXCEPT ![tmp] = Empty] /\ tmp' = tmp /\ f = tmp
      BY <2>2 DEF OpenTmp, Target
    <3>2. /\ contents \in Seq(Contents) /\ Empty \in Contents
          /\ tmp \in 1..Len(contents) /\ tmp # path
      BY <2>2 DEF FilesInv, FileTypes, Contents, Target
    <3>3. /\ contents' \in Seq(Contents) /\ Len(contents') = Len(contents)
          /\ \A i \in 1..Len(contents) : contents'[i] = IF i = tmp THEN Empty ELSE contents[i]
      BY <3>1, <3>2, ExceptSeq
    <3> HIDE DEF f
    <3>4. f \in 1..Len(contents') /\ f # path /\ contents'[f] = Empty /\ f = tmp'
      <4>1. f \in 1..Len(contents) /\ f # path /\ f = tmp'
        BY <3>1, <3>2
      <4> QED
        BY <3>1, <3>3, <4>1
    <3>5. \A i \in 1..Len(contents) : i # f => contents'[i] = contents[i]
      BY <3>1, <3>3
    <3> QED
      BY <1>2, <3>3, <3>4, <3>5
  <2> QED
    BY <2>1, <2>2
<1> HIDE DEF f
<1>4. /\ saver' \in [Threads -> Saver]
      /\ saver'[w].at = "write" /\ saver'[w].new = saver[w].new /\ saver'[w].file = f
      /\ \A x \in Threads \ {w} : saver'[x] = saver[x]
  <2>1. saver \in [Threads -> Saver] /\ f \in Nat
    BY <1>3 DEF FilesInv, FileTypes
  <2> QED
    BY <1>1, <2>1 DEF Saver
<1>5. FileTypes'
  <2>1. \A x \in Threads : saver'[x].at # "idle" => saver'[x].new \in Configs
    BY <1>1, <1>4 DEF FilesInv, FileTypes
  <2>2. \A x \in Threads : HasFile(x)' => saver'[x].file \in 1..Len(contents')
    BY <1>2, <1>3, <1>4 DEF FilesInv, FileTypes, HasFile
  <2> QED
    BY <1>1, <1>2, <1>3, <1>4, <2>1, <2>2 DEF FilesInv, FileTypes
<1>6. SavesApart'
  <2> SUFFICES ASSUME ~overlapped PROVE SavesApart'
    BY <1>1 DEF SavesApart
  <2>1. contents'[path'] \in Configs
    BY <1>1, <1>2, <1>3 DEF FilesInv, SavesApart
  <2>2. \A x \in Threads \ {w} : saver'[x].at = "idle"
    BY <1>1, <1>4 DEF FilesInv, SavesApart
  <2> QED
    BY <1>3, <1>4, <2>1, <2>2 DEF SavesApart, HasFile
<1> QED
  BY <1>5, <1>6 DEF FilesInv

(* The text is written to the inode that was opened, whole if it was empty.*)
LEMMA FilesWrite ==
  ASSUME FilesInv, NEW w \in Threads, WriteTmp(w)
  PROVE  FilesInv'
<1> DEFINE f == saver[w].file
<1>1. /\ path' = path /\ tmp' = tmp /\ saves' = saves /\ overlapped' = overlapped
      /\ saver[w].at = "write"
      /\ saver' = [saver EXCEPT ![w].at = "replace"]
  BY DEF WriteTmp
<1>2. f \in 1..Len(contents) /\ saver[w].new \in Configs
  BY <1>1 DEF FilesInv, FileTypes, HasFile
<1>3. PICK left \in {saver[w].new, Mixed} :
        /\ contents[f] = Empty => left = saver[w].new
        /\ contents' = [contents EXCEPT ![f] = left]
  BY DEF WriteTmp
<1>4. /\ contents' \in Seq(Contents) /\ Len(contents') = Len(contents)
      /\ \A i \in 1..Len(contents) : contents'[i] = IF i = f THEN left ELSE contents[i]
  <2>1. contents \in Seq(Contents) /\ left \in Contents
    BY <1>2, <1>3 DEF FilesInv, FileTypes, Contents
  <2> QED
    BY <1>2, <1>3, <2>1, ExceptSeq
<1>5. /\ saver' \in [Threads -> Saver]
      /\ saver'[w].at = "replace" /\ saver'[w].new = saver[w].new /\ saver'[w].file = f
      /\ \A x \in Threads \ {w} : saver'[x] = saver[x]
  BY <1>1 DEF FilesInv, FileTypes, Saver
<1> HIDE DEF f
<1>6. FileTypes'
  BY <1>1, <1>2, <1>4, <1>5 DEF FilesInv, FileTypes, HasFile
<1>7. SavesApart'
  <2> SUFFICES ASSUME ~overlapped PROVE SavesApart'
    BY <1>1 DEF SavesApart
  <2>1. f = tmp /\ contents[tmp] = Empty /\ tmp # path /\ path \in 1..Len(contents)
    BY <1>1 DEF FilesInv, FileTypes, SavesApart, HasFile, f
  <2>2. contents'[path'] \in Configs /\ contents'[tmp'] \in Configs
    BY <1>1, <1>2, <1>3, <1>4, <2>1 DEF FilesInv, SavesApart
  <2>3. \A x \in Threads \ {w} : saver'[x].at = "idle"
    BY <1>1, <1>5 DEF FilesInv, SavesApart
  <2> QED
    BY <1>1, <1>5, <2>1, <2>2, <2>3 DEF SavesApart, HasFile
<1> QED
  BY <1>6, <1>7 DEF FilesInv

(* os.replace moves what the temporary name stands for.                    *)
LEMMA FilesReplace ==
  ASSUME FilesInv, NEW w \in Threads, Replace(w)
  PROVE  FilesInv'
<1>1. /\ contents' = contents /\ saves' = saves /\ overlapped' = overlapped
      /\ saver[w].at = "replace" /\ tmp' = None
      /\ path' = IF tmp = None THEN path ELSE tmp
      /\ saver' = [saver EXCEPT ![w] = Idle]
  BY DEF Replace, TmpAfter
<1>2. /\ saver' \in [Threads -> Saver] /\ saver'[w].at = "idle"
      /\ \A x \in Threads \ {w} : saver'[x] = saver[x]
  BY <1>1 DEF FilesInv, FileTypes, Saver, Idle
<1>3. path' \in 1..Len(contents) /\ tmp' # path'
  BY <1>1, ServiceAssumption DEF FilesInv, FileTypes
<1>4. FileTypes'
  BY <1>1, <1>2, <1>3 DEF FilesInv, FileTypes, HasFile
<1>5. SavesApart'
  <2> SUFFICES ASSUME ~overlapped PROVE SavesApart'
    BY <1>1 DEF SavesApart
  <2>1. contents[path'] \in Configs
    BY <1>1 DEF FilesInv, SavesApart
  <2>2. \A x \in Threads : saver'[x].at = "idle"
    BY <1>1, <1>2 DEF FilesInv, SavesApart
  <2> QED
    BY <1>1, <2>1, <2>2 DEF SavesApart, HasFile
<1> QED
  BY <1>4, <1>5 DEF FilesInv

(* A UI that dies leaves its temporary file behind, and no saver.          *)
LEMMA FilesUiDies == FilesInv /\ UiDies => FilesInv'
<1> SUFFICES ASSUME FilesInv, UiDies PROVE FilesInv'
  OBVIOUS
<1>1. /\ contents' = contents /\ path' = path /\ tmp' = tmp /\ saves' = saves
      /\ overlapped' = overlapped
      /\ saver' \in [Threads -> Saver] /\ \A w \in Threads : saver'[w].at = "idle"
  BY DEF UiDies, Idle, Saver
<1> QED
  BY <1>1 DEF FilesInv, FileTypes, SavesApart, HasFile

(* Every step preserves it; those of the bot do not write files.           *)
LEMMA FilesStep == FilesInv /\ [Next]_vars => FilesInv'
<1> SUFFICES ASSUME FilesInv, [Next]_vars PROVE FilesInv'
  OBVIOUS
<1>1. CASE BotStep \/ SessionError \/ BotDies \/ BotRestarts \/ Tick \/ UNCHANGED vars
  <2>1. UNCHANGED files
    BY <1>1 DEF BotStep, LoadConfig, StartSession, EndSession, SessionError, BotDies,
                BotRestarts, Tick, vars
  <2> QED
    BY <2>1, FilesFrame
<1>2. CASE UiDies
  BY <1>2, FilesUiDies
<1>3. ASSUME NEW w \in Threads, Save(w) PROVE FilesInv'
  BY <1>3, FilesBegin, FilesOpen, FilesWrite, FilesReplace DEF Save
<1> QED
  BY <1>1, <1>2, <1>3 DEF Next

(* Type correctness of the bot, the files and the threads.                 *)
THEOREM ServiceTypeOK == Spec => []TypeOK
<1>1. SchedulerInv /\ FilesInv => TypeOK
  <2> SUFFICES ASSUME SchedulerInv, FilesInv PROVE TypeOK
    OBVIOUS
  <2>1. DOMAIN contents = 1..Len(contents) /\ \A i \in 1..Len(contents) : contents[i] \in Contents
    <3>1. contents \in Seq(Contents)
      BY DEF FilesInv, FileTypes
    <3> QED
      BY <3>1, LenProperties
  <2>2. \A w \in Threads : saver[w].at \in {"idle", "open", "write", "replace"}
    BY DEF FilesInv, FileTypes, Saver
  <2> QED
    BY <2>1, <2>2 DEF TypeOK, SchedulerInv, BotTypes, FilesInv, FileTypes, Contents
<1> QED
  BY <1>1, SchedulerInvariant, FilesInit, FilesStep, PTL DEF Spec

(* webui.py:47-57: as long as saves do not overlap, whatever thread dies   *)
(* at whatever point, config.yaml holds a whole configuration.             *)
THEOREM ServiceFileIsWhole == Spec => []FileIsWhole
<1>1. FilesInv => FileIsWhole
  BY DEF FilesInv, SavesApart, FileIsWhole
<1> QED
  BY <1>1, FilesInit, FilesStep, PTL DEF Spec
=============================================================================
