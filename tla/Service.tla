------------------------------- MODULE Service ------------------------------
(***************************************************************************)
(* The two processes that share config.yaml.  The bot's run_forever loads  *)
(* it, sleeps until the next session and runs that session, for ever; the  *)
(* settings web UI saves it.  A save runs in a thread of its own: FastAPI  *)
(* runs endpoints declared with a plain `def' in a thread pool.            *)
(*                                                                         *)
(* A configuration is a model value with the two times the scheduler reads *)
(* from it.  Time is in minutes; a day has DayLength of them.  Files are   *)
(* inodes: a save keeps writing to the file it opened, wherever that has   *)
(* been renamed to.                                                        *)
(***************************************************************************)
EXTENDS Integers, Sequences, FiniteSets

CONSTANTS
  None,
  Configs,       \* the configurations that validate
  OpensAt,       \* session.opening_range_start of a configuration
  HardCloseAt,   \* session.hard_close of a configuration
  Exceptions,    \* MARKET_CALENDAR_EXCEPTIONS, by day number
  DayLength, WarmupBuffer, WindDownBuffer,
  ScanDays,      \* days next_session_start looks at, 14 in the code
  FirstDay,      \* the day on which the bot is first started; day 0 is a Monday
  Threads,       \* threads of the web UI that may save
  EndTime,       \* bound: the last minute
  MaxSaves,      \* bound: saves that are begun
  MaxFaults      \* bound: sessions that raise and processes that die

(* SessionConfig orders the times of a day; the buffers of the scheduler   *)
(* stay inside it.                                                         *)
ASSUME ServiceAssumption ==
  /\ None \notin Int
  /\ DayLength \in Nat \ {0} /\ WarmupBuffer \in Nat /\ WindDownBuffer \in Nat
  /\ ScanDays \in Nat \ {0} /\ FirstDay \in Nat
  /\ EndTime \in Nat /\ FirstDay * DayLength <= EndTime
  /\ MaxSaves \in Nat /\ MaxFaults \in Nat
  /\ OpensAt \in [Configs -> Int] /\ HardCloseAt \in [Configs -> Int]
  /\ \A c \in Configs :
       /\ OpensAt[c] < HardCloseAt[c]
       /\ OpensAt[c] - WarmupBuffer >= 0
       /\ HardCloseAt[c] + WindDownBuffer < DayLength
  /\ \A d \in DOMAIN Exceptions : Exceptions[d] \in {"closed", "early_close"}

VARIABLES
  now,
  pc,          \* the bot: "load", "sleep", "session" or "down"
  config,      \* ctx.config
  wake,        \* the start run_forever sleeps until
  date,        \* trading_date of the session
  contents,    \* what every inode holds
  path, tmp,   \* the inodes config.yaml and config.yaml.tmp name; tmp may be None
  saver,       \* per thread: [at, new, file]
  saves, faults,
  sessions,    \* history: [date, config] of every session started,
  upAllDay,    \*   whether the bot has not been down today,
  overlapped   \*   whether a save began before another had ended

bot   == <<pc, config, wake, date, sessions, upAllDay>>
files == <<contents, path, tmp, saver, saves, overlapped>>
vars  == <<now, bot, files, faults>>

Empty == "empty"   \* a file just truncated
Mixed == "mixed"   \* one save written over another

-----------------------------------------------------------------------------
(* scheduler.py and timeutils.py.                                          *)

Date(t) == t \div DayLength

IsWeekday(d) == d % 7 < 5

SessionStatus(d) ==
  IF ~IsWeekday(d) THEN "closed"
  ELSE IF d \in DOMAIN Exceptions THEN Exceptions[d] ELSE "normal"

WindowStart(c, d) == d * DayLength + OpensAt[c] - WarmupBuffer
WindowEnd(c, d)   == d * DayLength + HardCloseAt[c] + WindDownBuffer

(* Mutant: a window that is already open is left for the next day.         *)
NextSessionStart_NoResume(c, t) ==
  LET days == {d \in Date(t)..(Date(t) + ScanDays - 1) :
                 SessionStatus(d) # "closed" /\ t <= WindowStart(c, d)}
  IN  IF days = {} THEN None
      ELSE WindowStart(c, CHOOSE d \in days : \A x \in days : d <= x)

(* The start of the first window that is not over, or now inside it; None  *)
(* when the code raises.                                                   *)
NextSessionStart(c, t) ==
  LET days == {d \in Date(t)..(Date(t) + ScanDays - 1) :
                 /\ SessionStatus(d) # "closed"
                 /\ t <= WindowStart(c, d) \/ t < WindowEnd(c, d)}
      first == CHOOSE d \in days : \A x \in days : d <= x
  IN  IF days = {} THEN None
      ELSE IF t <= WindowStart(c, first) THEN WindowStart(c, first) ELSE t

-----------------------------------------------------------------------------

Idle == [at |-> "idle", new |-> None, file |-> None]

Init ==
  /\ now = FirstDay * DayLength
  /\ \E c \in Configs : config = c /\ contents = <<c>>
  /\ pc = "load" /\ wake = None /\ date = None
  /\ path = 1 /\ tmp = None /\ saver = [w \in Threads |-> Idle]
  /\ saves = 0 /\ faults = 0
  /\ sessions = {} /\ upAllDay = TRUE /\ overlapped = FALSE

(* What load_config may make of a file: None when it raises.  A mixture    *)
(* may or may not parse and validate.                                      *)
Loaded(content) ==
  IF content \in Configs THEN {content}
  ELSE IF content = Mixed THEN Configs \cup {None}
  ELSE {None}

(* A configuration that does not load leaves the previous one in force.    *)
LoadConfig ==
  /\ pc = "load"
  /\ \E c \in Loaded(contents[path]) : config' = IF c = None THEN config ELSE c
  /\ wake' = NextSessionStart(config', now)
  /\ IF wake' = None
     THEN pc' = "down" /\ upAllDay' = FALSE
     ELSE pc' = "sleep" /\ UNCHANGED upAllDay
  /\ UNCHANGED <<now, date, files, faults, sessions>>

StartSession ==
  /\ pc = "sleep" /\ now >= wake
  /\ pc' = "session" /\ date' = Date(now)
  /\ sessions' = sessions \cup {[date |-> date', config |-> config]}
  /\ UNCHANGED <<now, config, wake, files, faults, upAllDay>>

EndSession ==
  /\ pc = "session" /\ now >= WindowEnd(config, date)
  /\ pc' = "load"
  /\ UNCHANGED <<now, config, wake, date, files, faults, sessions, upAllDay>>

(* run_forever logs the exception and goes round.                          *)
SessionError ==
  /\ pc = "session" /\ now < WindowEnd(config, date) /\ faults < MaxFaults
  /\ faults' = faults + 1 /\ pc' = "load"
  /\ UNCHANGED <<now, config, wake, date, files, sessions, upAllDay>>

BotDies ==
  /\ pc # "down" /\ faults < MaxFaults
  /\ faults' = faults + 1 /\ pc' = "down" /\ upAllDay' = FALSE
  /\ UNCHANGED <<now, config, wake, date, files, sessions>>

(* systemd starts the process; it exits again at once while the file does  *)
(* not load.                                                               *)
BotRestarts ==
  /\ pc = "down"
  /\ \E c \in Loaded(contents[path]) \ {None} : config' = c
  /\ pc' = "load"
  /\ UNCHANGED <<now, wake, date, files, faults, sessions, upAllDay>>

(* A minute passes.  The bot is not late: it loads, wakes and ends a       *)
(* session within the minute.                                              *)
Tick ==
  /\ now < EndTime
  /\ pc \in {"sleep", "session", "down"}
  /\ pc = "sleep" => now < wake
  /\ pc = "session" => now < WindowEnd(config, date)
  /\ now' = now + 1
  /\ upAllDay' = IF Date(now') # Date(now) THEN pc # "down" ELSE upAllDay
  /\ UNCHANGED <<pc, config, wake, date, files, faults, sessions>>

-----------------------------------------------------------------------------
(* post_config and _dump_yaml_atomic, after the payload has validated and  *)
(* the previous file has been copied to the backups.                       *)

BeginSave(w) ==
  /\ saver[w].at = "idle" /\ saves < MaxSaves
  /\ \E c \in Configs : saver' = [saver EXCEPT ![w] = [at |-> "open", new |-> c, file |-> None]]
  /\ saves' = saves + 1
  /\ overlapped' = (overlapped \/ \E x \in Threads : saver[x].at # "idle")
  /\ UNCHANGED <<now, bot, contents, path, tmp, faults>>

(* Mutant: the file itself is opened and written.                          *)
Target_InPlace == path

(* The inode that open("w") finds; None: a new one is made.                *)
Target == tmp

OpenTmp(w) ==
  /\ saver[w].at = "open"
  /\ contents' = IF Target = None THEN Append(contents, Empty)
                 ELSE [contents EXCEPT ![Target] = Empty]
  /\ tmp' = IF Target = None THEN Len(contents') ELSE tmp
  /\ saver' = [saver EXCEPT ![w].at = "write",
                            ![w].file = IF Target = None THEN Len(contents') ELSE Target]
  /\ UNCHANGED <<now, bot, path, saves, faults, overlapped>>

(* Both savers write from the start of the file: the longer text shows     *)
(* behind the later one.                                                   *)
WriteTmp(w) ==
  /\ saver[w].at = "write"
  /\ LET f == saver[w].file
     IN  \E left \in IF contents[f] = Empty THEN {saver[w].new} ELSE {saver[w].new, Mixed} :
           contents' = [contents EXCEPT ![f] = left]
  /\ saver' = [saver EXCEPT ![w].at = "replace"]
  /\ UNCHANGED <<now, bot, path, tmp, saves, faults, overlapped>>

(* Mutant: the name of the temporary file is left in place.                *)
TmpAfter_Linked == tmp

(* What the temporary name stands for once os.replace has moved the file.  *)
TmpAfter == None

(* os.replace; without a temporary file it raises and the request fails.   *)
Replace(w) ==
  /\ saver[w].at = "replace"
  /\ path' = IF tmp = None THEN path ELSE tmp
  /\ tmp' = TmpAfter
  /\ saver' = [saver EXCEPT ![w] = Idle]
  /\ UNCHANGED <<now, bot, contents, saves, faults, overlapped>>

UiDies ==
  /\ faults < MaxFaults /\ \E w \in Threads : saver[w].at # "idle"
  /\ faults' = faults + 1
  /\ saver' = [w \in Threads |-> Idle]
  /\ UNCHANGED <<now, bot, contents, path, tmp, saves, overlapped>>

Save(w) == BeginSave(w) \/ OpenTmp(w) \/ WriteTmp(w) \/ Replace(w)

BotStep == LoadConfig \/ StartSession \/ EndSession

Next ==
  \/ BotStep \/ SessionError \/ BotDies \/ BotRestarts \/ Tick
  \/ UiDies \/ \E w \in Threads : Save(w)

(* Time passes, the event loop runs what is due, and the unit file has     *)
(* Restart=on-failure.                                                     *)
Spec == Init /\ [][Next]_vars /\ WF_vars(Tick) /\ WF_vars(BotStep) /\ WF_vars(BotRestarts)

-----------------------------------------------------------------------------

(* The type invariant.                                                     *)
TypeOK ==
  /\ now <= EndTime /\ pc \in {"load", "sleep", "session", "down"}
  /\ config \in Configs /\ wake \in Int \cup {None} /\ date \in Int \cup {None}
  /\ path \in DOMAIN contents /\ tmp \in DOMAIN contents \cup {None} /\ tmp # path
  /\ \A i \in DOMAIN contents : contents[i] \in Configs \cup {Empty, Mixed}
  /\ \A w \in Threads : saver[w].at \in {"idle", "open", "write", "replace"}
  /\ saves \in 0..MaxSaves /\ faults \in 0..MaxFaults

(* app.py:283-284 and scheduler.py:33-36, 46-49: a session runs inside the *)
(* window of a day on which the market is open; a bot that is up inside    *)
(* such a window is not left sleeping, after a failed session or a restart;*)
(* and no such day that the bot has been up for passes without a session,  *)
(* whatever is saved meanwhile.                                            *)
SessionsFollowTheCalendar ==
  LET open    == SessionStatus(Date(now)) # "closed"
      holiday == Date(now) \in {d \in DOMAIN Exceptions : Exceptions[d] = "closed"}
      inside  == now \in WindowStart(config, Date(now))..WindowEnd(config, Date(now))
  IN  /\ pc = "session" => open /\ ~holiday /\ inside /\ date = Date(now)
      /\ pc = "sleep" /\ open /\ inside /\ now < WindowEnd(config, Date(now)) => wake = now
      /\ upAllDay /\ open /\ now % DayLength = DayLength - 1
           => \E s \in sessions : s.date = Date(now)

(* webui.py:6-7, "nothing invalid can ever be saved", and _dump_yaml_atomic*)
(* by its name: as long as saves do not overlap, config.yaml holds a whole *)
(* configuration at every moment, also when the UI dies in the middle.     *)
FileIsWhole == ~overlapped => contents[path] \in Configs

(* deploy/orb-bot.service, Restart=on-failure: a bot that has died comes   *)
(* back, since the file it starts from is always whole.                    *)
BotComesBack == [](~overlapped) => (pc = "down" ~> pc # "down")

(* README.md:89-92: "Changes apply starting the next trading session,      *)
(* never mid-trade", so that nothing about an open position's parameters   *)
(* "can change underneath it": one configuration for a trading date.       *)
OneConfigPerDate ==
  \A s1, s2 \in sessions : s1.date = s2.date => s1.config = s2.config
=============================================================================
