-------------------------------- MODULE Alt_Alarm --------------------------------
(***************************************************************************)
(* The system clock of the HAL: the tick counter, the alarms registered on *)
(* it and the time of day kept by it.  The driver of the JTAG UART uses an *)
(* alarm to give its host up; the board as built has no system clock, so   *)
(* that there alt_alarm_start always fails.                                *)
(*                                                                         *)
(* alt_tick runs as an interrupt: the program waits until it ends, while   *)
(* its callbacks may start and stop alarms.  alt_alarm_start and           *)
(* alt_alarm_stop disable interrupts, so each is one step.  Words are      *)
(* numbers below Words, 2^32 in the code.                                  *)
(***************************************************************************)
EXTENDS Integers

CONSTANTS
  Alarms,     \* the alarm structures
  Head,       \* alt_alarm_list
  Null,       \* a pointer that was never set
  Words,      \* how many values an alt_u32 has
  TickRate,   \* what alt_sysclk_init is given
  US,         \* ALT_US, 1000000
  Periods,    \* the intervals asked for: to start, and by callbacks
  Times       \* the times of day that are set, in microseconds

ASSUME AlarmAssumption ==
  /\ Head \notin Alarms /\ Null \notin Alarms \cup {Head}
  /\ Words \in Nat \ {0, 1} /\ US \in Nat \ {0} /\ TickRate \in 1..US
  \* The seconds and the microseconds agree only then:
  /\ US % TickRate = 0
  \* Words - 1 ticks and the one under way would be no ticks:
  /\ Periods \subseteq 1..(Words - 2) /\ Times \subseteq Nat

VARIABLES
  tick_rate, nticks,     \* _alt_tick_rate and _alt_nticks
  next, previous,        \* the links of the list
  time, rollover,        \* of an alarm
  alarm, saved,          \* alt_tick's alarm and next
  pc,
  resettime,             \* alt_resettime
  derailed,              \* history: a callback has stopped the saved alarm,
                         \* which now points to itself
  due,                   \* history: ticks until an alarm's time has come
  wall                   \* history: the time of day since the first tick or
                         \* the last call to set it, in microseconds

links == <<next, previous>>
walk == <<pc, alarm, saved>>
alarmVars == <<tick_rate, nticks, links, time, rollover, walk, resettime, derailed, due, wall>>

Entry == Alarms \cup {Head}
Unknown == -1
-----------------------------------------------------------------------------
(* The list.                                                               *)

\* Behind the head; alarm a must not be in the list.
Insert(a) ==
  /\ next' = [next EXCEPT ![a] = next[Head], ![Head] = a]
  /\ previous' = [[previous EXCEPT ![a] = Head] EXCEPT ![next[Head]] = a]

\* A mutant of Remove: the entry keeps its links.
RemoveLoose(a) ==
  /\ next' = [next EXCEPT ![previous[a]] = next[a]]
  /\ previous' = [previous EXCEPT ![next[a]] = previous[a]]

\* The entry is left pointing to itself: to remove it again does nothing.
Remove(a) ==
  /\ next' = [[next EXCEPT ![previous[a]] = next[a]] EXCEPT ![a] = a]
  /\ previous' = [[previous EXCEPT ![next[a]] = previous[a]] EXCEPT ![a] = a]

Linked(a) == next[a] \notin {Null, a}
-----------------------------------------------------------------------------
(* Start and stop, by the program or by a callback.                        *)

\* The time lies behind the counter, which has to roll over first.
Wraps(t) == t < nticks

\* A callback may do both, only does not start itself anew.
Busy == pc = "call"
Awake == pc # "walk"

\* Without a clock the call fails; an alarm is not started twice.
Start(a, n) ==
  /\ Awake /\ ~(Busy /\ a = alarm) /\ tick_rate > 0 /\ ~Linked(a)
  /\ time' = [time EXCEPT ![a] = (n + nticks + 1) % Words]
  /\ rollover' = [rollover EXCEPT ![a] = Wraps(time'[a])]
  /\ Insert(a)
  /\ due' = [due EXCEPT ![a] = n + 1]
  /\ derailed' = (derailed /\ a # saved)
  /\ UNCHANGED <<tick_rate, nticks, walk, resettime, wall>>

\* Only of an alarm that was started before.
Stop(a) ==
  /\ Awake /\ next[a] # Null
  /\ Remove(a)
  /\ derailed' = (derailed \/ (Busy /\ a = saved))
  /\ UNCHANGED <<tick_rate, nticks, time, rollover, walk, resettime, due, wall>>
-----------------------------------------------------------------------------
(* alt_tick.                                                               *)

SysclkInit ==
  /\ pc = "program" /\ tick_rate = 0
  /\ tick_rate' = TickRate
  /\ UNCHANGED <<nticks, links, time, rollover, walk, resettime, due, wall, derailed>>

\* Microseconds of a tick.
Tick_US == US \div TickRate

Tick ==
  /\ pc = "program" /\ tick_rate > 0
  /\ nticks' = (nticks + 1) % Words
  /\ pc' = "walk" /\ alarm' = next[Head]
  /\ due' = [a \in Alarms |-> IF Linked(a) /\ due[a] > 0 THEN due[a] - 1 ELSE due[a]]
  /\ wall' = IF wall = Unknown \/ nticks' = 0 THEN Unknown ELSE wall + Tick_US
  /\ UNCHANGED <<tick_rate, links, time, rollover, saved, resettime, derailed>>

\* A mutant of Ahead: the flag is not cleared.
AheadAlways(a) == rollover[a]

\* The counter has yet to roll over; it does so by becoming 0.
Ahead(a) == rollover[a] /\ nticks # 0

\* A mutant of Expired: the roll-over is not waited for.
ExpiredEarly(a) == time[a] <= nticks

Expired(a) == time[a] <= nticks /\ ~Ahead(a)

\* One alarm of the list: call it if its time has come.
Walk ==
  /\ pc = "walk" /\ alarm # Head
  /\ rollover' = [rollover EXCEPT ![alarm] = Ahead(alarm)]
  /\ IF Expired(alarm)
     THEN pc' = "call" /\ saved' = next[alarm] /\ UNCHANGED alarm
     ELSE alarm' = next[alarm] /\ UNCHANGED <<pc, saved>>
  /\ UNCHANGED <<tick_rate, nticks, links, time, resettime, due, wall, derailed>>

Resume == saved

\* The callback returns p: the alarm is unregistered, or goes on.
CallbackReturns(p) ==
  /\ pc = "call"
  /\ IF p = 0
     THEN Remove(alarm) /\ UNCHANGED <<time, rollover, due>>
     ELSE /\ time' = [time EXCEPT ![alarm] = (@ + p) % Words]
          /\ rollover' = [rollover EXCEPT ![alarm] = @ \/ Wraps(time'[alarm])]
          /\ due' = [due EXCEPT ![alarm] = p]
          /\ UNCHANGED links
  /\ pc' = "walk" /\ alarm' = Resume /\ saved' = Head
  /\ UNCHANGED <<tick_rate, nticks, resettime, wall, derailed>>

TickEnds ==
  /\ pc = "walk" /\ alarm = Head
  /\ pc' = "program"
  /\ UNCHANGED <<tick_rate, nticks, links, time, rollover, alarm, saved, resettime, due, wall, derailed>>
-----------------------------------------------------------------------------
(* The time of day: a pair of seconds and microseconds.                    *)

\* The product is one of 32 bits.
SetTimeOfDay(t) ==
  /\ pc = "program" /\ tick_rate > 0
  /\ resettime' = <<(t \div US) - (nticks \div tick_rate),
                    (t % US) - (((nticks * Tick_US) % Words) % US)>>
  /\ wall' = IF nticks * Tick_US < Words THEN t ELSE Unknown
  /\ UNCHANGED <<tick_rate, nticks, links, time, rollover, walk, due, derailed>>

\* A mutant of Carried: microseconds below 0 are not borrowed for.
CarriedUp(s, u) == IF u >= US THEN <<s + 1, u - US>> ELSE <<s, u>>

Carried(s, u) ==
  CASE u < 0 /\ s <= 0 -> <<0, 0>>
    [] u < 0 /\ s > 0 -> <<s - 1, u + US>>
    [] u >= US -> <<s + 1, u - US>>
    [] OTHER -> <<s, u>>

\* What gettimeofday answers; its product is one of 64 bits.
TimeOfDay == Carried(resettime[1] + nticks \div TickRate,
                     resettime[2] + ((nticks * Tick_US) % US))
-----------------------------------------------------------------------------
AlarmInit ==
  /\ tick_rate = 0 /\ nticks = 0
  /\ next = [e \in Entry |-> IF e = Head THEN Head ELSE Null] /\ previous = next
  /\ time = [a \in Alarms |-> 0] /\ rollover = [a \in Alarms |-> FALSE]
  /\ pc = "program" /\ alarm = Head /\ saved = Head
  /\ resettime = <<0, 0>>
  /\ derailed = FALSE /\ due = [a \in Alarms |-> 0] /\ wall = 0

InTick == Walk \/ TickEnds \/ \E p \in Periods \cup {0} : CallbackReturns(p)

AlarmNext ==
  \/ SysclkInit \/ Tick \/ InTick
  \/ \E a \in Alarms : Stop(a) \/ \E n \in Periods \cup {0} : Start(a, n)
  \/ \E t \in Times : SetTimeOfDay(t)

AlarmSafe == AlarmInit /\ [][AlarmNext]_alarmVars

\* A clock that was started ticks, and what runs in its interrupt goes on: the
\* walk, and a callback, which comes back after it started or stopped alarms.
AlarmSpec ==
  /\ AlarmSafe
  /\ WF_alarmVars(Tick) /\ WF_alarmVars(Walk \/ TickEnds)
  /\ WF_alarmVars(\E p \in Periods \cup {0} : CallbackReturns(p))
-----------------------------------------------------------------------------
(* Properties                                                              *)

\* Every variable has its type.
AlarmTypeOK ==
  /\ tick_rate \in {0, TickRate} /\ nticks \in 0..(Words - 1)
  /\ next \in [Entry -> Entry \cup {Null}] /\ previous \in [Entry -> Entry \cup {Null}]
  /\ time \in [Alarms -> 0..(Words - 1)] /\ rollover \in [Alarms -> BOOLEAN]
  /\ pc \in {"program", "walk", "call"} /\ alarm \in Entry /\ saved \in Entry
  /\ resettime \in Int \X Int /\ due \in [Alarms -> Nat] /\ wall \in Int /\ derailed \in BOOLEAN

\* Of the head and of the alarms that were ever started.
Registered == {e \in Entry : next[e] # Null}

\* Following the links from the head one comes to a: there is no way to stay
\* among entries without it.
Reached(a) ==
  \A S \in SUBSET Entry : Head \in S /\ (\A e \in S : next[e] \in S) => a \in S

\* Besides having their types, the links form one ring through the head whatever
\* program and callbacks start and stop, also in the middle of a walk: it can be
\* followed either way, and holds all the alarms that do not point to themselves.
ListIsRing ==
  /\ AlarmTypeOK
  /\ \A e \in Registered :
       /\ {next[e], previous[e]} \subseteq Registered
       /\ previous[next[e]] = e /\ next[previous[e]] = e
  /\ Head \in Registered /\ \A a \in Alarms : Linked(a) => Reached(a)

\* An alarm is called in the tick its time comes, not before and not after,
\* although times are compared as words and both the time and the counter wrap
\* around, at any place of the list and whichever alarms were started meanwhile.
OnTime ==
  ~derailed =>
    /\ pc = "call" => due[alarm] = 0
    /\ pc = "program" => \A a \in Alarms : Linked(a) => due[a] > 0

\* gettimeofday answers the time that was set and has passed since, as long as
\* the tick counter did not wrap, or the product of settimeofday overflow.
TimeOfDayIsShown == wall # Unknown => TimeOfDay = <<wall \div US, wall % US>>

\* A registered alarm is called, or stopped before: the interrupt ends and the
\* clock goes on, whatever the callbacks do, except to stop the very alarm that
\* alt_tick has saved as the next one (alt_tick.c:103, 142).
AlarmIsCalled ==
  \A a \in Alarms : Linked(a) ~> (pc = "call" /\ alarm = a) \/ ~Linked(a) \/ derailed
===============================================================================
