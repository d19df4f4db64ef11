------------------------- MODULE Alt_Alarm_proofs -------------------------
(***************************************************************************)
(* Proofs about the system clock of the HAL, for any number of alarms,     *)
(* width of the counter and tick rate, whatever the program and the        *)
(* callbacks start and stop: the ring the alarms are linked in, the tick   *)
(* an alarm is called in, and the time of day.                             *)
(***************************************************************************)
EXTENDS Alt_Alarm, TLAPS

\* An entry follows its predecessor and precedes its successor.
Ring ==
  \A e \in Registered :
    /\ {next[e], previous[e]} \subseteq Registered
    /\ previous[next[e]] = e /\ next[previous[e]] = e

LEMMA TheRing == ListIsRing <=> /\ AlarmTypeOK /\ Ring /\ Head \in Registered
                                /\ \A a \in Alarms : Linked(a) => Reached(a)
BY DEF ListIsRing, Ring

LEMMA Entries ==
  ASSUME AlarmTypeOK
  PROVE  /\ Head \in Entry /\ Null \notin Entry /\ Head \notin Alarms
         /\ \A e \in Entry : next[e] \in Entry \cup {Null} /\ previous[e] \in Entry \cup {Null}
         /\ \A e \in Registered : e \in Entry /\ next[e] # Null
         /\ \A e \in Entry : e \in Alarms \/ e = Head
BY AlarmAssumption DEF AlarmTypeOK, Entry, Registered

-----------------------------------------------------------------------------
(* Starting an alarm.                                                      *)

LEMMA InsertedLinks ==
  ASSUME AlarmTypeOK, Ring, Head \in Registered, NEW a \in Alarms, Insert(a)
  PROVE  /\ \A e \in Entry : next'[e] = IF e = Head THEN a ELSE IF e = a THEN next[Head]
                                        ELSE next[e]
         /\ \A e \in Entry : previous'[e] = IF e = next[Head] THEN a
                                            ELSE IF e = a THEN Head ELSE previous[e]
         /\ a \in Entry /\ a # Head /\ next[Head] \in Registered
<1>1. a \in Entry /\ a # Head /\ next[Head] \in Registered /\ next[Head] \in Entry
  BY Entries DEF Ring, Entry
<1>2. DOMAIN next = Entry /\ DOMAIN previous = Entry
  BY DEF AlarmTypeOK
<1>3. next' = [next EXCEPT ![a] = next[Head], ![Head] = a]
        /\ previous' = [[previous EXCEPT ![a] = Head] EXCEPT ![next[Head]] = a]
  BY DEF Insert
<1>4. \A e \in Entry : next'[e] = IF e = Head THEN a ELSE IF e = a THEN next[Head]
                                  ELSE next[e]
  BY <1>1, <1>2, <1>3, Entries
<1>5. \A e \in Entry : previous'[e] = IF e = next[Head] THEN a
                                      ELSE IF e = a THEN Head ELSE previous[e]
  BY <1>1, <1>2, <1>3, Entries
<1> QED
  BY <1>1, <1>4, <1>5

\* Nothing but itself leads to an alarm that is not in the list.
LEMMA NotLedTo ==
  ASSUME AlarmTypeOK, Ring, NEW a \in Alarms, ~Linked(a), NEW e \in Registered, e # a
  PROVE  next[e] # a
BY Entries DEF Ring, Registered, Linked

LEMMA InsertKeepsRing ==
  ASSUME AlarmTypeOK, Ring, Head \in Registered, NEW a \in Alarms, ~Linked(a), Insert(a)
  PROVE  /\ Ring' /\ Registered' = Registered \cup {a}
         /\ \A b \in Alarms : Linked(b)' <=> (Linked(b) \/ b = a)
<1> DEFINE n == next[Head]
<1>1. /\ \A e \in Entry : next'[e] = IF e = Head THEN a ELSE IF e = a THEN n ELSE next[e]
      /\ \A e \in Entry : previous'[e] = IF e = n THEN a ELSE IF e = a THEN Head
                                         ELSE previous[e]
      /\ a \in Entry /\ a # Head /\ n \in Registered
  BY InsertedLinks
<1>2. n # a
  BY <1>1, NotLedTo
<1>3. n # Null /\ a # Null /\ Registered \subseteq Entry /\ n \in Entry /\ Head \in Entry
  BY <1>1, Entries
<1> HIDE DEF n
<1>4. Registered' = Registered \cup {a}
  BY <1>1, <1>3 DEF Registered
<1>5. Ring'
  <2> SUFFICES ASSUME NEW e \in Registered'
               PROVE  /\ next'[e] \in Registered' /\ previous'[e] \in Registered'
                      /\ previous'[next'[e]] = e /\ next'[previous'[e]] = e
    BY DEF Ring
  <2>1. CASE e = a
    BY <1>1, <1>2, <1>3, <1>4, <2>1
  <2>2. CASE e = Head
    <3>1. next'[e] = a /\ previous'[a] = Head
      BY <1>1, <1>2, <1>3, <2>2
    <3>2. CASE n = Head
      BY <1>1, <1>2, <1>3, <1>4, <2>2, <3>1, <3>2
    <3>3. CASE n # Head
      <4>1. previous'[Head] = previous[Head] /\ previous[Head] \in Registered
              /\ next[previous[Head]] = Head
        BY <1>1, <1>3, <3>3 DEF Ring
      <4>2. previous[Head] # Head /\ previous[Head] # a
        BY <1>1, <1>3, <3>3, <4>1, Entries DEF n, Linked
      <4>3. next'[previous[Head]] = Head
        BY <1>1, <1>3, <4>1, <4>2
      <4> QED
        BY <1>4, <2>2, <3>1, <4>1, <4>3
    <3> QED
      BY <3>2, <3>3
  <2>3. CASE e # a /\ e # Head
    <3>1. e \in Registered /\ e \in Entry
      BY <1>3, <1>4, <2>3
    <3>2. /\ next[e] \in Registered /\ previous[e] \in Registered
          /\ previous[next[e]] = e /\ next[previous[e]] = e
      BY <3>1 DEF Ring
    <3>3. next'[e] = next[e] /\ next[e] # a /\ next[e] # n
      <4>1. next[e] # a
        BY <2>3, <3>1, NotLedTo
      <4>2. previous[n] = Head
        BY <1>1 DEF Ring, n
      <4> QED
        BY <1>1, <2>3, <3>1, <3>2, <4>1, <4>2
    <3>4. previous'[next[e]] = e
      BY <1>1, <1>3, <3>2, <3>3
    <3>5. CASE e = n
      BY <1>1, <1>3, <1>4, <2>3, <3>1, <3>2, <3>3, <3>4, <3>5
    <3>6. CASE e # n
      <4>1. previous'[e] = previous[e]
        BY <1>1, <2>3, <3>1, <3>6
      <4>2. previous[e] # a
        <5>1. CASE previous[e] = a
          BY <2>3, <3>2, <5>1, Entries DEF Linked
        <5> QED
          BY <5>1
      <4>3. previous[e] # Head
        BY <3>2, <3>6 DEF n
      <4>4. next'[previous[e]] = e
        BY <1>1, <1>3, <3>2, <4>2, <4>3
      <4> QED
        BY <1>4, <3>2, <3>3, <3>4, <4>1, <4>4
    <3> QED
      BY <3>5, <3>6
  <2> QED
    BY <2>1, <2>2, <2>3
<1>6. \A b \in Alarms : Linked(b)' <=> (Linked(b) \/ b = a)
  BY <1>1, <1>2, <1>3, Entries DEF Linked, Entry
<1> QED
  BY <1>4, <1>5, <1>6

\* An alarm stays where it can be come to, and the new one can.
LEMMA InsertKeepsReached ==
  ASSUME ListIsRing, NEW a \in Alarms, ~Linked(a), Insert(a)
  PROVE  \A b \in Alarms : Linked(b)' => Reached(b)'
<1>1. AlarmTypeOK /\ Ring /\ Head \in Registered
        /\ \A b \in Alarms : Linked(b) => Reached(b)
  BY TheRing
<1>2. /\ \A e \in Entry : next'[e] = IF e = Head THEN a ELSE IF e = a THEN next[Head]
                                     ELSE next[e]
      /\ a \in Entry /\ a # Head
      /\ \A b \in Alarms : Linked(b)' <=> (Linked(b) \/ b = a)
  BY <1>1, InsertedLinks, InsertKeepsRing
<1> SUFFICES ASSUME NEW b \in Alarms, Linked(b)', NEW S \in SUBSET Entry, Head \in S,
                    \A e \in S : next'[e] \in S
             PROVE  b \in S
  BY DEF Reached
<1>3. a \in S /\ next[Head] \in S
  BY <1>1, <1>2, Entries
<1>4. CASE b = a
  BY <1>3, <1>4
<1>5. CASE b # a
  <2> DEFINE T == S \ {a}
  <2>1. Head \in T /\ T \in SUBSET Entry
    BY <1>2
  <2>2. ASSUME NEW e \in T PROVE next[e] \in T
    <3>1. e \in S /\ e # a /\ e \in Entry
      OBVIOUS
    <3>2. next[e] \in S
      BY <1>2, <1>3, <3>1
    <3>3. e \in Registered
      BY <1>1, <3>1, <3>2, Entries DEF Registered
    <3> QED
      BY <1>1, <3>1, <3>2, <3>3, NotLedTo
  <2>3. Reached(b)
    BY <1>1, <1>2, <1>5
  <2> QED
    BY <2>1, <2>2, <2>3 DEF Reached
<1> QED
  BY <1>4, <1>5
-----------------------------------------------------------------------------
(* Stopping an alarm.                                                      *)

LEMMA RemovedLinks ==
  ASSUME AlarmTypeOK, Ring, NEW a \in Alarms, next[a] # Null, Remove(a)
  PROVE  /\ \A e \in Entry : next'[e] = IF e = a THEN a ELSE IF e = previous[a] THEN next[a]
                                        ELSE next[e]
         /\ \A e \in Entry : previous'[e] = IF e = a THEN a ELSE IF e = next[a]
                                            THEN previous[a] ELSE previous[e]
         /\ a \in Registered /\ a \in Entry /\ a # Head
         /\ next[a] \in Registered /\ previous[a] \in Registered
         /\ previous[next[a]] = a /\ next[previous[a]] = a
<1>1. a \in Registered /\ a \in Entry /\ a # Head
  BY Entries DEF Registered, Entry
<1>2. /\ next[a] \in Registered /\ previous[a] \in Registered
      /\ next[a] \in Entry /\ previous[a] \in Entry
      /\ previous[next[a]] = a /\ next[previous[a]] = a
  BY <1>1, Entries DEF Ring
<1>3. DOMAIN next = Entry /\ DOMAIN previous = Entry
  BY DEF AlarmTypeOK
<1>4. /\ next' = [[next EXCEPT ![previous[a]] = next[a]] EXCEPT ![a] = a]
      /\ previous' = [[previous EXCEPT ![next[a]] = previous[a]] EXCEPT ![a] = a]
  BY DEF Remove
<1>5. \A e \in Entry : next'[e] = IF e = a THEN a ELSE IF e = previous[a] THEN next[a]
                                  ELSE next[e]
  BY <1>1, <1>2, <1>3, <1>4
<1>6. \A e \in Entry : previous'[e] = IF e = a THEN a ELSE IF e = next[a]
                                      THEN previous[a] ELSE previous[e]
  BY <1>1, <1>2, <1>3, <1>4
<1> QED
  BY <1>1, <1>2, <1>5, <1>6

LEMMA RemoveKeepsRing ==
  ASSUME AlarmTypeOK, Ring, NEW a \in Alarms, next[a] # Null, Remove(a)
  PROVE  Ring' /\ Registered' = Registered
<1>1. /\ \A e \in Entry : next'[e] = IF e = a THEN a ELSE IF e = previous[a] THEN next[a]
                                     ELSE next[e]
      /\ \A e \in Entry : previous'[e] = IF e = a THEN a ELSE IF e = next[a]
                                         THEN previous[a] ELSE previous[e]
      /\ a \in Registered /\ a \in Entry /\ a # Head
      /\ next[a] \in Registered /\ previous[a] \in Registered
      /\ previous[next[a]] = a /\ next[previous[a]] = a
  BY RemovedLinks
<1>2. Registered \subseteq Entry /\ Null \notin Registered
  BY Entries
<1>3. Registered' = Registered
  BY <1>1, <1>2 DEF Registered
<1>4. Ring'
  <2> SUFFICES ASSUME NEW e \in Registered
               PROVE  /\ next'[e] \in Registered /\ previous'[e] \in Registered
                      /\ previous'[next'[e]] = e /\ next'[previous'[e]] = e
    BY <1>3 DEF Ring
  <2>1. CASE e = a
    BY <1>1, <2>1
  <2>2. CASE e # a
    <3>1. /\ next[e] \in Registered /\ previous[e] \in Registered
          /\ previous[next[e]] = e /\ next[previous[e]] = e
      BY DEF Ring
    <3>2. next'[e] \in Registered /\ previous'[next'[e]] = e
      <4>1. CASE e = previous[a]
        BY <1>1, <1>2, <2>2, <3>1, <4>1
      <4>2. CASE e # previous[a]
        <5>1. next'[e] = next[e] /\ next[e] # a /\ next[e] # next[a]
          BY <1>1, <1>2, <2>2, <3>1, <4>2
        <5> QED
          BY <1>1, <1>2, <3>1, <5>1
      <4> QED
        BY <4>1, <4>2
    <3>3. previous'[e] \in Registered /\ next'[previous'[e]] = e
      <4>1. CASE e = next[a]
        BY <1>1, <1>2, <2>2, <3>1, <4>1
      <4>2. CASE e # next[a]
        <5>1. previous'[e] = previous[e] /\ previous[e] # a /\ previous[e] # previous[a]
          BY <1>1, <1>2, <2>2, <3>1, <4>2
        <5> QED
          BY <1>1, <1>2, <3>1, <5>1
      <4> QED
        BY <4>1, <4>2
    <3> QED
      BY <3>2, <3>3
  <2> QED
    BY <2>1, <2>2
<1> QED
  BY <1>3, <1>4

\* Only the one that is stopped is left pointing to itself.
LEMMA RemovedIsOut ==
  ASSUME ListIsRing, NEW a \in Alarms, next[a] # Null, Remove(a), NEW b \in Alarms
  PROVE  Linked(b)' <=> (Linked(b) /\ b # a)
<1>1. AlarmTypeOK /\ Ring /\ Head \in Registered /\ (Linked(b) => Reached(b))
  BY TheRing
<1>2. /\ \A e \in Entry : next'[e] = IF e = a THEN a ELSE IF e = previous[a] THEN next[a]
                                     ELSE next[e]
      /\ a \in Registered /\ a \in Entry /\ a # Head
      /\ next[a] \in Registered /\ previous[a] \in Registered
      /\ previous[next[a]] = a /\ next[previous[a]] = a
  BY <1>1, RemovedLinks
<1>3. b \in Entry /\ b # Head /\ Registered \subseteq Entry /\ Null \notin Registered
  BY <1>1, Entries DEF Entry
<1>4. CASE b = a
  BY <1>2, <1>4 DEF Linked
<1>5. CASE b # a /\ b # previous[a]
  BY <1>2, <1>3, <1>5 DEF Linked
<1>6. CASE b # a /\ b = previous[a]
  <2>1. Linked(b)
    BY <1>2, <1>3, <1>6 DEF Linked
  <2>2. next[a] # b
    <3> SUFFICES ASSUME next[a] = b PROVE FALSE
      OBVIOUS
    <3> DEFINE S == Registered \ {a, b}
    <3>1. Head \in S /\ S \in SUBSET Entry
      BY <1>1, <1>2, <1>3
    <3>2. ASSUME NEW e \in S PROVE next[e] \in S
      <4>1. next[e] \in Registered /\ previous[next[e]] = e
        BY <1>1 DEF Ring
      <4> QED
        BY <1>2, <1>6, <4>1
    <3>3. b \in S
      BY <1>1, <2>1, <3>1, <3>2 DEF Reached
    <3> QED
      BY <3>3
  <2>3. next'[b] = next[a] /\ next[a] # Null
    BY <1>2, <1>3, <1>6
  <2> QED
    BY <1>6, <2>1, <2>2, <2>3 DEF Linked
<1> QED
  BY <1>4, <1>5, <1>6

\* The ones left are still come to, over where it was.
LEMMA RemoveKeepsReached ==
  ASSUME ListIsRing, NEW a \in Alarms, next[a] # Null, Remove(a)
  PROVE  \A b \in Alarms : Linked(b)' => Reached(b)'
<1>1. AlarmTypeOK /\ Ring /\ Head \in Registered
        /\ \A b \in Alarms : Linked(b) => Reached(b)
  BY TheRing
<1>2. /\ \A e \in Entry : next'[e] = IF e = a THEN a ELSE IF e = previous[a] THEN next[a]
                                     ELSE next[e]
      /\ a \in Registered /\ a \in Entry /\ a # Head
      /\ previous[next[a]] = a /\ next[previous[a]] = a
  BY <1>1, RemovedLinks
<1> SUFFICES ASSUME NEW b \in Alarms, Linked(b)', NEW S \in SUBSET Entry, Head \in S,
                    \A e \in S : next'[e] \in S
             PROVE  b \in S
  BY DEF Reached
<1>3. Linked(b) /\ b # a
  BY RemovedIsOut
<1> DEFINE T == IF previous[a] \in S THEN S \cup {a} ELSE S \ {a}
<1>4. Head \in T /\ T \in SUBSET Entry
  BY <1>2
<1>5. ASSUME NEW e \in T PROVE next[e] \in T
  <2>1. CASE previous[a] = a
    BY <1>2, <2>1
  <2>2. CASE previous[a] # a /\ e = a
    BY <1>2, <2>2
  <2>3. CASE previous[a] # a /\ e # a
    <3>1. e \in S /\ e \in Entry /\ next'[e] \in S
      BY <2>3
    <3>2. CASE e = previous[a]
      BY <1>2, <3>1, <3>2
    <3>3. CASE e # previous[a]
      <4>1. next[e] \in S
        BY <1>2, <2>3, <3>1, <3>3
      <4>2. e \in Registered
        BY <1>1, <3>1, <4>1, Entries DEF Registered
      <4>3. next[e] # a
        BY <1>1, <3>3, <4>2 DEF Ring
      <4> QED
        BY <4>1, <4>3
    <3> QED
      BY <3>2, <3>3
  <2> QED
    BY <2>1, <2>2, <2>3
<1>6. b \in T
  BY <1>1, <1>3, <1>4, <1>5 DEF Reached
<1> QED
  BY <1>3, <1>6
-----------------------------------------------------------------------------
(* The invariant of the clock.                                             *)

\* The alarm that is called may be in any state; the walk has left it.
Called(a) == pc = "call" /\ a = alarm

\* The cursor of the walk, and the alarms that it has yet to come to: there is
\* no way to stay between it and the head without them.
Cursor == IF pc = "call" THEN saved ELSE alarm
Pending(a) ==
  \A S \in SUBSET Entry :
    Cursor \in S /\ (\A e \in S \ {Head} : next[e] \in S) => a \in S

\* The walk stands at an entry of the list, unless a callback has stopped the
\* one saved: then it stays there, until that one is started again.
CursorInv ==
  /\ pc # "program" => Cursor \in Registered
  /\ pc = "call" => alarm \in Registered \ {Head}
  /\ pc = "call" /\ ~derailed => saved # alarm
  /\ pc # "program" /\ ~derailed => Cursor = Head \/ Linked(Cursor)
  /\ derailed => pc # "program" /\ Cursor # Head /\ next[Cursor] = Cursor

\* The time of an alarm is due ticks ahead, round the wrap of the counter; at 0
\* the flag may still be up.
Timed(a) ==
  /\ due[a] < Words
  /\ IF nticks + due[a] < Words
     THEN time[a] = nticks + due[a] /\ (nticks # 0 => ~rollover[a])
     ELSE time[a] = nticks + due[a] - Words /\ rollover[a]

\* This tick is over for the alarm.
Fresh(a) == due[a] > 0 /\ (nticks = 0 => ~rollover[a])

\* A callback has stopped the saved alarm, and may start it again.
Recoverable == ~derailed \/ (pc = "call" /\ saved # alarm)

TimedInv ==
  Recoverable =>
    /\ pc = "call" => due[alarm] = 0 /\ time[alarm] = nticks /\ ~rollover[alarm]
    /\ \A a \in Alarms : Linked(a) /\ ~Called(a) =>
         /\ Timed(a)
         /\ ~Fresh(a) => pc # "program" /\ (derailed \/ Pending(a))

DayInv ==
  wall # Unknown =>
    /\ wall \in Nat /\ wall = resettime[1] * US + resettime[2] + nticks * Tick_US
    /\ -US < resettime[2] /\ resettime[2] < US

AlarmInv == ListIsRing /\ CursorInv /\ TimedInv /\ DayInv
-----------------------------------------------------------------------------
(* The ring is kept.                                                       *)

LEMMA Numbers ==
  /\ Words \in Nat /\ Words >= 2 /\ US \in Nat /\ US >= 1
  /\ TickRate \in Nat /\ TickRate >= 1 /\ TickRate <= US /\ US % TickRate = 0
  /\ \A p \in Periods : p \in Nat /\ 1 <= p /\ p <= Words - 2
  /\ \A t \in Times : t \in Nat
BY AlarmAssumption

\* A step starts one alarm, stops one, or leaves the links alone.
LEMMA LinksMove ==
  ASSUME AlarmTypeOK, CursorInv, AlarmNext
  PROVE  \/ UNCHANGED links
         \/ \E a \in Alarms : Insert(a) /\ ~Linked(a)
         \/ \E a \in Alarms : Remove(a) /\ next[a] # Null
<1>1. CASE SysclkInit \/ Tick \/ Walk \/ TickEnds \/ \E t \in Times : SetTimeOfDay(t)
  BY <1>1 DEF SysclkInit, Tick, Walk, TickEnds, SetTimeOfDay
<1>2. ASSUME NEW p \in Periods \cup {0}, CallbackReturns(p)
      PROVE  UNCHANGED links \/ \E a \in Alarms : Remove(a) /\ next[a] # Null
  <2>1. alarm \in Alarms /\ next[alarm] # Null
    BY <1>2, Entries DEF CallbackReturns, CursorInv
  <2> QED
    BY <1>2, <2>1 DEF CallbackReturns
<1>3. ASSUME NEW a \in Alarms, Stop(a) PROVE Remove(a) /\ next[a] # Null
  BY <1>3 DEF Stop
<1>4. ASSUME NEW a \in Alarms, NEW n \in Periods \cup {0}, Start(a, n)
      PROVE  Insert(a) /\ ~Linked(a)
  BY <1>4 DEF Start
<1> QED
  BY <1>1, <1>2, <1>3, <1>4 DEF AlarmNext, InTick

LEMMA LinkTypesKept ==
  ASSUME AlarmTypeOK, CursorInv, AlarmNext
  PROVE  next' \in [Entry -> Entry \cup {Null}] /\ previous' \in [Entry -> Entry \cup {Null}]
<1> USE DEF AlarmTypeOK
<1>1. CASE UNCHANGED links
  BY <1>1 DEF links
<1>2. ASSUME NEW a \in Alarms, Insert(a)
      PROVE  next' \in [Entry -> Entry \cup {Null}] /\ previous' \in [Entry -> Entry \cup {Null}]
  BY <1>2 DEF Insert, Entry
<1>3. ASSUME NEW a \in Alarms, Remove(a)
      PROVE  next' \in [Entry -> Entry \cup {Null}] /\ previous' \in [Entry -> Entry \cup {Null}]
  BY <1>3 DEF Remove, Entry
<1> QED
  BY <1>1, <1>2, <1>3, LinksMove

LEMMA WalkTypesKept ==
  ASSUME AlarmTypeOK, Ring, Head \in Registered, CursorInv, AlarmNext
  PROVE  /\ pc' \in {"program", "walk", "call"} /\ alarm' \in Entry /\ saved' \in Entry
         /\ tick_rate' \in {0, TickRate} /\ derailed' \in BOOLEAN
         /\ rollover' \in [Alarms -> BOOLEAN]
<1>1. next[Head] \in Entry /\ (pc # "program" => next[Cursor] \in Entry)
  BY Entries DEF Ring, CursorInv
<1> USE DEF AlarmTypeOK, walk
<1>2. CASE SysclkInit \/ TickEnds \/ \E t \in Times : SetTimeOfDay(t)
  BY <1>2 DEF SysclkInit, TickEnds, SetTimeOfDay
<1>3. CASE Tick
  BY <1>1, <1>3 DEF Tick
<1>4. CASE Walk
  BY <1>1, <1>4 DEF Walk, Cursor, Ahead
<1>5. ASSUME NEW p \in Periods \cup {0}, CallbackReturns(p)
      PROVE  /\ pc' = "walk" /\ alarm' \in Entry /\ saved' \in Entry
             /\ tick_rate' = tick_rate /\ derailed' = derailed
             /\ rollover' \in [Alarms -> BOOLEAN]
  BY <1>5, Entries DEF CallbackReturns, Resume, Wraps
<1>6. ASSUME NEW a \in Alarms, Stop(a)
      PROVE  UNCHANGED <<walk, tick_rate, rollover>> /\ derailed' \in BOOLEAN
  BY <1>6 DEF Stop
<1>7. ASSUME NEW a \in Alarms, NEW n \in Periods \cup {0}, Start(a, n)
      PROVE  /\ UNCHANGED <<walk, tick_rate>> /\ derailed' \in BOOLEAN
             /\ rollover' \in [Alarms -> BOOLEAN]
  BY <1>7 DEF Start, Wraps
<1> QED
  BY <1>2, <1>3, <1>4, <1>5, <1>6, <1>7 DEF AlarmNext, InTick

LEMMA NumberTypesKept ==
  ASSUME AlarmTypeOK, AlarmNext
  PROVE  /\ nticks' \in 0..(Words - 1) /\ time' \in [Alarms -> 0..(Words - 1)]
         /\ due' \in [Alarms -> Nat] /\ wall' \in Int /\ resettime' \in Int \X Int
<1>1. Words \in Nat /\ Words >= 2 /\ nticks \in Nat /\ nticks < Words
  BY Numbers DEF AlarmTypeOK
<1>2. ASSUME NEW x \in Nat PROVE x % Words \in 0..(Words - 1)
  BY <1>1
<1>3. ASSUME NEW p \in Periods \cup {0} PROVE p \in Nat
  BY Numbers
<1> USE DEF AlarmTypeOK
<1>4. CASE SysclkInit \/ Walk \/ TickEnds
  BY <1>4 DEF SysclkInit, Walk, TickEnds
<1>5. CASE Tick
  <2>1. nticks' \in 0..(Words - 1)
    BY <1>1, <1>2, <1>5 DEF Tick
  <2>2. wall' \in Int
    BY <1>5, Numbers DEF Tick, Tick_US, Unknown
  <2>3. due' \in [Alarms -> Nat]
    BY <1>5 DEF Tick
  <2> QED
    BY <1>5, <2>1, <2>2, <2>3 DEF Tick
<1>6. ASSUME NEW p \in Periods \cup {0}, CallbackReturns(p)
      PROVE  /\ time' \in [Alarms -> 0..(Words - 1)] /\ due' \in [Alarms -> Nat]
             /\ UNCHANGED <<nticks, wall, resettime>>
  <2>1. CASE p = 0
    BY <1>6, <2>1 DEF CallbackReturns
  <2>2. CASE p # 0
    <3>1. \A a \in Alarms : (time[a] + p) % Words \in 0..(Words - 1)
      BY <1>2, <1>3
    <3> QED
      BY <1>3, <1>6, <2>2, <3>1 DEF CallbackReturns
  <2> QED
    BY <2>1, <2>2
<1>7. ASSUME NEW a \in Alarms, Stop(a)
      PROVE  UNCHANGED <<nticks, time, due, wall, resettime>>
  BY <1>7 DEF Stop
<1>8. ASSUME NEW a \in Alarms, NEW n \in Periods \cup {0}, Start(a, n)
      PROVE  /\ time' \in [Alarms -> 0..(Words - 1)] /\ due' \in [Alarms -> Nat]
             /\ UNCHANGED <<nticks, wall, resettime>>
  <2>1. (n + nticks + 1) % Words \in 0..(Words - 1) /\ n + 1 \in Nat
    BY <1>1, <1>2, <1>3
  <2> QED
    BY <1>8, <2>1 DEF Start
<1>9. ASSUME NEW t \in Times, SetTimeOfDay(t)
      PROVE  /\ resettime' \in Int \X Int /\ wall' \in Int
             /\ UNCHANGED <<nticks, time, due>>
  <2>1. tick_rate = TickRate /\ t \in Nat
    BY <1>9, Numbers DEF SetTimeOfDay
  <2>2. Tick_US \in Int
    BY Numbers DEF Tick_US
  <2>3. t \div US \in Int /\ t % US \in Int /\ nticks \div TickRate \in Int
    BY <1>1, <2>1, Numbers
  <2>4. ((nticks * Tick_US) % Words) % US \in Int
    BY <1>1, <2>2, Numbers
  <2> QED
    BY <1>9, <2>1, <2>3, <2>4 DEF SetTimeOfDay, Unknown
<1> QED
  BY <1>4, <1>5, <1>6, <1>7, <1>8, <1>9 DEF AlarmNext, InTick

LEMMA RingKept ==
  ASSUME ListIsRing, CursorInv, AlarmNext
  PROVE  ListIsRing'
<1>1. /\ AlarmTypeOK /\ Ring /\ Head \in Registered
      /\ \A a \in Alarms : Linked(a) => Reached(a)
  BY TheRing
<1>2. AlarmTypeOK'
  BY <1>1, LinkTypesKept, WalkTypesKept, NumberTypesKept DEF AlarmTypeOK
<1>3. CASE UNCHANGED links
  BY <1>1, <1>2, <1>3 DEF links, ListIsRing, Ring, Registered, Linked, Reached
<1>4. ASSUME NEW a \in Alarms, Insert(a), ~Linked(a)
      PROVE  ListIsRing'
  <2>1. Ring' /\ Registered' = Registered \cup {a}
    BY <1>1, <1>4, InsertKeepsRing
  <2>2. \A b \in Alarms : Linked(b)' => Reached(b)'
    BY <1>4, InsertKeepsReached
  <2> QED
    BY <1>1, <1>2, <2>1, <2>2 DEF ListIsRing, Ring
<1>5. ASSUME NEW a \in Alarms, Remove(a), next[a] # Null
      PROVE  ListIsRing'
  <2>1. Ring' /\ Registered' = Registered
    BY <1>1, <1>5, RemoveKeepsRing
  <2>2. \A b \in Alarms : Linked(b)' => Reached(b)'
    BY <1>5, RemoveKeepsReached
  <2> QED
    BY <1>1, <1>2, <2>1, <2>2 DEF ListIsRing, Ring
<1> QED
  BY <1>1, <1>3, <1>4, <1>5, LinksMove
-----------------------------------------------------------------------------
(* The walk stays on it.                                                   *)

\* The next entry is one of the list, if this one is.
LEMMA OnwardLinked ==
  ASSUME ListIsRing, NEW e \in Registered, e = Head \/ Linked(e)
  PROVE  /\ next[e] \in Registered
         /\ next[e] = Head \/ Linked(next[e])
         /\ e # Head => next[e] # e
<1>1. AlarmTypeOK /\ Ring
  BY TheRing
<1>2. /\ next[e] \in Registered /\ previous[next[e]] = e
      /\ next[next[e]] # Null /\ previous[next[next[e]]] = next[e]
  BY <1>1, Entries DEF Ring
<1>3. next[e] # e \/ e = Head
  BY DEF Linked
<1>4. next[e] # Head => Linked(next[e])
  BY <1>2, <1>3 DEF Linked
<1> QED
  BY <1>2, <1>3, <1>4

\* An entry that points to itself goes on to do so, unless it is started.
LEMMA LoopStays ==
  ASSUME ListIsRing, NEW a \in Alarms, next[a] # Null, Remove(a),
         NEW e \in Registered, e = a \/ next[e] = e
  PROVE  next'[e] = e
<1>1. AlarmTypeOK /\ Ring /\ e \in Entry
  BY TheRing, Entries
<1>2. /\ next'[e] = IF e = a THEN a ELSE IF e = previous[a] THEN next[a] ELSE next[e]
      /\ next[previous[a]] = a
  BY <1>1, RemovedLinks
<1> QED
  BY <1>2

LEMMA CursorKept ==
  ASSUME ListIsRing, CursorInv, AlarmNext
  PROVE  CursorInv'
<1>1. /\ AlarmTypeOK /\ Ring /\ Head \in Registered /\ Registered \subseteq Entry
  BY TheRing, Entries
<1>2. derailed \in BOOLEAN /\ pc \in {"program", "walk", "call"}
  BY <1>1 DEF AlarmTypeOK
<1>3. CASE SysclkInit \/ \E t \in Times : SetTimeOfDay(t)
  BY <1>3 DEF SysclkInit, SetTimeOfDay, walk, CursorInv
<1>4. CASE Tick
  <2>1. /\ pc = "program" /\ pc' = "walk" /\ alarm' = next[Head] /\ derailed' = derailed
        /\ next' = next
    BY <1>4 DEF Tick, links
  <2>2. ~derailed
    BY <2>1 DEF CursorInv
  <2>3. next[Head] \in Registered /\ (next[Head] = Head \/ Linked(next[Head]))
    BY <1>1, OnwardLinked
  <2> QED
    BY <2>1, <2>2, <2>3 DEF CursorInv, Cursor, Registered, Linked
<1>5. CASE Walk
  <2>1. /\ pc = "walk" /\ alarm # Head /\ Cursor = alarm /\ derailed' = derailed
        /\ next' = next /\ Registered' = Registered
        /\ \/ pc' = "call" /\ saved' = next[alarm] /\ alarm' = alarm
           \/ pc' = "walk" /\ alarm' = next[alarm]
    BY <1>5 DEF Walk, links, Cursor, Registered
  <2>2. /\ alarm \in Registered
        /\ ~derailed => Linked(alarm)
        /\ derailed => next[alarm] = alarm
    BY <2>1 DEF CursorInv
  <2>3. Cursor' = next[alarm] /\ pc' # "program"
    BY <2>1 DEF Cursor
  <2>4. CASE derailed
    BY <2>1, <2>2, <2>3, <2>4 DEF CursorInv
  <2>5. CASE ~derailed
    <3>1. /\ next[alarm] \in Registered /\ next[alarm] # alarm
          /\ next[alarm] = Head \/ Linked(next[alarm])
      BY <2>1, <2>2, <2>5, OnwardLinked
    <3> QED
      BY <2>1, <2>2, <2>3, <2>5, <3>1 DEF CursorInv, Linked
  <2> QED
    BY <2>4, <2>5
<1>6. CASE TickEnds
  BY <1>6 DEF TickEnds, CursorInv, Cursor
<1>7. ASSUME NEW p \in Periods \cup {0}, CallbackReturns(p)
      PROVE  CursorInv'
  <2>1. /\ pc = "call" /\ pc' = "walk" /\ alarm' = saved /\ derailed' = derailed
        /\ Cursor = saved /\ Cursor' = saved
    BY <1>7 DEF CallbackReturns, Resume, Cursor
  <2>2. /\ alarm \in Alarms /\ next[alarm] # Null /\ saved \in Registered
        /\ ~derailed => saved # alarm /\ (saved = Head \/ Linked(saved))
        /\ derailed => saved # Head /\ next[saved] = saved
    BY <1>1, <2>1, Entries DEF CursorInv
  <2>3. CASE p = 0
    <3>1. Remove(alarm)
      BY <1>7, <2>3 DEF CallbackReturns
    <3>2. Registered' = Registered
      BY <1>1, <2>2, <3>1, RemoveKeepsRing
    <3>3. PICK c \in Registered : c = saved
      BY <2>2
    <3>4. c # Head => c \in Alarms
      BY <1>1, <3>3, Entries
    <3>5. ~derailed => c = Head \/ Linked(c)'
      BY <2>2, <3>1, <3>3, <3>4, RemovedIsOut
    <3>6. derailed => next'[c] = c
      BY <2>2, <3>1, <3>3, LoopStays
    <3> QED
      BY <2>1, <2>2, <3>2, <3>3, <3>5, <3>6 DEF CursorInv, Linked
  <2>4. CASE p # 0
    <3>1. next' = next
      BY <1>7, <2>4 DEF CallbackReturns, links
    <3> QED
      BY <2>1, <2>2, <3>1 DEF CursorInv, Linked, Registered
  <2> QED
    BY <2>3, <2>4
<1>8. ASSUME NEW a \in Alarms, Stop(a)
      PROVE  CursorInv'
  <2>1. /\ pc # "walk" /\ next[a] # Null /\ Remove(a) /\ UNCHANGED walk
        /\ derailed' = (derailed \/ (pc = "call" /\ a = saved))
    BY <1>8 DEF Stop, Awake, Busy
  <2>2. CASE pc = "program"
    BY <2>1, <2>2 DEF CursorInv, walk
  <2>3. CASE pc = "call"
    <3>1. /\ alarm \in Registered \ {Head} /\ saved \in Registered
          /\ ~derailed => saved # alarm /\ (saved = Head \/ Linked(saved))
          /\ derailed => saved # Head /\ next[saved] = saved
      BY <2>3 DEF CursorInv, Cursor
    <3>2. pc' = "call" /\ alarm' = alarm /\ Cursor' = saved /\ saved' = saved
      BY <2>1, <2>3 DEF walk, Cursor
    <3>3. Registered' = Registered
      BY <1>1, <2>1, RemoveKeepsRing
    <3>4. PICK c : c = saved /\ (c # Head => c \in Alarms)
      BY <1>1, <3>1, Entries
    <3>5. ~derailed' => ~derailed /\ (c = Head \/ Linked(c)')
      BY <2>1, <2>3, <3>1, <3>4, RemovedIsOut
    <3>6. derailed' => saved # Head /\ next'[saved] = saved
      BY <1>1, <2>1, <3>1, LoopStays, Entries
    <3> QED
      BY <2>3, <3>1, <3>2, <3>3, <3>4, <3>5, <3>6 DEF CursorInv, Linked
  <2> QED
    BY <1>2, <2>1, <2>2, <2>3
<1>9. ASSUME NEW a \in Alarms, NEW n \in Periods \cup {0}, Start(a, n)
      PROVE  CursorInv'
  <2>1. /\ pc # "walk" /\ Insert(a) /\ ~Linked(a) /\ UNCHANGED walk
        /\ pc = "call" => a # alarm
        /\ derailed' = (derailed /\ a # saved)
    BY <1>9 DEF Start, Awake, Busy
  <2>2. CASE pc = "program"
    BY <2>1, <2>2 DEF CursorInv, walk
  <2>3. CASE pc = "call"
    <3>1. /\ alarm \in Registered \ {Head} /\ saved \in Registered
          /\ ~derailed => saved # alarm /\ (saved = Head \/ Linked(saved))
          /\ derailed => saved # Head /\ next[saved] = saved
      BY <2>3 DEF CursorInv, Cursor
    <3>2. pc' = "call" /\ alarm' = alarm /\ Cursor' = saved /\ saved' = saved
      BY <2>1, <2>3 DEF walk, Cursor
    <3>3. /\ Registered' = Registered \cup {a}
          /\ \A b \in Alarms : Linked(b)' <=> (Linked(b) \/ b = a)
      BY <1>1, <2>1, InsertKeepsRing
    <3>4. PICK c : c = saved /\ (c # Head => c \in Alarms)
      BY <1>1, <3>1, Entries
    <3>5. ~derailed' => saved # alarm /\ (c = Head \/ Linked(c)')
      BY <2>1, <2>3, <3>1, <3>3, <3>4
    <3>6. derailed' => saved # Head /\ next'[saved] = saved
      BY <1>1, <2>1, <3>1, InsertedLinks
    <3> QED
      BY <2>3, <3>1, <3>2, <3>3, <3>4, <3>5, <3>6 DEF CursorInv, Linked
  <2> QED
    BY <1>2, <2>1, <2>2, <2>3
<1> QED
  BY <1>3, <1>4, <1>5, <1>6, <1>7, <1>8, <1>9 DEF AlarmNext, InTick
-----------------------------------------------------------------------------
(* What the walk has yet to come to.                                       *)

LEMMA OnwardPending ==
  ASSUME next' = next, Cursor \in Entry, Cursor # Head, Cursor' = next[Cursor],
         NEW b, b # Cursor, Pending(b)
  PROVE  Pending(b)'
<1> SUFFICES ASSUME NEW S \in SUBSET Entry, Cursor' \in S,
                    \A e \in S \ {Head} : next'[e] \in S
             PROVE  b \in S
  BY DEF Pending
<1> DEFINE T == S \cup {Cursor}
<1>1. T \in SUBSET Entry /\ Cursor \in T
  OBVIOUS
<1>2. \A e \in T \ {Head} : next[e] \in T
  OBVIOUS
<1>3. b \in T
  BY <1>1, <1>2 DEF Pending
<1> QED
  BY <1>3

\* At the first entry, that is every alarm of the list.
LEMMA AllPending ==
  ASSUME AlarmTypeOK, Cursor' = next'[Head], NEW b \in Alarms, Reached(b)'
  PROVE  Pending(b)'
<1> SUFFICES ASSUME NEW S \in SUBSET Entry, Cursor' \in S,
                    \A e \in S \ {Head} : next'[e] \in S
             PROVE  b \in S
  BY DEF Pending
<1> DEFINE T == S \cup {Head}
<1>1. T \in SUBSET Entry /\ Head \in T /\ b # Head
  BY Entries
<1>2. \A e \in T : next'[e] \in T
  OBVIOUS
<1>3. b \in T
  BY <1>1, <1>2 DEF Reached
<1> QED
  BY <1>1, <1>3

LEMMA NonePending ==
  ASSUME AlarmTypeOK, Cursor = Head, NEW b \in Alarms
  PROVE  ~Pending(b)
<1>1. {Head} \in SUBSET Entry /\ b \notin {Head}
  BY Entries
<1> QED
  BY <1>1 DEF Pending

LEMMA RemovePending ==
  ASSUME ListIsRing, NEW a \in Alarms, next[a] # Null, Remove(a),
         Cursor' = Cursor, Cursor # a, NEW b, b # a, Pending(b)
  PROVE  Pending(b)'
<1>1. AlarmTypeOK /\ Ring
  BY TheRing
<1>2. /\ \A e \in Entry : next'[e] = IF e = a THEN a ELSE IF e = previous[a] THEN next[a]
                                     ELSE next[e]
      /\ a \in Entry /\ a # Head
      /\ previous[next[a]] = a /\ next[previous[a]] = a
  BY <1>1, RemovedLinks
<1> SUFFICES ASSUME NEW S \in SUBSET Entry, Cursor \in S,
                    \A e \in S \ {Head} : next'[e] \in S
             PROVE  b \in S
  BY DEF Pending
<1> DEFINE T == IF previous[a] \in S \ {Head} THEN S \cup {a} ELSE S \ {a}
<1>3. Cursor \in T /\ T \in SUBSET Entry
  BY <1>2
<1>4. ASSUME NEW e \in T \ {Head} PROVE next[e] \in T
  <2>1. CASE previous[a] = a
    BY <1>2, <2>1
  <2>2. CASE previous[a] # a /\ e = a
    BY <1>2, <2>2
  <2>3. CASE previous[a] # a /\ e # a
    <3>1. e \in S \ {Head} /\ e \in Entry /\ next'[e] \in S
      BY <2>3
    <3>2. CASE e = previous[a]
      BY <1>2, <3>1, <3>2
    <3>3. CASE e # previous[a]
      <4>1. next[e] \in S
        BY <1>2, <2>3, <3>1, <3>3
      <4>2. e \in Registered
        BY <1>1, <3>1, <4>1, Entries DEF Registered
      <4>3. next[e] # a
        BY <1>1, <3>3, <4>2 DEF Ring
      <4> QED
        BY <4>1, <4>3
    <3> QED
      BY <3>2, <3>3
  <2> QED
    BY <2>1, <2>2, <2>3
<1>5. b \in T
  BY <1>3, <1>4 DEF Pending
<1> QED
  BY <1>5

LEMMA InsertPending ==
  ASSUME ListIsRing, NEW a \in Alarms, ~Linked(a), Insert(a),
         Cursor' = Cursor, Cursor # a, NEW b, b # a, Pending(b)
  PROVE  Pending(b)'
<1>1. AlarmTypeOK /\ Ring /\ Head \in Registered
  BY TheRing
<1>2. /\ \A e \in Entry : next'[e] = IF e = Head THEN a ELSE IF e = a THEN next[Head]
                                     ELSE next[e]
      /\ a \in Entry /\ a # Head
  BY <1>1, InsertedLinks
<1> SUFFICES ASSUME NEW S \in SUBSET Entry, Cursor \in S,
                    \A e \in S \ {Head} : next'[e] \in S
             PROVE  b \in S
  BY DEF Pending
<1> DEFINE T == S \ {a}
<1>3. Cursor \in T /\ T \in SUBSET Entry
  OBVIOUS
<1>4. ASSUME NEW e \in T \ {Head} PROVE next[e] \in T
  <2>1. e \in Entry /\ e # a /\ e # Head /\ next[e] \in S
    BY <1>2
  <2>2. e \in Registered
    BY <1>1, <2>1, Entries DEF Registered
  <2> QED
    BY <1>1, <2>1, <2>2, NotLedTo
<1>5. b \in T
  BY <1>3, <1>4 DEF Pending
<1> QED
  BY <1>5
-----------------------------------------------------------------------------
(* The tick of an alarm.                                                   *)

\* A sum of two words.
LEMMA Wrapped ==
  ASSUME NEW x \in Nat, NEW y \in Nat, x < Words, y < Words
  PROVE  (x + y) % Words = IF x + y < Words THEN x + y ELSE x + y - Words
BY Numbers

\* An alarm whose time is d ticks after the present one, as a word.
LEMMA SetAhead ==
  ASSUME AlarmTypeOK', NEW b \in Alarms, NEW d \in Nat, 0 < d, d < Words
  PROVE  /\ due'[b] = d
         /\ rollover'[b] <=> time'[b] < nticks'
         /\ time'[b] = IF nticks' + d < Words THEN nticks' + d ELSE nticks' + d - Words
         => Timed(b)' /\ Fresh(b)'
<1>1. PICK t \in Nat : t = nticks' /\ t < Words
  BY Numbers DEF AlarmTypeOK
<1>2. Words \in Nat /\ t < Words
  BY <1>1, Numbers
<1>3. SUFFICES ASSUME due'[b] = d,
                      rollover'[b] <=> time'[b] < t,
                      time'[b] = IF t + d < Words THEN t + d ELSE t + d - Words
               PROVE  Timed(b)' /\ Fresh(b)'
  BY <1>1
<1>4. PICK v \in Nat : v = time'[b]
  BY Numbers DEF AlarmTypeOK
<1>5. CASE t + d < Words
  <2>1. v = t + d
    BY <1>3, <1>4, <1>5
  <2>2. ~(v < t)
    BY <2>1
  <2>3. ~rollover'[b]
    BY <1>3, <1>4, <2>2
  <2> QED
    BY <1>1, <1>2, <1>3, <1>4, <1>5, <2>1, <2>3 DEF Timed, Fresh
<1>6. CASE ~(t + d < Words)
  <2>1. v = t + d - Words
    BY <1>3, <1>4, <1>6
  <2>2. v < t /\ t # 0
    BY <1>2, <1>6, <2>1
  <2>3. rollover'[b]
    BY <1>3, <1>4, <2>2
  <2> QED
    BY <1>1, <1>2, <1>3, <1>4, <1>6, <2>1, <2>2, <2>3 DEF Timed, Fresh
<1> QED
  BY <1>5, <1>6

\* A tick takes one off what is due, and may take the counter round.
LEMMA TickTimed ==
  ASSUME AlarmTypeOK, Tick, NEW b \in Alarms, Linked(b), Timed(b), Fresh(b)
  PROVE  Timed(b)'
<1>1. /\ nticks \in Nat /\ nticks < Words /\ Words \in Nat /\ Words >= 2
      /\ due[b] \in Nat /\ due[b] > 0 /\ due[b] < Words
  BY Numbers DEF AlarmTypeOK, Timed, Fresh
<1>2. nticks' = IF nticks + 1 < Words THEN nticks + 1 ELSE 0
  <2>1. (nticks + 1) % Words = IF nticks + 1 < Words THEN nticks + 1 ELSE nticks + 1 - Words
    BY <1>1, Wrapped
  <2> QED
    BY <1>1, <2>1 DEF Tick
<1>3. due'[b] = due[b] - 1 /\ time'[b] = time[b] /\ rollover'[b] = rollover[b]
  BY <1>1 DEF Tick
<1>4. CASE nticks + 1 < Words
  BY <1>1, <1>2, <1>3, <1>4 DEF Timed, Fresh
<1>5. CASE nticks + 1 >= Words
  BY <1>1, <1>2, <1>3, <1>5 DEF Timed, Fresh
<1> QED
  BY <1>1, <1>4, <1>5

\* The comparison of words finds just the alarms that are due.
LEMMA WalkTimed ==
  ASSUME AlarmTypeOK, Walk, NEW b \in Alarms, b = alarm, Timed(b)
  PROVE  /\ Expired(b) => due'[b] = 0 /\ time'[b] = nticks' /\ ~rollover'[b]
         /\ ~Expired(b) => Timed(b)' /\ Fresh(b)'
<1>1. /\ nticks \in Nat /\ nticks < Words /\ Words \in Nat /\ Words >= 2
      /\ due[b] \in Nat /\ due[b] < Words /\ time[b] \in Nat /\ rollover[b] \in BOOLEAN
  BY Numbers DEF AlarmTypeOK, Timed
<1>2. /\ due'[b] = due[b] /\ time'[b] = time[b] /\ nticks' = nticks
      /\ rollover'[b] = Ahead(b)
  BY DEF Walk, AlarmTypeOK
<1>3. Expired(b) <=> time[b] <= nticks /\ ~(rollover[b] /\ nticks # 0)
  BY DEF Expired, Ahead
<1>4. CASE nticks = 0
  <2>1. ~rollover'[b]
    BY <1>2, <1>4 DEF Ahead
  <2>2. time[b] = due[b] /\ (Expired(b) <=> due[b] = 0)
    BY <1>1, <1>3, <1>4 DEF Timed
  <2> QED
    BY <1>1, <1>2, <1>4, <2>1, <2>2 DEF Timed, Fresh
<1>5. CASE nticks # 0
  BY <1>1, <1>2, <1>3, <1>5 DEF Timed, Fresh, Ahead
<1> QED
  BY <1>4, <1>5

\* What is not touched keeps its time.
LEMMA SameTimed ==
  ASSUME NEW b \in Alarms, nticks' = nticks, due'[b] = due[b], time'[b] = time[b],
         rollover'[b] = rollover[b]
  PROVE  (Timed(b)' <=> Timed(b)) /\ (Fresh(b)' <=> Fresh(b))
BY DEF Timed, Fresh

LEMMA TimedKept ==
  ASSUME ListIsRing, CursorInv, TimedInv, AlarmNext, ListIsRing', CursorInv'
  PROVE  TimedInv'
<1>1. /\ AlarmTypeOK /\ AlarmTypeOK' /\ Ring /\ Head \in Registered
      /\ \A b \in Alarms : Linked(b) => Reached(b)
      /\ \A b \in Alarms : Linked(b)' => Reached(b)'
  BY TheRing DEF ListIsRing
<1>2. derailed \in BOOLEAN /\ pc \in {"program", "walk", "call"}
  BY <1>1 DEF AlarmTypeOK
<1>3. CASE SysclkInit \/ \E t \in Times : SetTimeOfDay(t)
  <2>1. UNCHANGED <<nticks, next, time, rollover, pc, alarm, saved, due, derailed>>
          /\ pc = "program"
    BY <1>3 DEF SysclkInit, SetTimeOfDay, walk, links
  <2> QED
    BY <2>1 DEF TimedInv, Recoverable, Called, Timed, Fresh, Linked
<1>4. CASE Tick
  <2>1. /\ pc = "program" /\ pc' = "walk" /\ Cursor' = next[Head] /\ next' = next
    BY <1>4 DEF Tick, links, Cursor
  <2>2. ~derailed
    BY <2>1 DEF CursorInv
  <2>3. ASSUME NEW b \in Alarms, Linked(b)'
        PROVE  Timed(b)' /\ Pending(b)'
    <3>1. Linked(b)
      BY <2>1, <2>3 DEF Linked
    <3>2. Timed(b) /\ Fresh(b)
      BY <2>1, <2>2, <3>1 DEF TimedInv, Recoverable, Called
    <3>3. Pending(b)'
      BY <1>1, <2>1, <2>3, AllPending
    <3> QED
      BY <1>1, <1>4, <3>1, <3>2, <3>3, TickTimed
  <2> QED
    BY <2>1, <2>3 DEF TimedInv
<1>5. CASE Walk
  <2>1. /\ pc = "walk" /\ alarm # Head /\ Cursor = alarm /\ derailed' = derailed
        /\ next' = next /\ Cursor' = next[alarm] /\ pc' # "program"
        /\ alarm' = IF pc' = "call" THEN alarm ELSE next[alarm]
        /\ pc' = "call" <=> Expired(alarm)
        /\ pc' = "call" => saved' = next[alarm]
    BY <1>5 DEF Walk, links, Cursor
  <2>2. CASE derailed
    <3>1. next[alarm] = alarm
      BY <2>1, <2>2 DEF CursorInv
    <3> QED
      BY <2>1, <2>2, <3>1 DEF TimedInv, Recoverable
  <2>3. CASE ~derailed
    <3>1. PICK x \in Alarms : x = alarm
      BY <1>1, <2>1, Entries DEF CursorInv
    <3>2. Linked(x) /\ Timed(x)
      BY <2>1, <2>3, <3>1 DEF CursorInv, TimedInv, Recoverable, Called
    <3>3. /\ Expired(x) => due'[x] = 0 /\ time'[x] = nticks' /\ ~rollover'[x]
          /\ ~Expired(x) => Timed(x)' /\ Fresh(x)'
      BY <1>1, <1>5, <3>1, <3>2, WalkTimed
    <3>4. pc' = "call" <=> Expired(x)
      BY <2>1, <3>1
    <3>5. pc' = "call" => due'[alarm'] = 0 /\ time'[alarm'] = nticks' /\ ~rollover'[alarm']
      BY <2>1, <3>1, <3>3, <3>4
    <3>6. ASSUME NEW b \in Alarms, Linked(b)', ~Called(b)'
          PROVE  Timed(b)' /\ (~Fresh(b)' => Pending(b)')
      <4>1. CASE b = x
        <5>1. ~Expired(x)
          BY <2>1, <3>1, <3>4, <3>6, <4>1 DEF Called
        <5> QED
          BY <3>3, <4>1, <5>1
      <4>2. CASE b # x
        <5>1. Linked(b)
          BY <2>1, <3>6 DEF Linked
        <5>2. Timed(b) /\ (~Fresh(b) => Pending(b))
          BY <2>1, <2>3, <5>1 DEF TimedInv, Recoverable, Called
        <5>3. /\ nticks' = nticks /\ due'[b] = due[b] /\ time'[b] = time[b]
              /\ rollover'[b] = rollover[b]
          BY <1>1, <1>5, <3>1, <4>2 DEF Walk, AlarmTypeOK
        <5>4. (Timed(b)' <=> Timed(b)) /\ (Fresh(b)' <=> Fresh(b))
          BY <5>3, SameTimed
        <5>5. Pending(b) => Pending(b)'
          BY <1>1, <2>1, <3>1, <4>2, OnwardPending DEF AlarmTypeOK
        <5> QED
          BY <5>2, <5>4, <5>5
      <4> QED
        BY <4>1, <4>2
    <3> QED
      BY <2>1, <3>5, <3>6 DEF TimedInv
  <2> QED
    BY <2>2, <2>3
<1>6. CASE TickEnds
  <2>1. /\ pc = "walk" /\ alarm = Head /\ Cursor = Head /\ pc' = "program"
        /\ UNCHANGED <<nticks, next, time, rollover, due, derailed>>
    BY <1>6 DEF TickEnds, links, Cursor
  <2>2. ~derailed
    BY <2>1 DEF CursorInv
  <2>3. ASSUME NEW b \in Alarms, Linked(b)'
        PROVE  Timed(b)' /\ Fresh(b)'
    <3>1. Linked(b)
      BY <2>1, <2>3 DEF Linked
    <3>2. Timed(b) /\ Fresh(b)
      BY <1>1, <2>1, <2>2, <3>1, NonePending DEF TimedInv, Recoverable, Called
    <3> QED
      BY <2>1, <3>2, SameTimed
  <2> QED
    BY <2>1, <2>3 DEF TimedInv
<1>7. ASSUME NEW p \in Periods \cup {0}, CallbackReturns(p)
      PROVE  TimedInv'
  <2>1. /\ pc = "call" /\ pc' = "walk" /\ derailed' = derailed /\ nticks' = nticks
        /\ Cursor = saved /\ Cursor' = saved
    BY <1>7 DEF CallbackReturns, Resume, Cursor
  <2>2. SUFFICES ASSUME ~derailed
                 PROVE  TimedInv'
    BY <2>1 DEF TimedInv, Recoverable
  <2>3. PICK x \in Alarms : x = alarm
    BY <1>1, <2>1, Entries DEF CursorInv
  <2>4. /\ saved # x /\ next[x] # Null
        /\ due[x] = 0 /\ time[x] = nticks /\ ~rollover[x]
    BY <1>1, <2>1, <2>2, <2>3, Entries DEF CursorInv, TimedInv, Recoverable
  <2>5. ASSUME NEW b \in Alarms, Linked(b)'
        PROVE  Timed(b)' /\ (~Fresh(b)' => Pending(b)')
    <3>1. CASE p = 0
      <4>1. Remove(x) /\ UNCHANGED <<time, rollover, due>>
        BY <1>7, <2>3, <3>1 DEF CallbackReturns
      <4>2. Linked(b) /\ b # x
        BY <2>4, <2>5, <4>1, RemovedIsOut
      <4>3. Timed(b) /\ (~Fresh(b) => Pending(b))
        BY <2>1, <2>2, <2>3, <4>2 DEF TimedInv, Recoverable, Called
      <4>4. Pending(b) => Pending(b)'
        BY <2>1, <2>4, <4>1, <4>2, RemovePending
      <4> QED
        BY <2>1, <4>1, <4>3, <4>4, SameTimed
    <3>2. CASE p # 0
      <4>1. /\ time' = [time EXCEPT ![x] = (@ + p) % Words]
            /\ rollover' = [rollover EXCEPT ![x] = @ \/ Wraps(time'[x])]
            /\ due' = [due EXCEPT ![x] = p] /\ next' = next
        BY <1>7, <2>3, <3>2 DEF CallbackReturns, links
      <4>2. p \in Nat /\ 0 < p /\ p < Words
        BY <3>2, Numbers
      <4>3. CASE b = x
        <5>1. due'[b] = p /\ time'[b] = (nticks + p) % Words
          BY <1>1, <2>1, <2>4, <4>1, <4>3 DEF AlarmTypeOK
        <5>2. rollover'[b] <=> time'[b] < nticks'
          BY <1>1, <2>1, <2>4, <4>1, <4>3 DEF AlarmTypeOK, Wraps
        <5>3. nticks \in Nat /\ nticks < Words
          BY <1>1, Numbers DEF AlarmTypeOK
        <5>4. (nticks + p) % Words = IF nticks + p < Words THEN nticks + p
                                     ELSE nticks + p - Words
          BY <4>2, <5>3, Wrapped
        <5> QED
          BY <1>1, <2>1, <4>2, <5>1, <5>2, <5>4, SetAhead
      <4>4. CASE b # x
        <5>1. Linked(b)
          BY <2>5, <4>1 DEF Linked
        <5>2. Timed(b) /\ (~Fresh(b) => Pending(b))
          BY <2>1, <2>2, <2>3, <4>4, <5>1 DEF TimedInv, Recoverable, Called
        <5>3. due'[b] = due[b] /\ time'[b] = time[b] /\ rollover'[b] = rollover[b]
          BY <1>1, <4>1, <4>4 DEF AlarmTypeOK
        <5>4. Pending(b) => Pending(b)'
          BY <2>1, <4>1 DEF Pending
        <5> QED
          BY <2>1, <5>2, <5>3, <5>4, SameTimed
      <4> QED
        BY <4>3, <4>4
    <3> QED
      BY <3>1, <3>2
  <2> QED
    BY <2>1, <2>5 DEF TimedInv
<1>8. ASSUME NEW a \in Alarms, Stop(a)
      PROVE  TimedInv'
  <2>1. /\ pc # "walk" /\ next[a] # Null /\ Remove(a) /\ UNCHANGED <<pc, alarm, saved>>
        /\ UNCHANGED <<nticks, time, rollover, due>>
        /\ derailed' = (derailed \/ (pc = "call" /\ a = saved))
    BY <1>8 DEF Stop, Awake, Busy, walk
  <2>2. SUFFICES ASSUME Recoverable' PROVE TimedInv'
    BY DEF TimedInv
  <2>3. Recoverable
    BY <1>2, <2>1, <2>2 DEF Recoverable, CursorInv
  <2>4. pc' = "call" => due'[alarm'] = 0 /\ time'[alarm'] = nticks' /\ ~rollover'[alarm']
    BY <2>1, <2>3 DEF TimedInv
  <2>5. ASSUME NEW b \in Alarms, Linked(b)', ~Called(b)'
        PROVE  Timed(b)' /\ (~Fresh(b)' => pc' # "program" /\ (derailed' \/ Pending(b)'))
    <3>1. Linked(b) /\ b # a /\ ~Called(b)
      BY <2>1, <2>5, RemovedIsOut DEF Called
    <3>2. Timed(b) /\ (~Fresh(b) => pc # "program" /\ (derailed \/ Pending(b)))
      BY <2>3, <3>1 DEF TimedInv
    <3>3. ASSUME pc # "program", ~derailed', Pending(b)
          PROVE  Pending(b)'
      <4>1. Cursor' = Cursor /\ Cursor # a
        BY <1>2, <2>1, <3>3 DEF Cursor
      <4> QED
        BY <2>1, <3>1, <3>3, <4>1, RemovePending
    <3> QED
      BY <2>1, <3>2, <3>3, SameTimed
  <2> QED
    BY <2>4, <2>5 DEF TimedInv
<1>9. ASSUME NEW a \in Alarms, NEW n \in Periods \cup {0}, Start(a, n)
      PROVE  TimedInv'
  <2>1. /\ pc # "walk" /\ Insert(a) /\ ~Linked(a) /\ UNCHANGED <<pc, alarm, saved, nticks>>
        /\ pc = "call" => a # alarm
        /\ time' = [time EXCEPT ![a] = (n + nticks + 1) % Words]
        /\ rollover' = [rollover EXCEPT ![a] = Wraps(time'[a])]
        /\ due' = [due EXCEPT ![a] = n + 1]
        /\ derailed' = (derailed /\ a # saved)
    BY <1>9 DEF Start, Awake, Busy, walk
  <2>2. SUFFICES ASSUME Recoverable' PROVE TimedInv'
    BY DEF TimedInv
  <2>3. Recoverable
    BY <1>2, <2>1, <2>2 DEF Recoverable, CursorInv
  <2>4. ASSUME NEW b \in Alarms, b # a
        PROVE  due'[b] = due[b] /\ time'[b] = time[b] /\ rollover'[b] = rollover[b]
    BY <1>1, <2>1, <2>4 DEF AlarmTypeOK
  <2>5. pc' = "call" => due'[alarm'] = 0 /\ time'[alarm'] = nticks' /\ ~rollover'[alarm']
    BY <1>1, <2>1, <2>3, <2>4, Entries DEF TimedInv, CursorInv
  <2>6. ASSUME NEW b \in Alarms, Linked(b)', ~Called(b)'
        PROVE  Timed(b)' /\ (~Fresh(b)' => pc' # "program" /\ (derailed' \/ Pending(b)'))
    <3>1. CASE b = a
      <4>1. /\ n \in Nat /\ n + 1 \in Nat /\ 0 < n + 1 /\ n + 1 < Words
            /\ nticks \in Nat /\ nticks < Words
        BY <1>1, Numbers DEF AlarmTypeOK
      <4>2. due'[b] = n + 1 /\ time'[b] = (n + nticks + 1) % Words
        BY <1>1, <2>1, <3>1 DEF AlarmTypeOK
      <4>3. (n + nticks + 1) % Words = IF nticks + (n + 1) < Words THEN nticks + (n + 1)
                                       ELSE nticks + (n + 1) - Words
        <5>1. n + nticks + 1 = nticks + (n + 1)
          BY <4>1
        <5> QED
          BY <4>1, <5>1, Wrapped
      <4>4. rollover'[b] <=> time'[b] < nticks'
        BY <1>1, <2>1, <3>1 DEF AlarmTypeOK, Wraps
      <4> QED
        BY <1>1, <2>1, <4>1, <4>2, <4>3, <4>4, SetAhead
    <3>2. CASE b # a
      <4>1. Linked(b) /\ ~Called(b)
        BY <1>1, <2>1, <2>6, <3>2, InsertKeepsRing DEF Called
      <4>2. Timed(b) /\ (~Fresh(b) => pc # "program" /\ (derailed \/ Pending(b)))
        BY <2>3, <4>1 DEF TimedInv
      <4>3. ASSUME pc # "program", ~derailed', derailed \/ Pending(b)
            PROVE  Pending(b)'
        <5>1. pc = "call" /\ Cursor' = saved /\ Cursor = saved
          BY <1>2, <2>1, <4>3 DEF Cursor
        <5>2. CASE derailed
          <6>1. Cursor' = next'[Head]
            BY <1>1, <2>1, <4>3, <5>1, <5>2, InsertedLinks, Entries
          <6> QED
            BY <1>1, <2>6, <6>1, AllPending
        <5>3. CASE ~derailed
          <6>1. Cursor # a
            BY <2>1, <5>1, <5>3, Entries, <1>1 DEF CursorInv
          <6> QED
            BY <2>1, <3>2, <4>3, <5>1, <5>3, <6>1, InsertPending
        <5> QED
          BY <1>2, <5>2, <5>3
      <4> QED
        BY <2>1, <2>4, <3>2, <4>2, <4>3, SameTimed
    <3> QED
      BY <3>1, <3>2
  <2> QED
    BY <2>5, <2>6 DEF TimedInv
<1> QED
  BY <1>3, <1>4, <1>5, <1>6, <1>7, <1>8, <1>9 DEF AlarmNext, InTick
-----------------------------------------------------------------------------
(* The time of day.                                                        *)

\* Of a product with a positive number.
LEMMA TimesOne ==
  ASSUME NEW n \in Int, NEW m \in Int
  PROVE  n * m \in Int /\ (n + 1) * m = n * m + m
OBVIOUS

LEMMA NoRoom ==
  ASSUME NEW m \in Nat, m >= 1, NEW q \in Int, NEW r \in Int, NEW s \in Int, NEW u \in Int,
         0 <= r, r < m, 0 <= u, u < m, q * m + r = s * m + u
  PROVE  q = s /\ r = u
<1>1. (q - s) * m = u - r
  OBVIOUS
<1>2. ASSUME NEW d \in Int, d * m < m, -m < d * m
      PROVE  d = 0
  <2>1. d >= 1 => d * m >= m
    BY <1>2
  <2>2. d <= -1 => d * m <= -m
    BY <1>2
  <2> QED
    BY <1>2, <2>1, <2>2
<1>3. q - s \in Int /\ (q - s) * m < m /\ -m < (q - s) * m
  BY <1>1
<1>4. q - s = 0
  BY <1>2, <1>3
<1> QED
  BY <1>4

\* The quotient and the remainder are the only two numbers that fit.
LEMMA QuotientIs ==
  ASSUME NEW x \in Nat, NEW m \in Nat, m >= 1, NEW s \in Int, NEW u \in Int,
         0 <= u, u < m, x = s * m + u
  PROVE  x \div m = s /\ x % m = u
<1>1. PICK q \in Int, r \in Int : q = x \div m /\ r = x % m
  OBVIOUS
<1>2. 0 <= r /\ r < m /\ x = q * m + r
  BY <1>1
<1> QED
  BY <1>1, <1>2, NoRoom

\* A second is TickRate ticks.
LEMMA Second ==
  Tick_US \in Nat /\ Tick_US >= 1 /\ US = TickRate * Tick_US
<1>1. US \div TickRate \in Int /\ US = TickRate * (US \div TickRate)
  BY Numbers
<1>2. US \div TickRate >= 1
  BY <1>1, Numbers
<1> QED
  BY <1>1, <1>2 DEF Tick_US

\* The seconds of the counter are those of its microseconds.
LEMMA SecondsPassed ==
  ASSUME NEW n \in Nat
  PROVE  /\ n * Tick_US \in Nat
         /\ n \div TickRate = (n * Tick_US) \div US
<1>1. PICK q \in Int, r \in Int : q = n \div TickRate /\ r = n % TickRate
  BY Numbers
<1>2. 0 <= r /\ r < TickRate /\ n = q * TickRate + r
  BY <1>1, Numbers
<1>3. Tick_US \in Nat /\ Tick_US >= 1 /\ US = TickRate * Tick_US /\ US \in Nat /\ US >= 1
  BY Second, Numbers
<1> HIDE DEF Tick_US
<1>4. n * Tick_US \in Nat
  BY <1>3
<1>5. n * Tick_US = q * US + r * Tick_US
  <2>1. n * Tick_US = (q * TickRate) * Tick_US + r * Tick_US
    BY <1>2, <1>3, Numbers
  <2>2. (q * TickRate) * Tick_US = q * (TickRate * Tick_US)
    BY <1>3, Numbers
  <2> QED
    BY <1>3, <2>1, <2>2
<1>6. 0 <= r * Tick_US /\ r * Tick_US < US /\ r * Tick_US \in Int
  <2>1. PICK d \in Nat : TickRate = r + d /\ d >= 1
    <3>1. TickRate - r \in Nat /\ TickRate - r >= 1 /\ TickRate = r + (TickRate - r)
      BY <1>2, Numbers
    <3> QED
      BY <3>1
  <2>2. TickRate * Tick_US = r * Tick_US + d * Tick_US
    BY <1>2, <1>3, <2>1
  <2>3. d * Tick_US >= 1 /\ r * Tick_US >= 0
    BY <1>2, <1>3, <2>1
  <2> QED
    BY <1>2, <1>3, <2>2, <2>3
<1>7. (n * Tick_US) \div US = q
  BY <1>3, <1>4, <1>5, <1>6, QuotientIs
<1> QED
  BY <1>1, <1>4, <1>7

\* What is set and what has passed since is the time of day, carried.
LEMMA DayKept ==
  ASSUME AlarmTypeOK, AlarmTypeOK', DayInv, AlarmNext
  PROVE  DayInv'
<1>1. /\ nticks \in Nat /\ nticks' \in Nat /\ wall \in Int
      /\ resettime[1] \in Int /\ resettime[2] \in Int
  BY Numbers DEF AlarmTypeOK
<1>2. Tick_US \in Nat /\ Tick_US >= 1 /\ US \in Nat /\ US >= 1
  BY Second, Numbers
<1>3. CASE SysclkInit \/ InTick
  <2>1. UNCHANGED <<wall, resettime, nticks>>
    BY <1>3 DEF SysclkInit, InTick, Walk, TickEnds, CallbackReturns
  <2> QED
    BY <2>1 DEF DayInv
<1>4. ASSUME NEW a \in Alarms, Stop(a) \/ \E n \in Periods \cup {0} : Start(a, n)
      PROVE  UNCHANGED <<wall, resettime, nticks>>
  BY <1>4 DEF Stop, Start
<1>5. CASE Tick
  <2>1. SUFFICES ASSUME wall' # Unknown PROVE DayInv'
    BY DEF DayInv
  <2>2. wall # Unknown /\ nticks' # 0 /\ wall' = wall + Tick_US /\ resettime' = resettime
    BY <1>5, <2>1 DEF Tick
  <2>3. nticks' = nticks + 1
    BY <1>1, <1>5, <2>2, Numbers, Wrapped DEF Tick, AlarmTypeOK
  <2>4. PICK m \in Int : m = nticks * Tick_US /\ nticks' * Tick_US = m + Tick_US
    BY <1>1, <1>2, <2>3, TimesOne
  <2>5. /\ wall \in Nat /\ wall = resettime[1] * US + resettime[2] + nticks * Tick_US
        /\ -US < resettime[2] /\ resettime[2] < US
    BY <2>2 DEF DayInv
  <2>6. PICK d \in Int : d = resettime[1] * US
    BY <1>1, <1>2, TimesOne
  <2> HIDE DEF Tick_US
  <2>7. wall' \in Nat /\ wall' = resettime[1] * US + resettime[2] + nticks' * Tick_US
    <3>1. wall' \in Nat /\ wall' = d + resettime[2] + (m + Tick_US)
      BY <1>1, <1>2, <2>2, <2>4, <2>5, <2>6
    <3> QED
      BY <2>4, <2>6, <3>1
  <2> QED
    BY <2>2, <2>5, <2>7 DEF DayInv, Tick_US
<1>6. ASSUME NEW t \in Times, SetTimeOfDay(t)
      PROVE  DayInv'
  <2>1. SUFFICES ASSUME wall' # Unknown PROVE DayInv'
    BY DEF DayInv
  <2> DEFINE M == nticks * Tick_US
  <2>2. /\ tick_rate = TickRate /\ t \in Nat /\ nticks' = nticks
        /\ M < Words /\ wall' = t
        /\ resettime' = <<(t \div US) - (nticks \div TickRate), (t % US) - ((M % Words) % US)>>
    BY <1>6, <2>1, Numbers DEF SetTimeOfDay, AlarmTypeOK
  <2>3. M \in Nat /\ nticks \div TickRate = M \div US
    BY <1>1, SecondsPassed
  <2>4. M % Words = M
    BY <2>2, <2>3, Numbers
  <2>5. PICK q \in Int, r \in Int : q = t \div US /\ r = t % US
    BY <1>2, <2>2
  <2> HIDE DEF M, Tick_US
  <2>6. PICK s \in Int, u \in Int : s = M \div US /\ u = M % US
    BY <1>2, <2>3
  <2>7. 0 <= r /\ r < US /\ t = q * US + r
    BY <1>2, <2>2, <2>5
  <2>8. 0 <= u /\ u < US /\ M = s * US + u
    BY <1>2, <2>3, <2>6
  <2>9. resettime'[1] = q - s /\ resettime'[2] = r - u
    BY <2>2, <2>3, <2>4, <2>5, <2>6
  <2>10. (q - s) * US = q * US - s * US /\ q * US \in Int /\ s * US \in Int
    BY <1>2
  <2>11. t = (q - s) * US + (r - u) + M
    BY <2>7, <2>8, <2>10
  <2>12. nticks' * Tick_US = M
    BY <2>2 DEF M
  <2> QED
    BY <1>2, <2>2, <2>7, <2>8, <2>9, <2>11, <2>12 DEF DayInv, Tick_US
<1>7. (\E a \in Alarms : Stop(a) \/ \E n \in Periods \cup {0} : Start(a, n)) => DayInv'
  BY <1>4 DEF DayInv
<1> QED
  BY <1>3, <1>5, <1>6, <1>7 DEF AlarmNext

\* The carrying leaves the only seconds and microseconds there are.
LEMMA CarriedIs ==
  ASSUME NEW w \in Nat, NEW s \in Int, NEW u \in Int, w = s * US + u,
         -US < u, u < 2 * US
  PROVE  Carried(s, u) = <<w \div US, w % US>>
<1>1. US \in Nat /\ US >= 1
  BY Numbers
<1>2. PICK x \in Int : x = s * US
  BY <1>1, TimesOne
<1>3. w = x + u
  BY <1>2
<1>4. CASE u < 0
  <2>1. s > 0
    <3>1. s <= 0 => s * US <= 0
      BY <1>1
    <3> QED
      BY <1>2, <1>3, <1>4, <3>1
  <2>2. Carried(s, u) = <<s - 1, u + US>>
    BY <1>1, <1>4, <2>1 DEF Carried
  <2>3. PICK k \in Int, v \in Int : k = s - 1 /\ v = u + US
    BY <1>1
  <2>4. x = k * US + US
    BY <1>1, <1>2, <2>3, TimesOne
  <2>5. w = k * US + v /\ 0 <= v /\ v < US
    <3>1. k * US \in Int
      BY <1>1, TimesOne
    <3> QED
      BY <1>1, <1>3, <1>4, <2>3, <2>4, <3>1
  <2>6. w \div US = k /\ w % US = v
    BY <1>1, <2>5, QuotientIs
  <2> QED
    BY <2>2, <2>3, <2>6
<1>5. CASE u >= US
  <2>1. Carried(s, u) = <<s + 1, u - US>>
    BY <1>1, <1>5 DEF Carried
  <2>2. PICK k \in Int, v \in Int : k = s + 1 /\ v = u - US
    BY <1>1
  <2>3. k * US = x + US
    BY <1>1, <1>2, <2>2, TimesOne
  <2>4. w = k * US + v /\ 0 <= v /\ v < US
    BY <1>1, <1>3, <1>5, <2>2, <2>3
  <2>5. w \div US = k /\ w % US = v
    BY <1>1, <2>4, QuotientIs
  <2> QED
    BY <2>1, <2>2, <2>5
<1>6. CASE 0 <= u /\ u < US
  <2>1. Carried(s, u) = <<s, u>>
    BY <1>1, <1>6 DEF Carried
  <2>2. w \div US = s /\ w % US = u
    BY <1>1, <1>6, QuotientIs
  <2> QED
    BY <2>1, <2>2
<1> QED
  BY <1>1, <1>4, <1>5, <1>6

LEMMA DayIsShown ==
  ASSUME AlarmTypeOK, DayInv
  PROVE  TimeOfDayIsShown
<1> SUFFICES ASSUME wall # Unknown
             PROVE  TimeOfDay = <<wall \div US, wall % US>>
  BY DEF TimeOfDayIsShown
<1>1. /\ nticks \in Nat /\ Tick_US \in Nat /\ US \in Nat /\ US >= 1
  BY Second, Numbers DEF AlarmTypeOK
<1>2. PICK A \in Int, B \in Int : A = resettime[1] /\ B = resettime[2]
  BY DEF AlarmTypeOK
<1>3. PICK m \in Nat : m = nticks * Tick_US /\ nticks \div TickRate = m \div US
  BY <1>1, SecondsPassed
<1>4. PICK q \in Int, r \in Int : q = m \div US /\ r = m % US
  BY <1>1
<1>5. 0 <= r /\ r < US /\ m = q * US + r
  BY <1>1, <1>4
<1>6. TimeOfDay = Carried(A + q, B + r)
  BY <1>2, <1>3, <1>4 DEF TimeOfDay
<1>7. wall \in Nat /\ wall = A * US + B + m /\ -US < B /\ B < US
  BY <1>2, <1>3 DEF DayInv
<1>8. (A + q) * US = A * US + q * US /\ A * US \in Int /\ q * US \in Int
  BY <1>1
<1>9. wall = (A + q) * US + (B + r)
  BY <1>5, <1>7, <1>8
<1>10. -US < B + r /\ B + r < 2 * US
  BY <1>1, <1>5, <1>7
<1>11. PICK s \in Int, u \in Int : s = A + q /\ u = B + r
  OBVIOUS
<1> QED
  BY <1>6, <1>7, <1>9, <1>10, <1>11, CarriedIs
-----------------------------------------------------------------------------
(* The theorems.                                                           *)

\* The invariant of the clock, whatever program and callbacks start and stop.
THEOREM AlarmInvariant == AlarmSafe => []AlarmInv
<1>1. AlarmInit => AlarmInv
  <2> SUFFICES ASSUME AlarmInit PROVE AlarmInv
    OBVIOUS
  <2> USE DEF AlarmInit
  <2>1. AlarmTypeOK
    <3>1. next \in [Entry -> Entry \cup {Null}] /\ previous = next
      BY DEF Entry
    <3>2. /\ time \in [Alarms -> 0..(Words - 1)] /\ rollover \in [Alarms -> BOOLEAN]
          /\ due \in [Alarms -> Nat] /\ nticks \in 0..(Words - 1)
      BY Numbers
    <3>3. alarm \in Entry /\ saved \in Entry /\ resettime \in Int \X Int
      BY DEF Entry
    <3> QED
      BY <3>1, <3>2, <3>3 DEF AlarmTypeOK
  <2>2. \A e \in Entry : next[e] = (IF e = Head THEN Head ELSE Null) /\ previous[e] = next[e]
    OBVIOUS
  <2>3. Head \in Entry /\ Head # Null /\ Head \notin Alarms /\ Registered = {Head}
    BY <2>1, <2>2, Entries DEF Registered
  <2>4. \A a \in Alarms : ~Linked(a)
    BY <2>2, <2>3 DEF Linked, Entry
  <2>5. ListIsRing
    BY <2>1, <2>2, <2>3, <2>4 DEF ListIsRing
  <2>6. CursorInv /\ TimedInv
    BY <2>4 DEF CursorInv, TimedInv
  <2>7. DayInv
    BY Second, Numbers DEF DayInv
  <2> QED
    BY <2>5, <2>6, <2>7 DEF AlarmInv
<1>2. AlarmInv /\ [AlarmNext]_alarmVars => AlarmInv'
  <2> SUFFICES ASSUME AlarmInv, [AlarmNext]_alarmVars PROVE AlarmInv'
    OBVIOUS
  <2>1. ListIsRing /\ CursorInv /\ TimedInv /\ DayInv /\ AlarmTypeOK
    BY DEF AlarmInv, ListIsRing
  <2>2. CASE AlarmNext
    <3>1. ListIsRing' /\ CursorInv'
      BY <2>1, <2>2, RingKept, CursorKept
    <3>2. AlarmTypeOK'
      BY <3>1 DEF ListIsRing
    <3>3. TimedInv' /\ DayInv'
      BY <2>1, <2>2, <3>1, <3>2, TimedKept, DayKept
    <3> QED
      BY <3>1, <3>3 DEF AlarmInv
  <2>3. CASE UNCHANGED alarmVars
    <3> USE <2>3 DEF alarmVars, links, walk
    <3>1. ListIsRing'
      BY <2>1 DEF ListIsRing, AlarmTypeOK, Registered, Linked, Reached
    <3>2. CursorInv'
      BY <2>1 DEF CursorInv, Cursor, Registered, Linked
    <3>3. TimedInv'
      BY <2>1 DEF TimedInv, Recoverable, Called, Timed, Fresh, Pending, Cursor, Linked
    <3>4. DayInv'
      BY <2>1 DEF DayInv
    <3> QED
      BY <3>1, <3>2, <3>3, <3>4 DEF AlarmInv
  <2> QED
    BY <2>2, <2>3
<1> QED
  BY <1>1, <1>2, PTL DEF AlarmSafe

\* The alarms are linked in one ring through the head, with nothing lost.
THEOREM AlarmsInOneRing == AlarmSafe => []ListIsRing
BY AlarmInvariant, PTL DEF AlarmInv

\* An alarm is called in its tick, while no callback has stopped the saved one.
THEOREM AlarmsAreOnTime == AlarmSafe => []OnTime
<1>1. AlarmInv => OnTime
  BY DEF AlarmInv, TimedInv, Recoverable, Called, Fresh, OnTime
<1> QED
  BY <1>1, AlarmInvariant, PTL

\* The time of day is the time that was set and what has passed since.
THEOREM TimeOfDayGoesOn == AlarmSafe => []TimeOfDayIsShown
<1>1. AlarmInv => TimeOfDayIsShown
  BY DayIsShown DEF AlarmInv, ListIsRing
<1> QED
  BY <1>1, AlarmInvariant, PTL
=============================================================================
