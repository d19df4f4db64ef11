\* A counter of five values, so that it, the alarms' times and the product of
\* settimeofday wrap; an interval of three reaches over the wrap.
CONSTANTS
  Alarms = {a1, a2}
  Head = head
  Null = null
  Words = 5
  TickRate = 3
  US = 6
  Periods = {1, 3}
  Times = {0, 7}
SPECIFICATION AlarmSpec
INVARIANTS
  ListIsRing
  OnTime
  TimeOfDayIsShown
PROPERTIES
  AlarmIsCalled
