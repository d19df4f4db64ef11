-------------------------- MODULE Frequency_Calculator --------------------------
(***************************************************************************)
(* The frequency of one channel: that of a period which lies between its   *)
(* two time cursors.  One step is a rising edge of Main_CLK, with what the *)
(* user has moved or switched at that edge.                                *)
(***************************************************************************)
EXTENDS BCD

CONSTANT TimePlaces    \* where the cursors are: 18..499

ASSUME TimeAssumption == TimePlaces \subseteq Nat

VARIABLES
  Right_Time_Cursor, Left_Time_Cursor,
  TimeScale_Counter,                    \* how many of the five switches are up
  CH1_Binary,
  steady                                \* history: the inputs of the last edge
                                        \* are still there

frequencyVars == <<Right_Time_Cursor, Left_Time_Cursor, TimeScale_Counter, CH1_Binary, steady>>

\* How many samples of the channel one column of the screen stands for.
TimeScale ==
  CASE TimeScale_Counter = 0 -> 1
    [] TimeScale_Counter = 1 -> 2
    [] TimeScale_Counter = 2 -> 4
    [] TimeScale_Counter = 3 -> 8
    [] TimeScale_Counter = 4 -> 16
    [] TimeScale_Counter = 5 -> 32

\* Samples in a second.
SampleRate == 96 * 15360

Distance(right, left) == IF right > left THEN right - left ELSE left - right
Samples == TimeScale * Distance(Right_Time_Cursor, Left_Time_Cursor)

\* The register has 16 bits; what is divided by zero stands for any value.
Quotient(n) == IF n = 0 THEN {0, 65535} ELSE {(SampleRate \div n) % 65536}

Measure == CH1_Binary' \in Quotient(Samples)

TimeNear(x) == {y \in TimePlaces : y - x \in {-1, 1}}

\* One cursor moves, or switches of the time scale are thrown, or neither.
TimeInputs ==
  \/ /\ Right_Time_Cursor' \in TimeNear(Right_Time_Cursor)
     /\ UNCHANGED <<Left_Time_Cursor, TimeScale_Counter>>
  \/ /\ Left_Time_Cursor' \in TimeNear(Left_Time_Cursor)
     /\ UNCHANGED <<Right_Time_Cursor, TimeScale_Counter>>
  \/ TimeScale_Counter' \in 0..5 /\ UNCHANGED <<Right_Time_Cursor, Left_Time_Cursor>>

FrequencyInit ==
  /\ Right_Time_Cursor \in TimePlaces /\ Left_Time_Cursor \in TimePlaces
  /\ TimeScale_Counter = 0 /\ CH1_Binary = 0
  /\ steady = FALSE

FrequencyEdge ==
  /\ TimeInputs /\ Measure
  /\ steady' = UNCHANGED <<Right_Time_Cursor, Left_Time_Cursor, TimeScale_Counter>>

\* The digits drawn are those of the frequency, a whole number of hertz, from
\* the first edge after the user has moved something, for every period of 23
\* samples or more.  A shorter one, and none at all, the 16 bits of the quotient
\* do not hold (Frequency_Calculator.v:13, 20): 22 samples are shown as 1489 Hz,
\* not as 67025.
FrequencyIsShown ==
  steady /\ Samples >= 23 =>
    IsDecimal(ToBCD(CH1_Binary)) /\ Value(ToBCD(CH1_Binary)) = SampleRate \div Samples
===============================================================================
