------------------------------- MODULE DeBouncer -------------------------------
(***************************************************************************)
(* The debouncer, DeBouncer.v: one copy of the same block for each switch, *)
(* and one for the reset button, whose output resets the others.  One step *)
(* is one rising edge of Main_CLK; the pins move freely between edges.     *)
(* The code has Threshold = 7999 and 13-bit counters, Modulus = 8192.      *)
(*                                                                         *)
(* History variables count ticks, up to Threshold + 1 of them: low, for    *)
(* how many a flag has been down; steady, for how many a pin was found up, *)
(* those of a reset left out; pressed, for how many the reset button was   *)
(* found pressed.                                                          *)
(***************************************************************************)
EXTENDS Integers

CONSTANTS Channels, Threshold, Modulus

ASSUME CounterAssumption ==
  /\ Threshold \in Nat /\ Modulus \in Nat
  /\ Threshold + 1 < Modulus

VARIABLES
  pin, Flag, DeBounce_Counter,                 \* by channel
  resetPin, Reset_Flag, ResetDeBounce_Counter, \* the button is active low
  low, steady,                                 \* by channel
  pressed

registers == <<Flag, DeBounce_Counter, Reset_Flag, ResetDeBounce_Counter>>
histories == <<low, steady, pressed>>
debouncerVars == <<pin, resetPin, registers, histories>>

Bit == {0, 1}
Reset_Activated == 1 - Reset_Flag    \* active low, like Reset in the other modules
-----------------------------------------------------------------------------
DebouncerInit ==
  /\ pin \in [Channels -> Bit] /\ resetPin = 1
  /\ Flag = [c \in Channels |-> 0] /\ DeBounce_Counter = [c \in Channels |-> 0]
  /\ Reset_Flag = 0 /\ ResetDeBounce_Counter = 0
  /\ low = [c \in Channels |-> 0] /\ steady = [c \in Channels |-> 0]
  /\ pressed = 0

\* A mutant of Increment: it stops at its width.
IncrementStuck(k) == IF k + 1 = Modulus THEN k ELSE k + 1

\* The counter wraps around at its width.
Increment(k) == IF k + 1 = Modulus THEN 0 ELSE k + 1

\* A mutant of NextFlag: any count from the threshold on will do.
NextFlagAtLeast(c) ==
  IF Reset_Activated = 0 \/ pin[c] = 0 THEN 0
  ELSE IF Flag[c] = 0 /\ DeBounce_Counter[c] >= Threshold THEN 1 ELSE Flag[c]

\* A reset clears the flag and leaves the counter where it is.
NextFlag(c) ==
  IF Reset_Activated = 0 \/ pin[c] = 0 THEN 0
  ELSE IF Flag[c] = 0 /\ DeBounce_Counter[c] = Threshold THEN 1 ELSE Flag[c]

\* A mutant of NextCounter: the count survives a low pin.
NextCounterKept(c) ==
  IF Reset_Activated = 0 THEN DeBounce_Counter[c]
  ELSE IF pin[c] = 1 /\ Flag[c] = 0 THEN Increment(DeBounce_Counter[c])
  ELSE IF pin[c] = 0 THEN DeBounce_Counter[c] ELSE 0

NextCounter(c) ==
  IF Reset_Activated = 0 THEN DeBounce_Counter[c]
  ELSE IF pin[c] = 1 /\ Flag[c] = 0 THEN Increment(DeBounce_Counter[c]) ELSE 0

Switches ==
  /\ Flag' = [c \in Channels |-> NextFlag(c)]
  /\ DeBounce_Counter' = [c \in Channels |-> NextCounter(c)]

\* A mutant of ResetButton: the count survives a released button.
ResetButtonKept ==
  /\ Reset_Flag' = IF resetPin = 1 THEN 0
                   ELSE IF Reset_Flag = 0 /\ ResetDeBounce_Counter = Threshold
                        THEN 1 ELSE Reset_Flag
  /\ ResetDeBounce_Counter' = IF resetPin = 0 /\ Reset_Flag = 0
                              THEN Increment(ResetDeBounce_Counter)
                              ELSE IF resetPin = 1 THEN ResetDeBounce_Counter ELSE 0

ResetButton ==
  /\ Reset_Flag' = IF resetPin = 1 THEN 0
                   ELSE IF Reset_Flag = 0 /\ ResetDeBounce_Counter = Threshold
                        THEN 1 ELSE Reset_Flag
  /\ ResetDeBounce_Counter' = IF resetPin = 0 /\ Reset_Flag = 0
                              THEN Increment(ResetDeBounce_Counter) ELSE 0

\* Counting up to Threshold + 1 is enough to tell whether a wait was respected.
More(k) == IF k > Threshold THEN k ELSE k + 1

Measure ==
  /\ low' = [c \in Channels |-> IF Flag[c] = 0 THEN More(low[c]) ELSE 0]
  /\ steady' = [c \in Channels |-> IF Reset_Activated = 0 THEN steady[c]
                                   ELSE IF pin[c] = 1 THEN More(steady[c]) ELSE 0]
  /\ pressed' = IF resetPin = 0 THEN More(pressed) ELSE 0

DebouncerTick ==
  /\ Switches /\ ResetButton /\ Measure
  /\ pin' \in [Channels -> Bit] /\ resetPin' \in Bit

DebouncerSpec == DebouncerInit /\ [][DebouncerTick]_debouncerVars

\* The oscillator never stops; the pins need not move.
FairDebouncerSpec ==
  DebouncerSpec /\ WF_debouncerVars(UNCHANGED <<pin, resetPin>> /\ DebouncerTick)
-----------------------------------------------------------------------------
DebouncerTypeOK ==
  /\ pin \in [Channels -> Bit] /\ Flag \in [Channels -> Bit]
  /\ DeBounce_Counter \in [Channels -> 0..(Modulus - 1)]
  /\ {resetPin, Reset_Flag} \subseteq Bit
  /\ ResetDeBounce_Counter \in 0..(Modulus - 1)
  /\ \A h \in {low, steady} : h \in [Channels -> 0..(Threshold + 1)]
  /\ pressed \in 0..(Threshold + 1)

\* Once down, a debounced switch stays down for more than Threshold ticks,
\* 160 microseconds on the board, whatever the pin does and however resets cut
\* the wait short: a reset does not clear the counter (DeBouncer.v:65), but a
\* flag that was up had left it at 0 or beyond the threshold.  On this pause
\* the screen shot program relies to see every release of the switch.
LowPulseIsLong ==
  [][\A c \in Channels : Flag[c] < Flag'[c] => low'[c] > Threshold]_debouncerVars

\* The system is only reset after a full wait with the button pressed.
ResetIsDebounced ==
  [][Reset_Flag < Reset_Flag' => pressed' > Threshold]_debouncerVars

\* A switch that stays up is seen, even if a reset dropped its flag in the tick
\* after it rose and left the counter beyond the threshold it is compared with:
\* the count then wraps around (DeBouncer.v:71).
HeldSwitchIsSeen ==
  \A c \in Channels : <>[](pin[c] = 1 /\ Reset_Flag = 0) => <>[](Flag[c] = 1)

\* A switch is only taken for up after its pin was found up in a full wait of
\* consecutive ticks.  The ticks of a reset count neither way: a pin that went
\* down during one only is not found down, as the counter is kept.
RiseIsSettled ==
  [][\A c \in Channels : Flag[c] < Flag'[c] => steady'[c] > Threshold]_debouncerVars
=============================================================================
