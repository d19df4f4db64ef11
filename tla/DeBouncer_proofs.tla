--------------------------- MODULE DeBouncer_proofs ---------------------------
(***************************************************************************)
(* Proofs about the debouncer, for any set of switches, any threshold and  *)
(* any counter wide enough to exceed it.                                   *)
(***************************************************************************)
EXTENDS DeBouncer, TLAPS

\* A flag that is up has stopped its counter; below the threshold, a counter
\* never runs ahead of the time its flag has been down, nor of the time its pin
\* was found up.
CounterInv ==
  \A c \in Channels :
    /\ Flag[c] = 1 => DeBounce_Counter[c] \in {0, Threshold + 1}
    /\ Flag[c] = 0 /\ DeBounce_Counter[c] <= Threshold =>
         low[c] >= DeBounce_Counter[c] /\ steady[c] >= DeBounce_Counter[c]

\* The same for the reset button, whose counter no reset interrupts.
ResetInv ==
  /\ Reset_Flag = 1 => ResetDeBounce_Counter \in {0, Threshold + 1}
  /\ Reset_Flag = 0 => ResetDeBounce_Counter <= Threshold /\ pressed >= ResetDeBounce_Counter

DebouncerInv == DebouncerTypeOK /\ CounterInv /\ ResetInv

\* A saturating count stays in its range and moves on until it is full.
LEMMA MoreCounts ==
  ASSUME NEW k \in 0..(Threshold + 1)
  PROVE  /\ More(k) \in 0..(Threshold + 1)
         /\ \A n \in 0..Threshold : k >= n => More(k) >= n + 1
BY CounterAssumption DEF More

\* The counter stays within its width.
LEMMA IncrementIsTyped ==
  ASSUME NEW k \in 0..(Modulus - 1)
  PROVE  /\ Increment(k) \in 0..(Modulus - 1)
         /\ k <= Threshold => Increment(k) = k + 1
         /\ k > Threshold => Increment(k) = 0 \/ Increment(k) > Threshold + 1
BY CounterAssumption DEF Increment

\* One tick of one switch, whatever its pin and the reset are.
LEMMA ChannelStep ==
  ASSUME DebouncerInv, DebouncerTick, NEW c \in Channels
  PROVE  /\ Flag'[c] \in Bit
         /\ DeBounce_Counter'[c] \in 0..(Modulus - 1)
         /\ low'[c] \in 0..(Threshold + 1) /\ steady'[c] \in 0..(Threshold + 1)
         /\ Flag'[c] = 1 => DeBounce_Counter'[c] \in {0, Threshold + 1}
         /\ Flag'[c] = 0 /\ DeBounce_Counter'[c] <= Threshold
              => low'[c] >= DeBounce_Counter'[c] /\ steady'[c] >= DeBounce_Counter'[c]
         /\ Flag[c] < Flag'[c] => low'[c] > Threshold /\ steady'[c] > Threshold
<1> DEFINE k == DeBounce_Counter[c]
<1>1. /\ Flag[c] \in Bit /\ pin[c] \in Bit /\ Reset_Activated \in Bit
      /\ k \in 0..(Modulus - 1) /\ low[c] \in 0..(Threshold + 1)
      /\ steady[c] \in 0..(Threshold + 1)
      /\ Flag[c] = 1 => k \in {0, Threshold + 1}
      /\ Flag[c] = 0 /\ k <= Threshold => low[c] >= k /\ steady[c] >= k
  BY DEF DebouncerInv, DebouncerTypeOK, CounterInv, Reset_Activated, Bit
<1>2. /\ Flag'[c] = NextFlag(c)
      /\ DeBounce_Counter'[c] = NextCounter(c)
      /\ low'[c] = IF Flag[c] = 0 THEN More(low[c]) ELSE 0
      /\ steady'[c] = IF Reset_Activated = 0 THEN steady[c]
                      ELSE IF pin[c] = 1 THEN More(steady[c]) ELSE 0
  BY DEF DebouncerTick, Switches, Measure
<1>3. /\ More(low[c]) \in 0..(Threshold + 1)
      /\ More(steady[c]) \in 0..(Threshold + 1)
      /\ \A n \in 0..Threshold :
           /\ low[c] >= n => More(low[c]) >= n + 1
           /\ steady[c] >= n => More(steady[c]) >= n + 1
  BY <1>1, MoreCounts
<1>4. /\ Increment(k) \in 0..(Modulus - 1)
      /\ k <= Threshold => Increment(k) = k + 1
      /\ k > Threshold => Increment(k) = 0 \/ Increment(k) > Threshold + 1
  BY <1>1, IncrementIsTyped
<1>5. CASE Reset_Activated = 0
  BY <1>1, <1>2, <1>3, <1>5, CounterAssumption DEF NextFlag, NextCounter, Bit
<1>6. CASE Reset_Activated = 1 /\ pin[c] = 0
  BY <1>1, <1>2, <1>3, <1>6, CounterAssumption DEF NextFlag, NextCounter, Bit
<1>7. CASE Reset_Activated = 1 /\ pin[c] = 1 /\ Flag[c] = 1
  BY <1>1, <1>2, <1>3, <1>7, CounterAssumption DEF NextFlag, NextCounter, Bit
<1>8. CASE Reset_Activated = 1 /\ pin[c] = 1 /\ Flag[c] = 0
  <2>1. /\ NextCounter(c) = Increment(k)
        /\ low'[c] = More(low[c]) /\ steady'[c] = More(steady[c])
    BY <1>2, <1>8 DEF NextCounter
  <2>2. CASE k = Threshold
    BY <1>1, <1>2, <1>3, <1>4, <1>8, <2>1, <2>2, CounterAssumption DEF NextFlag, Bit
  <2>3. CASE k # Threshold
    <3>1. NextFlag(c) = 0
      BY <1>8, <2>3 DEF NextFlag
    <3>2. QED BY <1>1, <1>2, <1>3, <1>4, <1>8, <2>1, <2>3, <3>1, CounterAssumption DEF Bit
  <2>4. QED BY <2>2, <2>3
<1>9. QED BY <1>1, <1>5, <1>6, <1>7, <1>8 DEF Bit

\* One tick of the reset button.
LEMMA ButtonStep ==
  ASSUME DebouncerInv, DebouncerTick
  PROVE  /\ {resetPin', Reset_Flag'} \subseteq Bit
         /\ ResetDeBounce_Counter' \in 0..(Modulus - 1)
         /\ pressed' \in 0..(Threshold + 1)
         /\ ResetInv'
         /\ Reset_Flag < Reset_Flag' => pressed' > Threshold
<1> USE CounterAssumption
    DEF DebouncerInv, DebouncerTypeOK, ResetInv, Bit, Increment, More
<1>1. resetPin' \in Bit
  BY DEF DebouncerTick
<1>2. CASE resetPin = 1
  BY <1>1, <1>2 DEF DebouncerTick, ResetButton, Measure
<1>3. CASE resetPin = 0
  BY <1>1, <1>3 DEF DebouncerTick, ResetButton, Measure
<1>4. QED BY <1>2, <1>3

LEMMA TickKeepsDebouncer ==
  ASSUME DebouncerInv, DebouncerTick
  PROVE  DebouncerInv'
<1>1. DebouncerTypeOK'
  <2>1. Flag' \in [Channels -> Bit]
    BY ChannelStep DEF DebouncerTick, Switches
  <2>2. DeBounce_Counter' \in [Channels -> 0..(Modulus - 1)]
    BY ChannelStep DEF DebouncerTick, Switches
  <2>3. low' \in [Channels -> 0..(Threshold + 1)]
    BY ChannelStep DEF DebouncerTick, Measure
  <2>4. steady' \in [Channels -> 0..(Threshold + 1)]
    BY ChannelStep DEF DebouncerTick, Measure
  <2>5. pin' \in [Channels -> Bit]
    BY DEF DebouncerTick
  <2>6. QED BY <2>1, <2>2, <2>3, <2>4, <2>5, ButtonStep DEF DebouncerTypeOK
<1>2. CounterInv'
  BY ChannelStep DEF CounterInv
<1>3. QED BY <1>1, <1>2, ButtonStep DEF DebouncerInv

\* The invariant the waits rest on.
THEOREM DebouncerInvariant == DebouncerSpec => []DebouncerInv
<1>1. DebouncerInit => DebouncerInv
  BY CounterAssumption
  DEF DebouncerInit, DebouncerInv, DebouncerTypeOK, CounterInv, ResetInv, Bit
<1>2. DebouncerInv /\ [DebouncerTick]_debouncerVars => DebouncerInv'
  <2>1. CASE DebouncerTick
    BY <2>1, TickKeepsDebouncer
  <2>2. CASE UNCHANGED debouncerVars
    BY <2>2 DEF debouncerVars, registers, histories, DebouncerInv,
       DebouncerTypeOK, CounterInv, ResetInv
  <2>3. QED BY <2>1, <2>2
<1>3. QED BY <1>1, <1>2, PTL DEF DebouncerSpec

\* The registers stay in their ranges.
THEOREM DebouncerTypeCorrect == DebouncerSpec => []DebouncerTypeOK
BY DebouncerInvariant, PTL DEF DebouncerInv

\* A debounced switch that fell stays down for a full wait, across resets.
THEOREM LowPulsesAreLong == DebouncerSpec => LowPulseIsLong
<1>1. DebouncerInv /\ [DebouncerTick]_debouncerVars
        => [\A c \in Channels : Flag[c] < Flag'[c] => low'[c] > Threshold]_debouncerVars
  BY ChannelStep
<1>2. QED BY <1>1, DebouncerInvariant, PTL DEF DebouncerSpec, LowPulseIsLong

\* A debounced switch rises after a full wait with its pin up.
THEOREM RisesAreSettled == DebouncerSpec => RiseIsSettled
<1>1. DebouncerInv /\ [DebouncerTick]_debouncerVars
        => [\A c \in Channels : Flag[c] < Flag'[c] => steady'[c] > Threshold]_debouncerVars
  BY ChannelStep
<1>2. QED BY <1>1, DebouncerInvariant, PTL DEF DebouncerSpec, RiseIsSettled

\* Nothing is reset before the button was pressed for a full wait.
THEOREM ResetsAreDebounced == DebouncerSpec => ResetIsDebounced
<1>1. DebouncerInv /\ [DebouncerTick]_debouncerVars
        => [Reset_Flag < Reset_Flag' => pressed' > Threshold]_debouncerVars
  BY ButtonStep
<1>2. QED BY <1>1, DebouncerInvariant, PTL DEF DebouncerSpec, ResetIsDebounced
=============================================================================
