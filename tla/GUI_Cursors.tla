------------------------------ MODULE GUI_Cursors ------------------------------
(***************************************************************************)
(* The cursors and the offset of one channel in GUI.v, and the clock that  *)
(* moves them while a push button is held.  One step is a rising edge of   *)
(* VGA_CLK, with that of Update_CLK it may cause, or a reset, during which *)
(* VGA_CLK stands still.                                                   *)
(*                                                                         *)
(* A button counts as pressed while its debounced flag is down; a reset    *)
(* drops all flags.  Flags change with Main_CLK, so a block whose edge     *)
(* coincides may find a change made or not.                                *)
(*                                                                         *)
(* The numbers of the code are constants: HalfPeriod = 499999, Period =    *)
(* 999999, TimeLow = 19, TimeHigh = 498, OffsetHigh = 196; AmpLow,         *)
(* AmpLimit and AmpHigh are 13, 227 and 228 of channel 1, and 244, 462 and *)
(* 462 of channel 2.                                                       *)
(***************************************************************************)
EXTENDS Integers

CONSTANTS
  HalfPeriod, Period, TimeLow, TimeHigh, OffsetHigh, AmpLow, AmpLimit, AmpHigh,
  MaxResets    \* bound: how many resets

ASSUME CursorAssumption ==
  /\ {HalfPeriod, Period, TimeLow, TimeHigh, OffsetHigh, AmpLow, AmpLimit,
      AmpHigh, MaxResets} \subseteq Nat
  /\ 2 * HalfPeriod < Period /\ HalfPeriod > 0
  /\ 1 <= TimeLow /\ TimeLow <= TimeHigh /\ 1 <= OffsetHigh
  /\ 1 <= AmpLow /\ AmpLow <= AmpLimit /\ AmpHigh \in {AmpLimit, AmpLimit + 1}

VARIABLES
  Updating_Counter, Update_CLK,
  Time_Cursor,        \* CH1_Right_Time_Cursor and CH1_Left_Time_Cursor
  Amplitude_Cursor,   \* CH1_Up_Amplitude_Cursor and CH1_Down_Amplitude_Cursor
  Offset,             \* CH1_Offset
  pressed,            \* the buttons whose flag is down
  since, resets       \* history: edges of one hold since the last move; resets

Button == {"Cursor_Moving_Button", "Signal_Move_Button", "Amplitude_Cursor_Moving_Button"}
Side == {"right", "left"}
End  == {"up", "down"}
Bit  == {0, 1}
Wait == 2 * HalfPeriod + 1

positions == <<Time_Cursor, Amplitude_Cursor, Offset>>
updateClock == <<Updating_Counter, Update_CLK>>
cursorVars == <<updateClock, positions, pressed, since, resets>>

\* What a block may find pressed at this edge.
MayFind == {s \in SUBSET Button : pressed \cap pressed' \subseteq s /\ s \subseteq pressed \cup pressed'}
-----------------------------------------------------------------------------
\* The flags power up down; the places of the code are inside the fields.
CursorInit ==
  /\ Updating_Counter = 0 /\ Update_CLK = 0
  /\ Time_Cursor \in [Side -> TimeLow..TimeHigh]
  /\ Amplitude_Cursor \in [End -> AmpLow..AmpLimit]
  /\ Offset = 0
  /\ pressed = Button
  /\ since = Wait /\ resets = 0

\* Mutants of Count: all buttons are asked for; the counter stays at its end.
CountAll(found) ==
  IF Updating_Counter = Period THEN 0
  ELSE IF found = Button THEN Updating_Counter + 1 ELSE Updating_Counter

CountToEnd(found) ==
  IF Updating_Counter = Period THEN Period
  ELSE IF found # {} THEN Updating_Counter + 1 ELSE Updating_Counter

Count(found) ==
  IF Updating_Counter = Period THEN 0
  ELSE IF found # {} THEN Updating_Counter + 1 ELSE Updating_Counter

\* With the buttons released at half the period, the clock toggles at each edge.
Toggle ==
  Update_CLK' = IF Updating_Counter \in {HalfPeriod, Period}
                THEN 1 - Update_CLK ELSE Update_CLK

\* A mutant of MoveTime: there is no left end.
MoveTimeLeft(x, right) == IF x > TimeHigh THEN TimeHigh ELSE IF right THEN x + 1 ELSE x - 1

\* The limits are those of the place before the move: a cursor goes one past.
MoveTime(x, right) ==
  IF x < TimeLow THEN TimeLow
  ELSE IF x > TimeHigh THEN TimeHigh
  ELSE IF right THEN x + 1 ELSE x - 1

MoveOffset(x, up) ==
  IF up THEN IF x > OffsetHigh THEN OffsetHigh ELSE x + 1
  ELSE IF x < 1 THEN 0 ELSE x - 1

MoveAmplitude(x, up) ==
  IF up THEN IF x < AmpLow THEN AmpLow ELSE x - 1
  ELSE IF x > AmpLimit THEN AmpHigh ELSE x + 1

\* What a block that looks at one button may find of it.
MayBeDown(b) == b \in pressed \cup pressed'
MayBeUp(b)   == ~(b \in pressed \cap pressed')

\* The three blocks clocked by Update_CLK, with this channel chosen.
UpdateTime(enabled) ==
  \/ /\ enabled /\ MayBeDown("Cursor_Moving_Button")
     /\ \E s \in Side, right \in BOOLEAN :
          Time_Cursor' = [Time_Cursor EXCEPT ![s] = MoveTime(@, right)]
  \/ (~enabled \/ MayBeUp("Cursor_Moving_Button")) /\ UNCHANGED Time_Cursor

UpdateOffset ==
  \/ /\ MayBeDown("Signal_Move_Button")
     /\ \E up \in BOOLEAN : Offset' = MoveOffset(Offset, up)
  \/ MayBeUp("Signal_Move_Button") /\ UNCHANGED Offset

UpdateAmplitude(enabled) ==
  \/ /\ enabled /\ MayBeDown("Amplitude_Cursor_Moving_Button")
     /\ \E e \in End, up \in BOOLEAN :
          Amplitude_Cursor' = [Amplitude_Cursor EXCEPT ![e] = MoveAmplitude(@, up)]
  \/ (~enabled \/ MayBeUp("Amplitude_Cursor_Moving_Button")) /\ UNCHANGED Amplitude_Cursor

Update ==
  \/ UNCHANGED positions      \* the other channel is chosen
  \/ \E enabled \in BOOLEAN :
       UpdateTime(enabled) /\ UpdateOffset /\ UpdateAmplitude(enabled)

PixelClockEdge ==
  /\ pressed' \in SUBSET Button
  /\ Updating_Counter' \in {Count(found) : found \in MayFind}
  /\ Toggle
  /\ IF Update_CLK = 0 /\ Update_CLK' = 1 THEN Update ELSE UNCHANGED positions
  /\ since' = IF pressed \cap pressed' = {} THEN Wait
              ELSE IF positions' # positions THEN 0
              ELSE IF since < Wait THEN since + 1 ELSE since
  /\ UNCHANGED resets

\* The counter's own reset needs an edge of the clock that the reset stops: it
\* is taken only if one coincides.  No reset touches the positions.
ResetPulse ==
  /\ resets < MaxResets /\ resets' = resets + 1
  /\ pressed' = Button
  /\ Updating_Counter' \in {0, Updating_Counter}
  /\ UNCHANGED <<Update_CLK, positions, since>>

CursorNext == PixelClockEdge \/ ResetPulse

CursorSpec == CursorInit /\ [][CursorNext]_cursorVars

\* The pixel clock never stops for good.
FairCursorSpec == CursorSpec /\ WF_cursorVars(PixelClockEdge)
-----------------------------------------------------------------------------
\* The ranges of the registers.  The cursors and the offset overstep their limits
\* by one and come back, and never wrap around the ends of their registers,
\* although the subtractions are unsigned.
CursorTypeOK ==
  /\ Updating_Counter \in 0..Period /\ Update_CLK \in Bit
  /\ Time_Cursor \in [Side -> (TimeLow - 1)..(TimeHigh + 1)]
  /\ Amplitude_Cursor \in [End -> (AmpLow - 1)..(AmpLimit + 1)]
  /\ Offset \in 0..(OffsetHigh + 1)
  /\ pressed \subseteq Button
  /\ since \in 0..Wait /\ resets \in 0..MaxResets

\* A held button moves something at most once in the time of two half periods,
\* although Update_CLK runs at half the pixel clock while the counter rests at
\* its half (GUI.v:105), a reset may set the counter back at any time, and
\* buttons are pressed and released at any edge: a hold that begins while the
\* clock runs away moves the counter on with its first edge.
MovesAreSpaced == [][positions' # positions => since = Wait]_cursorVars

\* As long as a button is held the clock goes on, whatever resets did before.
HeldButtonUpdates ==
  \A b \in Button : <>[](b \in pressed) => []<>(Update_CLK = 0) /\ []<>(Update_CLK = 1)
=============================================================================
