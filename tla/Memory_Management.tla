--------------------------- MODULE Memory_Management ---------------------------
(***************************************************************************)
(* The channel buffers of Memory_Management.v: two RAMs take turns, one    *)
(* recording samples on the edges of CS, the other on display.  Vsync      *)
(* swaps them, the Pause switch stops the swapping, and Stop tells which   *)
(* of the two is to be recorded next.  One channel stands for both, the    *)
(* sample is the address of the test ROM that Test.v feeds in.             *)
(*                                                                         *)
(* A step is an edge of Vsync or of CS, or a change of the reset.  The two *)
(* edges can coincide, and WREN_RAM1 and WREN_RAM2 also switch the clock   *)
(* and the address of their RAM: what a swap does while they settle is     *)
(* left open.                                                              *)
(***************************************************************************)
EXTENDS Board

CONSTANTS
  LastSlot,             \* 15359, of a buffer
  LastSample,           \* 15359, of the test ROM
  FrameMin, FrameMax    \* edges of CS between two of Vsync: 24705 or 24706

ASSUME BufferAssumption ==
  /\ {LastSlot, LastSample, FrameMin, FrameMax} \subseteq Nat
  /\ LastSlot >= 2 /\ LastSample >= 1
  /\ LastSlot < FrameMin /\ FrameMin <= FrameMax

VARIABLES
  Pause,                           \* the switch, as Vsync last found it
  WREN_RAM1, WREN_RAM2, change_bit,
  Address_CH_write, Stop,
  RAM1, RAM2,
  count,                           \* Test.v: the sample on its way in
  edges, swaps                     \* history: edges of CS in this frame, and
                                   \* unpaused swaps since the reset, up to 2

control == <<WREN_RAM1, WREN_RAM2, change_bit, Pause>>
writing == <<Address_CH_write, Stop, count>>
memoryVars == <<Reset, control, writing, RAM1, RAM2, edges, swaps>>

Slot == 0..LastSlot
Sample == 0..LastSample
NextSample(s) == IF s = LastSample THEN 0 ELSE s + 1
-----------------------------------------------------------------------------
\* Stop powers up set: the build keeps it inverted (output_files/Top.map.rpt:3032).
MemoryInit ==
  /\ Reset = 1 /\ Pause = 0
  /\ WREN_RAM1 = 0 /\ WREN_RAM2 = 0 /\ change_bit = 0
  /\ Address_CH_write = 0 /\ Stop = 1 /\ count = 0
  /\ RAM1 = [a \in Slot |-> 0] /\ RAM2 = [a \in Slot |-> 0]
  /\ edges = FrameMin /\ swaps = 0

\* A mutant of Recording: the turn is not asked for.
RecordingAny(wren1, wren2) == wren1 = 1 \/ wren2 = 1

\* The RAM whose turn it is may be written.
Recording(wren1, wren2) == (wren1 = 1 /\ Stop = 1) \/ (wren2 = 1 /\ Stop = 0)

\* The address moves on; past the last slot the turn passes to the other RAM.
Advance(wren1, wren2) ==
  /\ count' = NextSample(count)
  /\ IF Recording(wren1, wren2)
     THEN IF Address_CH_write = LastSlot
          THEN Address_CH_write' = 0 /\ Stop' = 1 - Stop
          ELSE Address_CH_write' = Address_CH_write + 1 /\ UNCHANGED Stop
     ELSE UNCHANGED <<Address_CH_write, Stop>>

\* An edge of CS.  The write enable does not depend on the turn.
Store(ram, wren) == IF wren = 1 THEN [ram EXCEPT ![Address_CH_write] = count] ELSE ram

CSEdge ==
  /\ Reset = 1 /\ edges < FrameMax
  /\ Advance(WREN_RAM1, WREN_RAM2)
  /\ RAM1' = Store(RAM1, WREN_RAM1) /\ RAM2' = Store(RAM2, WREN_RAM2)
  /\ edges' = edges + 1
  /\ UNCHANGED <<Reset, control, swaps>>

\* A RAM enabled before or after its clock was switched may store the present
\* sample, at the write address or at that of the display, which is 0 by then.
Unsettled(ram, enabled) ==
  {ram} \cup IF enabled THEN {[ram EXCEPT ![a] = count] : a \in {Address_CH_write, 0}} ELSE {}

\* A mutant of Turn: the turns are not counted.
TurnAlways == WREN_RAM1' = 1 /\ WREN_RAM2' = 0 /\ change_bit' = 1

Turn ==
  IF change_bit = 0
  THEN WREN_RAM1' = 1 /\ WREN_RAM2' = 0 /\ change_bit' = 1
  ELSE WREN_RAM1' = 0 /\ WREN_RAM2' = 1 /\ change_bit' = 0

\* A mutant of Hold: the other RAM is left to the recording.
HoldOther == WREN_RAM1' = WREN_RAM2 /\ WREN_RAM2' = WREN_RAM1 /\ UNCHANGED change_bit

Hold == WREN_RAM1' = 0 /\ WREN_RAM2' = 1 /\ UNCHANGED change_bit

\* An edge of Vsync, perhaps with one of CS that sees the enables in either state.
Swap ==
  /\ Reset = 1 /\ edges >= FrameMin
  /\ Pause' \in Bit
  /\ IF Pause' = 0 THEN Turn ELSE Hold
  /\ \/ UNCHANGED writing
     \/ Advance(WREN_RAM1, WREN_RAM2)
     \/ Advance(WREN_RAM1', WREN_RAM2')
  /\ RAM1' \in Unsettled(RAM1, 1 \in {WREN_RAM1, WREN_RAM1'})
  /\ RAM2' \in Unsettled(RAM2, 1 \in {WREN_RAM2, WREN_RAM2'})
  /\ edges' = 0
  /\ swaps' = IF Pause' = 0 /\ swaps < 2 THEN swaps + 1 ELSE swaps
  /\ UNCHANGED Reset

\* The asynchronous reset.  It also freezes the raster wherever it is, so that
\* the next Vsync may come at once after it.
AssertReset ==
  /\ Reset = 1 /\ Reset' = 0
  /\ WREN_RAM1' = 0 /\ WREN_RAM2' = 0 /\ change_bit' = 0
  /\ Address_CH_write' = 0 /\ Stop' = 1
  /\ RAM1' \in Unsettled(RAM1, WREN_RAM1 = 1)
  /\ RAM2' \in Unsettled(RAM2, WREN_RAM2 = 1)
  /\ edges' = FrameMin /\ swaps' = 0
  /\ UNCHANGED <<Pause, count>>

ReleaseReset ==
  /\ Reset = 0 /\ Reset' = 1
  /\ UNCHANGED <<control, writing, RAM1, RAM2, edges, swaps>>

MemoryNext == CSEdge \/ Swap \/ AssertReset \/ ReleaseReset

MemorySpec == MemoryInit /\ [][MemoryNext]_memoryVars

\* The converter and the raster never stop.
FairMemorySpec == MemorySpec /\ WF_memoryVars(CSEdge) /\ WF_memoryVars(Swap)
-----------------------------------------------------------------------------
\* The buffer on display.
Shown == IF WREN_RAM2 = 1 THEN RAM1 ELSE RAM2

\* What is on display is one recording: consecutive samples, none missing and
\* none of an older recording, from the second swap after a reset on, however
\* the Pause switch is used.  Slot 0 is left out: the write enable stays up when
\* the buffer is full, and the address is back at 0.
ShownIsARecording ==
  swaps = 2 => \A a \in 1..(LastSlot - 1) : Shown[a + 1] = NextSample(Shown[a])

\* Paused, the display stands still although the other buffer is recorded.
PauseFreezes ==
  [][Pause = 1 /\ Pause' = 1 /\ Reset = 1 /\ Reset' = 1 /\ swaps > 0
       => Shown' = Shown]_memoryVars

\* Whatever pauses and resets did to change_bit, which follows Vsync, and to
\* Stop, which follows CS, the two fall in step again: the buffers go on taking
\* turns.
TurnsGoOn ==
  <>[](Reset = 1 /\ Pause = 0) => []<>(Stop = 1) /\ []<>(Stop = 0)
=============================================================================
