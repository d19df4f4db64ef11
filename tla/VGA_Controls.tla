---------------------------- MODULE VGA_Controls ----------------------------
(***************************************************************************)
(* The raster generator, VGA_Controls.v.  One step is one rising edge of   *)
(* Main_CLK (50 MHz) together with the clocks derived from it: the pixel   *)
(* clock VGA_CLK, a register of the Main_CLK domain, clocks the horizontal *)
(* registers, and Hsync, a register of the VGA_CLK domain, clocks the      *)
(* vertical ones.  A register reads the values its own edge found.  Bits   *)
(* are 0 and 1 and every register powers up cleared.                       *)
(*                                                                         *)
(* The timing numbers of the code are constants, named after the limit     *)
(* they set; VGA_Controls.v has HSyncEnd = 94, HStart = 144, HEnd = 785,   *)
(* HLast = 799, VStart = 35, VEnd = 516 and VLast = 524.                   *)
(***************************************************************************)
EXTENDS Board

CONSTANTS HSyncEnd, HStart, HEnd, HLast, VStart, VEnd, VLast

\* Visible pixels of a line and visible lines of a frame (640 and 480).
Width  == HEnd - HStart - 1
Height == VEnd - VStart - 1

ASSUME TimingAssumption ==
  /\ {HSyncEnd, HStart, HEnd, HLast, VStart, VEnd, VLast} \subseteq Nat
  /\ HSyncEnd < HStart /\ HEnd <= HLast /\ HLast < 2048
  /\ VEnd <= VLast /\ VLast < 2048
  /\ Width >= 3 /\ Height >= 2 /\ VStart >= 1

VARIABLES
  Divider, VGA_CLK,          \* Main_CLK domain
  ScreenActiveStart_Flag, ScreenActiveFinish_Flag,
  Hsync, H_Counter, H_Pixel, Blank_N,  \* VGA_CLK domain
  Vsync, V_Counter, V_Pixel            \* Hsync domain

mainRegs == <<Divider, VGA_CLK, ScreenActiveStart_Flag, ScreenActiveFinish_Flag>>
lineRegs == <<Hsync, H_Counter, H_Pixel, Blank_N>>
frameRegs == <<Vsync, V_Counter, V_Pixel>>
vgaVars == <<Reset, mainRegs, lineRegs, frameRegs>>
-----------------------------------------------------------------------------
VGAInit ==
  /\ Reset = 1
  /\ Divider = 0 /\ VGA_CLK = 0
  /\ ScreenActiveStart_Flag = 0 /\ ScreenActiveFinish_Flag = 0
  /\ Hsync = 0 /\ H_Counter = 0 /\ H_Pixel = 0 /\ Blank_N = 0
  /\ Vsync = 0 /\ V_Counter = 0 /\ V_Pixel = 0

\* The edges of the derived clocks within this step.
PixelEdge == VGA_CLK = 0 /\ VGA_CLK' = 1
LineEdge  == Hsync = 0 /\ Hsync' = 1

\* A mutant of PixelClock: the divider sticks.
PixelClockStuck ==
  IF Reset = 0
  THEN Divider' = 0 /\ VGA_CLK' = VGA_CLK
  ELSE Divider' = Divider /\ VGA_CLK' = Divider

\* The 25 MHz pixel clock.  Under reset it keeps its level.
PixelClock ==
  IF Reset = 0
  THEN Divider' = 0 /\ VGA_CLK' = VGA_CLK
  ELSE Divider' = 1 - Divider /\ VGA_CLK' = Divider

\* Mutants: the visible range one pixel too wide, one line too early.
HVisibleWide  == HStart < H_Counter /\ H_Counter <= HEnd
VVisibleEarly == VStart <= V_Counter /\ V_Counter < VEnd

HVisible == HStart < H_Counter /\ H_Counter < HEnd
VVisible == VStart < V_Counter /\ V_Counter < VEnd

\* The last pixel of a line and the last line of a frame, blanking included.
EndOfLine  == H_Counter > HSyncEnd /\ H_Counter = HLast

\* A mutant of EndOfFrame: one line too late.
EndOfFrameLate == V_Counter > 0 /\ V_Counter = VLast + 1

EndOfFrame == V_Counter > 0 /\ V_Counter = VLast

\* The registers clocked by VGA_CLK; r is the reset level they sample.
LineBlocks(r) ==
  /\ Blank_N' = IF HVisible /\ VVisible THEN 1 ELSE 0
  /\ IF r = 0
     THEN Hsync' = 0 /\ H_Counter' = 0 /\ H_Pixel' = 0
     ELSE /\ H_Counter' = IF EndOfLine THEN 0 ELSE H_Counter + 1
          /\ Hsync' = IF H_Counter > HSyncEnd /\ ~EndOfLine THEN 1 ELSE 0
          /\ H_Pixel' = IF HVisible THEN H_Pixel + 1 ELSE 0

\* The registers clocked by Hsync; r is the reset level they sample.
FrameBlocks(r) ==
  IF r = 0
  THEN Vsync' = 0 /\ V_Counter' = 0 /\ V_Pixel' = 0
  ELSE /\ V_Counter' = IF EndOfFrame THEN 0 ELSE V_Counter + 1
       /\ Vsync' = IF V_Counter > 0 /\ ~EndOfFrame THEN 1 ELSE 0
       /\ V_Pixel' = IF VVisible THEN V_Pixel + 1 ELSE 0

\* Pulses at the first and at the last visible pixel; no reset clears them,
\* and setting one leaves the other alone.
FirstPixel == H_Counter = HStart + 1 /\ V_Counter = VStart + 1
LastPixel  == H_Pixel = Width - 1 /\ V_Pixel = Height - 1

ScreenFlags ==
  \/ /\ FirstPixel
     /\ ScreenActiveStart_Flag' = 1
     /\ UNCHANGED ScreenActiveFinish_Flag
  \/ /\ ~FirstPixel /\ LastPixel
     /\ ScreenActiveFinish_Flag' = 1
     /\ UNCHANGED ScreenActiveStart_Flag
  \/ /\ ~FirstPixel /\ ~LastPixel
     /\ ScreenActiveStart_Flag' = 0 /\ ScreenActiveFinish_Flag' = 0

Tick ==
  /\ Reset' \in Bit
  /\ PixelClock
  /\ ScreenFlags
  /\ IF PixelEdge THEN \E r \in ResetSeen : LineBlocks(r) ELSE UNCHANGED lineRegs
  /\ IF LineEdge THEN \E r \in ResetSeen : FrameBlocks(r) ELSE UNCHANGED frameRegs

VGASpec == VGAInit /\ [][Tick]_vgaVars

\* The oscillator never stops; nobody has to move the reset.
FairVGASpec == VGASpec /\ WF_vgaVars(UNCHANGED Reset /\ Tick)
-----------------------------------------------------------------------------
\* The ranges of the registers: the counters never reach the width of their
\* registers, so no increment of the code wraps.
VGATypeOK ==
  /\ {Reset, Divider, VGA_CLK, ScreenActiveStart_Flag,
      ScreenActiveFinish_Flag, Hsync, Blank_N, Vsync} \subseteq Bit
  /\ H_Counter \in 0..HLast /\ H_Pixel \in 0..Width
  /\ V_Counter \in 0..VLast /\ V_Pixel \in 0..Height

\* The pixel coordinates and both sync pulses are functions of the two raster
\* counters, although each is a register of its own, clocked in another domain
\* and cleared by its own reset: what GUI.v draws at (H_Pixel, V_Pixel) is what
\* the monitor is scanning (VGA_Controls.v blocks at 37, 61, 92 and 106).
CountersTrackRaster ==
  /\ H_Pixel = IF HStart + 1 < H_Counter /\ H_Counter <= HEnd
               THEN H_Counter - HStart - 1 ELSE 0
  /\ V_Pixel = IF VStart + 1 <= V_Counter /\ V_Counter <= VEnd
               THEN V_Counter - VStart - 1 ELSE 0
  /\ Hsync = IF H_Counter > HSyncEnd + 1 THEN 1 ELSE 0
  /\ Vsync = IF V_Counter > 1 THEN 1 ELSE 0

\* Blank_N, which the DAC and the screen shot writer take for "a visible pixel",
\* is high exactly on Width pixels of Height lines.  Only the pixel clock edge
\* at which a reset is asserted can leave it high with the line cleared.
BlankMatchesScreen ==
  H_Counter # 0 =>
    (Blank_N = 1 <=> H_Pixel \in 1..Width /\ V_Counter \in (VStart + 1)..(VEnd - 1))

\* The two frame pulses, each cleared only by the else branch of its block
\* (VGA_Controls.v:118), never overlap: a reader of both sees an order.
FlagsExclusive == ~(ScreenActiveStart_Flag = 1 /\ ScreenActiveFinish_Flag = 1)

\* An asserted reset does not restart the raster, it freezes it: no register
\* behind VGA_CLK moves while the reset lasts, because the reset also stops the
\* clock those registers would be cleared by (VGA_Controls.v:27 and 39).
ResetFreezesRaster ==
  [][Reset = 0 => UNCHANGED <<lineRegs, frameRegs>>]_vgaVars

\* With the reset released for good, frames keep coming: the first pixel pulse,
\* which arms every screen shot, recurs whatever resets came before.
FrameRecurs == <>[](Reset = 1) => []<>(ScreenActiveStart_Flag = 1)
=============================================================================
