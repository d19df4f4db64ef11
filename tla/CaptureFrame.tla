----------------------------- MODULE CaptureFrame -----------------------------
(***************************************************************************)
(* The raster generator and the screen shot writer together, as Top.v      *)
(* connects them, under any use of the capture switch and of the reset.    *)
(* The pixels shown are told apart by the frame they belong to (frame is a *)
(* parity, a history variable) and their place, so that the SRAM shows     *)
(* what it holds a picture of.  The reader is an environment: it announces *)
(* the end of its reading only after a finished write, as main.c does.     *)
(***************************************************************************)
EXTENDS VGA_Controls, SRAM_Control

CONSTANTS
  BarColumns, BarRows,  \* 516..624 and 381..424, where Data is black
  MaxShots,             \* bound: how often the switch is raised
  MaxResets,            \* bound: how often the reset is asserted
  PromptReader          \* the reader withdraws its flag before the switch
                        \* is raised again

ASSUME CaptureAssumption == LastWord = 2 * Width * Height - 1

VARIABLES Pixel_Data, frame, shots, resets

captureVars == <<vgaVars, wires, writerRegs, Pixel_Data, frame, shots, resets>>

OffScreen == <<"off screen">>
Black     == <<"black">>
Pixel(f, v, h) == <<f, v, h>>
-----------------------------------------------------------------------------
CaptureInit ==
  /\ VGAInit /\ WriterInit
  /\ ScreenCapture = 0 /\ Nios_Finish_Reading_Flag = 0
  /\ Pixel_Data = OffScreen
  /\ frame = 0 /\ shots = 0 /\ resets = 0

\* Red, Green and Blue of GUI.v, registered on the pixel clock.
Draw ==
  IF PixelEdge
  THEN \E r \in ResetSeen :
         Pixel_Data' = IF r = 0 THEN Black
                       ELSE IF HVisible /\ VVisible THEN Pixel(frame, V_Pixel, H_Pixel)
                       ELSE OffScreen
  ELSE UNCHANGED Pixel_Data

NextFrame == frame' = IF V_Counter' = 0 /\ V_Counter # 0 THEN 1 - frame ELSE frame

Resetting == resets' = IF Reset = 1 /\ Reset' = 0 THEN resets + 1 ELSE resets

\* The debouncer drops the switch one cycle into a reset.
Switch ==
  /\ ScreenCapture' \in (IF Reset = 0 THEN {0} ELSE Bit)
  /\ ScreenCapture < ScreenCapture' =>
       shots < MaxShots /\ (PromptReader => Nios_Finish_Reading_Flag = 0)
  /\ shots' = IF ScreenCapture < ScreenCapture' THEN shots + 1 ELSE shots

Reader ==
  /\ Nios_Finish_Reading_Flag' \in (IF Reset' = 0 THEN {0} ELSE Bit)
  /\ Nios_Finish_Reading_Flag < Nios_Finish_Reading_Flag' => WriteFinish_Flag = 1
  /\ Nios_Finish_Reading_Flag > Nios_Finish_Reading_Flag' =>
       WriteFinish_Flag = 0 \/ Reset' = 0

CaptureTick ==
  /\ Tick /\ Resetting /\ resets' <= MaxResets
  /\ Switch /\ Reader
  /\ Draw /\ NextFrame
  /\ WriterStep(Blank_N, H_Pixel \in BarColumns /\ V_Pixel \in BarRows, Pixel_Data,
                ScreenActiveStart_Flag', ScreenActiveFinish_Flag')

CaptureSpec == CaptureInit /\ [][CaptureTick]_captureVars

\* The oscillator never stops; switch, reset and reader need not move.
FairCaptureSpec ==
  /\ CaptureSpec
  /\ WF_captureVars(UNCHANGED <<Reset, ScreenCapture, Nios_Finish_Reading_Flag>> /\ CaptureTick)
-----------------------------------------------------------------------------
\* What word 2p + 1 (red and green) or 2p + 2 (blue) should hold of frame f.
PixelWord(f, p, part) ==
  LET row == p \div Width
      col == p % Width
  IN IF col + 1 \in BarColumns /\ row \in BarRows
     THEN Zero ELSE Half(Pixel(f, row, col), part)

HoldsRedGreen(f, p) == SRAM[2 * p + 1] = PixelWord(f, p, "RG")
HoldsBlue(f, p)     == SRAM[2 * p + 2] = PixelWord(f, p, "B")
RightEdge(p) == p % Width = Width - 1
LastStored == Width * Height - 3

\* A finished shot is one picture: every word the writer fills properly comes
\* from the same frame, at its own place, although the address register counts
\* pixels of its own accord, two words to a pixel, and was started, abandoned
\* or reset at any point of an earlier frame.  Left out are the blue words of
\* the right edge and the last pixels.
ShotIsOneFrame ==
  WriteFinish_Flag = 1 =>
    \E f \in Bit : \A p \in 0..LastStored :
      HoldsRedGreen(f, p) /\ (~RightEdge(p) => HoldsBlue(f, p))

\* From the moment the reader is told the shot is finished, the chip keeps it.
FinishedShotIsStable ==
  [][WriteFinish_Flag = 1 => UNCHANGED SRAM]_captureVars

\* A switch that stays up gets its shot, at whatever point of a frame it was
\* raised and whatever earlier shots and resets left in the latches.
ShotFinishes ==
  <>[](ScreenCapture = 1 /\ Reset = 1) => <>[](WriteFinish_Flag = 1)
=============================================================================
