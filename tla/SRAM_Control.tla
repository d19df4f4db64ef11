----------------------------- MODULE SRAM_Control -----------------------------
(***************************************************************************)
(* The screen shot writer, SRAM_Control.v, with the data bus register of   *)
(* Top.v and the SRAM chip behind it.  One step is one rising edge of      *)
(* Main_CLK and the interval up to the next one: the registers read what   *)
(* the edge found, the two transparent latches the synthesis infers        *)
(* (StartFlagDetected and IgniteAddressing, output_files/Top.map.rpt:1715) *)
(* then settle on the new inputs, and while WE_N is low the chip stores    *)
(* the bus in the addressed word.                                          *)
(*                                                                         *)
(* A pixel is an abstract value; a word is one half of a pixel, or Zero.   *)
(***************************************************************************)
EXTENDS CaptureWires

VARIABLES
  Pixel_Address, Data,                  \* Main_CLK registers
  StartFlagDetected, IgniteAddressing,  \* latches
  Data_Vaild_Flag,                      \* SRAM_CLK register: one mask bit
  SRAM                                  \* the chip, a word for each address

writerRegs == <<Pixel_Address, Data, StartFlagDetected, IgniteAddressing,
                Data_Vaild_Flag, SRAM>>

Unwritten == <<"unwritten">>
Floating  == <<"floating">>    \* the bus with the chip deselected
Half(pixel, part) == <<pixel, part>>
-----------------------------------------------------------------------------
WriterInit ==
  /\ Pixel_Address = 0 /\ WriteFinish_Flag = 0 /\ Data = Zero
  /\ StartFlagDetected = 0 /\ IgniteAddressing = 0 /\ Data_Vaild_Flag = 0
  /\ SRAM = [a \in 0..LastWord |-> Unwritten]

\* A mutant of Writing: the chip is written as long as the switch is up.
WritingOn == ScreenCapture = 1

\* WE_N low.
Writing == ScreenCapture = 1 /\ WriteFinish_Flag = 0

\* "Specify writing range to be exactly filling the whole screen"
Enable_Write_Address(blank_n) == StartFlagDetected = 1 /\ blank_n = 1

LastWordReached == Pixel_Address = LastWord

\* The control block, without its reset branch.
AdvanceAddress(blank_n) ==
  /\ Writing
  /\ IF LastWordReached
     THEN WriteFinish_Flag' = 1 /\ Pixel_Address' = 0
     ELSE /\ WriteFinish_Flag' = 0
          /\ Pixel_Address' = IF Enable_Write_Address(blank_n) /\ IgniteAddressing = 1
                              THEN Pixel_Address + 1 ELSE Pixel_Address

\* Mutants of Release: without asking the reader, and without the switch.
ReleaseUnread ==
  /\ ScreenCapture = 0
  /\ WriteFinish_Flag' = 0
  /\ UNCHANGED Pixel_Address

ReleaseAtOnce ==
  /\ Nios_Finish_Reading_Flag = 1
  /\ WriteFinish_Flag' = 0
  /\ UNCHANGED Pixel_Address

\* The shot was read: the flag falls, the address keeps its value.
Release ==
  /\ ScreenCapture = 0 /\ Nios_Finish_Reading_Flag = 1
  /\ WriteFinish_Flag' = 0
  /\ UNCHANGED Pixel_Address

\* A mutant of Rest: an abandoned shot keeps its address.
RestWithAddress ==
  /\ ~Writing /\ ~(ScreenCapture = 0 /\ Nios_Finish_Reading_Flag = 1)
  /\ UNCHANGED <<Pixel_Address, WriteFinish_Flag>>

Rest ==
  /\ ~Writing /\ ~(ScreenCapture = 0 /\ Nios_Finish_Reading_Flag = 1)
  /\ Pixel_Address' = 0
  /\ UNCHANGED WriteFinish_Flag

WriteControl(blank_n) ==
  IF Reset = 0
  THEN Pixel_Address' = 0 /\ WriteFinish_Flag' = 0
  ELSE AdvanceAddress(blank_n) \/ Release \/ Rest

\* Even addresses take red and green, odd ones blue; the loading bar is black.
DataChunk(onBar, pixel) ==
  Data' = IF Reset = 0 \/ onBar THEN Zero
          ELSE IF Pixel_Address % 2 = 0 THEN Half(pixel, "RG") ELSE Half(pixel, "B")

\* A mutant of Latches: the range is opened by the last pixel, closed by the first.
LatchesSwapped(start, finish) ==
  /\ StartFlagDetected' = CASE Reset' = 0 -> 0
                            [] Reset' = 1 /\ start = 1 -> 0
                            [] Reset' = 1 /\ start = 0 /\ finish = 1 -> 1
                            [] OTHER -> StartFlagDetected
  /\ IgniteAddressing' = IF ScreenCapture' = 0 \/ finish = 1 THEN 0
                         ELSE IF start = 1 THEN 1 ELSE IgniteAddressing

\* The latches, settled on the frame pulses, the switch and the reset.
Latches(start, finish) ==
  /\ StartFlagDetected' = CASE Reset' = 0 -> 0
                            [] Reset' = 1 /\ start = 1 -> 1
                            [] Reset' = 1 /\ start = 0 /\ finish = 1 -> 0
                            [] OTHER -> StartFlagDetected
  /\ IgniteAddressing' = IF ScreenCapture' = 0 \/ finish = 1 THEN 0
                         ELSE IF start = 1 THEN 1 ELSE IgniteAddressing

(***************************************************************************)
(* SRAM_CLK rises with Main_CLK and once more in between.  At the second   *)
(* edge Top.v drives the new Data, masked by the flag as the first edge    *)
(* left it, and the flag samples the settled latch.                        *)
(***************************************************************************)
StoreWord ==
  /\ Data_Vaild_Flag' = IF Reset' = 0 THEN 0 ELSE IgniteAddressing'
  /\ SRAM' = IF Writing'
             THEN [SRAM EXCEPT ![Pixel_Address'] =
                     IF Data_Vaild_Flag = 1 THEN Data' ELSE Zero]
             ELSE SRAM

\* One Main_CLK edge: blank_n, onBar and pixel as the edge finds them, the
\* frame pulses start and finish as it leaves them.
WriterStep(blank_n, onBar, pixel, start, finish) ==
  /\ WriteControl(blank_n)
  /\ DataChunk(onBar, pixel)
  /\ Latches(start, finish)
  /\ StoreWord

\* What a reader finds on the bus: the chip answers only while CE_N is low,
\* that is while the switch is up, and at Read_Address only while the flag is.
BusWord(readAddress) ==
  IF ScreenCapture = 0 \/ Writing THEN Floating ELSE SRAM[readAddress]
=============================================================================
