----------------------------- MODULE CaptureWires -----------------------------
(***************************************************************************)
(* The wires of Top.v between the screen shot writer (SRAM_Control.v) and  *)
(* the Nios II program that streams the shot to the host (main.c).         *)
(***************************************************************************)
EXTENDS Board

\* The last word of a shot: 614399, both in SRAM_Control.v and in main.c.
CONSTANT LastWord

ASSUME LastWordAssumption == LastWord \in Nat /\ LastWord >= 3

VARIABLES
  ScreenCapture,             \* the debounced switch
  WriteFinish_Flag,          \* Event_Register[0], raised by SRAM_Control
  Nios_Finish_Reading_Flag   \* Response_Register[0], the Nios output port

\* The word of sixteen cleared bits.  Words are compared, never computed with.
Zero == <<"zero">>

wires == <<ScreenCapture, WriteFinish_Flag, Nios_Finish_Reading_Flag>>
=============================================================================
