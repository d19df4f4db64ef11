------------------------------ MODULE ScreenShot ------------------------------
(***************************************************************************)
(* The screen shot path of Top.v: the writer, the SRAM and the Nios II     *)
(* program, connected by WriteFinish_Flag, Nios_Finish_Reading_Flag and    *)
(* the shared address and data pins.  The processor runs between the edges *)
(* of Main_CLK at any speed.  The raster is free here: the frame pulses    *)
(* and Blank_N may take any value at any edge, so that what holds does not *)
(* depend on the picture's timing (CaptureFrame has the real one).         *)
(***************************************************************************)
EXTENDS SRAM_Control, Nios_Screen_Reader

CONSTANTS
  Users,         \* what the users keep to, of "holds" and "prompt" below
  MaxShots,      \* bound: how often the switch is raised
  MaxResets      \* bound: how often the reset is asserted

VARIABLES user, shots, resets

shotVars == <<Reset, wires, writerRegs, readerVars, user, shots, resets>>

\* The user keeps the switch up until the shot is read; the switch is raised
\* again only after the program has withdrawn its response.
HoldsSwitch == "holds" \in user
PromptReader == "prompt" \in user

Pixel == <<"pixel">>
Word == {Zero, Unwritten, Floating, Half(Pixel, "RG"), Half(Pixel, "B")}
-----------------------------------------------------------------------------
ShotInit ==
  /\ Reset = 1 /\ ScreenCapture = 0
  /\ WriterInit /\ ReaderInit
  /\ user \in Users
  /\ shots = 0 /\ resets = 0

\* The debounced switch; the debouncer drops it one cycle into a reset.
Switch ==
  /\ ScreenCapture' \in (IF Reset = 0 THEN {0} ELSE Bit)
  /\ ScreenCapture < ScreenCapture' =>
       shots < MaxShots /\ (PromptReader => Nios_Finish_Reading_Flag = 0)
  /\ ScreenCapture > ScreenCapture' /\ HoldsSwitch =>
       Nios_Finish_Reading_Flag = 1 \/ Reset = 0
  /\ shots' = IF ScreenCapture < ScreenCapture' THEN shots + 1 ELSE shots

ResetInput ==
  /\ Reset' \in Bit
  /\ resets' = IF Reset = 1 /\ Reset' = 0 THEN resets + 1 ELSE resets
  /\ resets' <= MaxResets

\* One Main_CLK edge.  A reset takes the processor with it.
Clock ==
  /\ ResetInput /\ Switch
  /\ \E blank_n \in Bit, start \in Bit, finish \in Bit :
       /\ start + finish < 2
       /\ WriterStep(blank_n, FALSE, Pixel, start, finish)
  /\ IF Reset' = 0 THEN ReaderReset ELSE UNCHANGED readerVars

Processor ==
  /\ Reset = 1
  /\ ReaderStep(BusWord(Read_Address))
  /\ UNCHANGED <<Reset, ScreenCapture, WriteFinish_Flag, writerRegs, shots, resets>>

ShotNext == (Clock \/ Processor) /\ UNCHANGED user

ShotSpec == ShotInit /\ [][ShotNext]_shotVars

UserIdle == UNCHANGED Reset /\ (Reset = 1 => UNCHANGED ScreenCapture)

\* The oscillator never stops and the processor keeps executing its loop; the
\* user need not move anything.
FairShotSpec ==
  /\ ShotSpec
  /\ WF_shotVars(UserIdle /\ Clock /\ UNCHANGED user)
  /\ WF_shotVars(Processor /\ UNCHANGED user)
-----------------------------------------------------------------------------
\* The registers of the two sides stay in their ranges.
ShotTypeOK ==
  /\ {Reset, ScreenCapture, WriteFinish_Flag, Nios_Finish_Reading_Flag,
      StartFlagDetected, IgniteAddressing, Data_Vaild_Flag,
      Event_Register, Response_Register} \subseteq Bit
  /\ Pixel_Address \in 0..LastWord /\ SRAM \in [0..LastWord -> Word]
  /\ {Data, Read_Data} \subseteq Word /\ file \in Seq(Word)
  /\ Address \in 1..LastWord /\ Read_Address \in 0..(LastWord - 1)
  /\ pScreenFile \in {"null", "open", "closed"} /\ openFiles \in 0..MaxFiles
  /\ pc \in {"poll", "open", "branch", "data", "progress", "print", "respond",
             "rewind", "close", "crashed"}

\* Mutual exclusion on the chip: while the program is reading a word, or has
\* decided to on the strength of an Event_Register it read earlier, the writer
\* has finished and stays finished, however the switch moves (main.c:39).
ReaderExcludesWriter ==
  /\ Reading => WriteFinish_Flag = 1
  /\ pc = "branch" /\ Event_Register = 1 /\ Response_Register = 0 => WriteFinish_Flag = 1

\* What the program has printed of the shot is, word for word, what the chip
\* holds, and no word is skipped or read twice, when the user holds the switch
\* until the shot is read and waits for the response to be withdrawn.
FileIsTheShot ==
  HoldsSwitch /\ PromptReader /\ Reading /\ pScreenFile = "open" =>
    /\ Len(file) = Address - 1
    /\ \A i \in 1..Len(file) : file[i] = SRAM[i]

\* The file that fclose left dangling is never printed to: a new shot is only
\* read after the pointer was dropped and the file opened again.
NoPrintAfterClose == pc = "print" => pScreenFile # "closed"

\* The address pins carry the word the program is about to fetch.
FetchesItsAddress == pc = "data" => Read_Address = Address /\ Address < LastWord

\* A finished shot finds the program ready for it: an acknowledgement left
\* from the shot before would pass for that of the new one, which would never
\* be read (main.c:39 asks for Response_Register = 0, cleared only at main.c:66).
\* That needs a user who waits for it.
NewShotIsNoticed ==
  [][PromptReader /\ WriteFinish_Flag < WriteFinish_Flag' =>
       Nios_Finish_Reading_Flag = 0]_shotVars

\* A finished shot that no response is up for is read to its last word, every
\* word printed if the file is open, and only then answered, unless a reset
\* discards it or printing to NULL stops the program (main.c:39-55).  A response
\* left from the shot before counts neither as its answer nor as its reading;
\* by NewShotIsNoticed a prompt user never finds one.
ShotIsAnswered ==
  WriteFinish_Flag = 1 /\ Nios_Finish_Reading_Flag = 0 ~>
    \/ /\ pc = "rewind" /\ Address = LastWord /\ Nios_Finish_Reading_Flag = 1
       /\ pScreenFile = "open" => Len(file) = LastWord - 1
    \/ pc = "crashed" \/ Reset = 0

\* Pixel data is printed to a file that fopen did open (main.c:32).
FileIsOpenToPrint == pc = "print" => pScreenFile = "open"
=============================================================================
