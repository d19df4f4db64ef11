-------------------------- MODULE Nios_Screen_Reader --------------------------
(***************************************************************************)
(* The Nios II program, Software/NiosII_Screen_Reader/main.c, with its     *)
(* output ports and what it sees of the host file system.  An action is    *)
(* one port access or one library call of the loop body; Response_Register *)
(* and its port, the wire Nios_Finish_Reading_Flag, are written together.  *)
(*                                                                         *)
(* A file is the sequence of words printed to it.  fopen truncates it and  *)
(* needs a free descriptor of the pool (alt_get_fd.c); fclose gives the    *)
(* descriptor back, losing the pointer does not.  Printing to the NULL     *)
(* that a failed fopen left is undefined: the line is lost, or the program *)
(* stops.                                                                  *)
(***************************************************************************)
EXTENDS CaptureWires, Sequences

CONSTANT MaxFiles   \* descriptors left by stdin, stdout and stderr: 29

ASSUME FilesAssumption == MaxFiles \in Nat \ {0}

VARIABLES
  pc,
  Event_Register, Response_Register, Address, Read_Data, Loading_Percentage,
  pScreenFile,            \* "null", "open", or "closed": left dangling by fclose
  Read_Address, Loading,  \* the output ports
  openFiles,              \* descriptors taken from the pool
  file                    \* ScreenShot.txt on the host

program == <<pc, Event_Register, Response_Register, Address, Read_Data,
             Loading_Percentage, pScreenFile>>
ports == <<Read_Address, Loading>>
host  == <<openFiles, file>>
readerVars == <<program, ports, host, Nios_Finish_Reading_Flag>>
-----------------------------------------------------------------------------
ReaderInit ==
  /\ pc = "poll" /\ pScreenFile = "null"
  /\ Event_Register = 0 /\ Response_Register = 0 /\ Read_Data = Zero
  /\ Address = 1 /\ Loading_Percentage = 0
  /\ Read_Address = 0 /\ Loading = 0 /\ Nios_Finish_Reading_Flag = 0
  /\ openFiles = 0 /\ file = << >>

\* A reset restarts the processor at the head of main and clears its ports.
\* The file stays; the descriptor table is initialised data, which a restart
\* may find as it was.
ReaderReset ==
  /\ pc' = "poll" /\ pScreenFile' = "null"
  /\ Event_Register' = 0 /\ Response_Register' = 0 /\ Read_Data' = Zero
  /\ Address' = 1 /\ Loading_Percentage' = 0
  /\ Read_Address' = 0 /\ Loading' = 0 /\ Nios_Finish_Reading_Flag' = 0
  /\ openFiles' \in {0, openFiles} /\ UNCHANGED file

Poll ==
  /\ pc = "poll"
  /\ Event_Register' = WriteFinish_Flag
  /\ pc' = IF pScreenFile = "null" THEN "open" ELSE "branch"
  /\ UNCHANGED <<Response_Register, Address, Read_Data, Loading_Percentage,
                 pScreenFile, ports, host, Nios_Finish_Reading_Flag>>

Open ==
  /\ pc = "open"
  /\ pc' = "branch"
  /\ IF openFiles < MaxFiles
     THEN pScreenFile' = "open" /\ openFiles' = openFiles + 1 /\ file' = << >>
     ELSE UNCHANGED <<pScreenFile, host>>
  /\ UNCHANGED <<Event_Register, Response_Register, Address, Read_Data,
                 Loading_Percentage, ports, Nios_Finish_Reading_Flag>>

\* A mutant of PutAddress: the address port keeps the address before.
PutAddressLate ==
  /\ pc = "branch" /\ Event_Register > 0 /\ Response_Register = 0
  /\ pc' = "data"
  /\ UNCHANGED <<Event_Register, Response_Register, Address, Read_Data,
                 Loading_Percentage, pScreenFile, ports, host,
                 Nios_Finish_Reading_Flag>>

\* The branch that reads: the address goes out first.
PutAddress ==
  /\ pc = "branch" /\ Event_Register > 0 /\ Response_Register = 0
  /\ Read_Address' = Address
  /\ pc' = "data"
  /\ UNCHANGED <<Event_Register, Response_Register, Address, Read_Data,
                 Loading_Percentage, pScreenFile, Loading, host,
                 Nios_Finish_Reading_Flag>>

\* word is what the bus carries.
ReadData(word) ==
  /\ pc = "data"
  /\ Read_Data' = word
  /\ pc' = "progress"
  /\ UNCHANGED <<Event_Register, Response_Register, Address, Loading_Percentage,
                 pScreenFile, ports, host, Nios_Finish_Reading_Flag>>

PutProgress ==
  /\ pc = "progress"
  /\ Loading' = Loading_Percentage
  /\ pc' = "print"
  /\ UNCHANGED <<Event_Register, Response_Register, Address, Read_Data,
                 Loading_Percentage, pScreenFile, Read_Address, host,
                 Nios_Finish_Reading_Flag>>

PrintWord ==
  /\ pc = "print"
  /\ file' = IF pScreenFile = "open" THEN Append(file, Read_Data) ELSE file
  /\ Address' = Address + 1
  /\ Loading_Percentage' = (Address' * 100) \div LastWord
  /\ pc' = IF Address' = LastWord THEN "respond" ELSE "poll"
  /\ UNCHANGED <<Event_Register, Response_Register, Read_Data, pScreenFile,
                 ports, openFiles, Nios_Finish_Reading_Flag>>

Crash ==
  /\ pc = "print" /\ pScreenFile = "null"
  /\ pc' = "crashed"
  /\ UNCHANGED <<Event_Register, Response_Register, Address, Read_Data,
                 Loading_Percentage, pScreenFile, ports, host,
                 Nios_Finish_Reading_Flag>>

\* A mutant of Respond: the response stays inside the program.
RespondUnseen ==
  /\ pc = "respond"
  /\ Response_Register' = 1
  /\ pc' = "rewind"
  /\ UNCHANGED <<Event_Register, Address, Read_Data, Loading_Percentage,
                 pScreenFile, ports, host, Nios_Finish_Reading_Flag>>

Respond ==
  /\ pc = "respond"
  /\ Response_Register' = 1 /\ Nios_Finish_Reading_Flag' = 1
  /\ pc' = "rewind"
  /\ UNCHANGED <<Event_Register, Address, Read_Data, Loading_Percentage,
                 pScreenFile, ports, host>>

\* A mutant of Rewind: only the port goes back to the first word.
RewindPort ==
  /\ pc = "rewind"
  /\ Read_Address' = 1
  /\ pc' = "close"
  /\ UNCHANGED <<Event_Register, Response_Register, Address, Read_Data,
                 Loading_Percentage, pScreenFile, Loading, host,
                 Nios_Finish_Reading_Flag>>

Rewind ==
  /\ pc = "rewind"
  /\ Address' = 1 /\ Read_Address' = 1
  /\ pc' = "close"
  /\ UNCHANGED <<Event_Register, Response_Register, Read_Data, Loading_Percentage,
                 pScreenFile, Loading, host, Nios_Finish_Reading_Flag>>

Close ==
  /\ pc = "close"
  /\ IF pScreenFile = "open"
     THEN pScreenFile' = "closed" /\ openFiles' = openFiles - 1
     ELSE UNCHANGED <<pScreenFile, openFiles>>
  /\ pc' = "poll"
  /\ UNCHANGED <<Event_Register, Response_Register, Address, Read_Data,
                 Loading_Percentage, ports, file, Nios_Finish_Reading_Flag>>

\* No finished write: withdraw the response and forget the file, open or not.
Rearm ==
  /\ pc = "branch" /\ Event_Register = 0
  /\ Response_Register' = 0 /\ Nios_Finish_Reading_Flag' = 0
  /\ pScreenFile' = "null"
  /\ pc' = "poll"
  /\ UNCHANGED <<Event_Register, Address, Read_Data, Loading_Percentage, ports, host>>

\* The shot was read already: nothing to do.
Skip ==
  /\ pc = "branch" /\ Event_Register > 0 /\ Response_Register = 1
  /\ pc' = "poll"
  /\ UNCHANGED <<Event_Register, Response_Register, Address, Read_Data,
                 Loading_Percentage, pScreenFile, ports, host,
                 Nios_Finish_Reading_Flag>>

ReaderStep(word) ==
  \/ Poll \/ Open \/ PutAddress \/ ReadData(word) \/ PutProgress
  \/ PrintWord \/ Crash \/ Respond \/ Rewind \/ Close \/ Rearm \/ Skip

\* Between deciding to read a word and having dealt with it.
Reading == pc \in {"data", "progress", "print", "respond"}
=============================================================================
