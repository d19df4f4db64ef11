--------------------------- MODULE ScreenShot_proofs ---------------------------
(***************************************************************************)
(* Proofs about the screen shot path, for any size of a shot, any number   *)
(* of file descriptors, any raster and any number of shots and resets.     *)
(***************************************************************************)
EXTENDS ScreenShot, TLAPS

\* The handshake: the program acts on an Event_Register it read earlier, and
\* what makes that sound is that the flag cannot fall before it has responded.
HandshakeInv ==
  /\ Response_Register = Nios_Finish_Reading_Flag
  /\ Event_Register = 1 /\ Response_Register = 0 => WriteFinish_Flag = 1
  /\ Reset = 0 => pc = "poll" /\ Event_Register = 0 /\ Response_Register = 0
  /\ Reading => Event_Register = 1 /\ Response_Register = 0
  /\ pc \in {"rewind", "close"} => Response_Register = 1

\* The read address, and the part of a shot that lies behind it.
AddressInv ==
  /\ pc \notin {"respond", "rewind"} => Address < LastWord
  /\ pc \in {"data", "progress", "print"} => Read_Address = Address
  /\ Address > 1 /\ Response_Register = 0 => Event_Register = 1
  /\ Response_Register = 1 /\ pc # "rewind" => Address = 1

\* The file pointer and the descriptors.
PointerInv ==
  /\ pScreenFile = "closed" => Response_Register = 1
  /\ pScreenFile = "open" => openFiles >= 1
  /\ pc = "open" => pScreenFile = "null"
  /\ pScreenFile = "null" /\ (Address > 1 \/ pc \notin {"poll", "open"})
       => openFiles = MaxFiles

PathInv == ShotTypeOK /\ HandshakeInv /\ AddressInv /\ PointerInv

\* What a prompt reader guarantees: no shot is written, and none completed,
\* against a response left over from the one before.
PromptInv ==
  /\ ScreenCapture = 1 /\ WriteFinish_Flag = 0 => Nios_Finish_Reading_Flag = 0
  /\ pc \in {"open", "branch"} /\ Event_Register = 0 /\ Nios_Finish_Reading_Flag = 1
       => WriteFinish_Flag = 0

\* What a patient user adds: the chip is selected until the shot is read.
HeldInv ==
  Reset = 1 /\ WriteFinish_Flag = 1 /\ Nios_Finish_Reading_Flag = 0 => ScreenCapture = 1

\* The file is the part of the shot read so far.
CopyInv ==
  /\ pc \in {"progress", "print"} => Read_Data = SRAM[Address]
  /\ pScreenFile = "open" /\ Response_Register = 0 =>
       /\ Len(file) = Address - 1
       /\ \A i \in 1..Len(file) : file[i] = SRAM[i]
-----------------------------------------------------------------------------
\* The words of the chip; their representation is of no interest below.
LEMMA Words ==
  {Zero, Unwritten, Floating, Half(Pixel, "RG"), Half(Pixel, "B")} \subseteq Word
BY DEF Word

\* What one Main_CLK edge does to the writer, as seen from the program.
LEMMA WriterClock ==
  ASSUME ShotTypeOK, Clock
  PROVE  /\ {Reset', ScreenCapture', WriteFinish_Flag', StartFlagDetected',
             IgniteAddressing', Data_Vaild_Flag'} \subseteq Bit
         /\ Pixel_Address' \in 0..LastWord
         /\ Data' \in Word /\ SRAM' \in [0..LastWord -> Word]
         /\ WriteFinish_Flag < WriteFinish_Flag' => Reset = 1 /\ Writing
         /\ WriteFinish_Flag > WriteFinish_Flag' =>
              Reset = 0 \/ (ScreenCapture = 0 /\ Nios_Finish_Reading_Flag = 1)
         /\ Reset = 0 => WriteFinish_Flag' = 0
         /\ WriteFinish_Flag' = 1 => SRAM' = SRAM
<1> USE LastWordAssumption DEF ShotTypeOK, Bit
<1>1. Reset' \in Bit /\ ScreenCapture' \in Bit
  BY DEF Clock, ResetInput, Switch
<1>2. PICK blank_n \in Bit, start \in Bit, finish \in Bit :
        WriterStep(blank_n, FALSE, Pixel, start, finish)
  BY DEF Clock
<1>3. /\ WriteFinish_Flag' \in Bit /\ Pixel_Address' \in 0..LastWord
      /\ WriteFinish_Flag < WriteFinish_Flag' => Reset = 1 /\ Writing
      /\ WriteFinish_Flag > WriteFinish_Flag' =>
           Reset = 0 \/ (ScreenCapture = 0 /\ Nios_Finish_Reading_Flag = 1)
      /\ Reset = 0 => WriteFinish_Flag' = 0
  <2>1. WriteControl(blank_n)
    BY <1>2 DEF WriterStep
  <2>2. QED BY <2>1 DEF WriteControl, AdvanceAddress, LastWordReached, Release, Rest, Writing
<1>4. StartFlagDetected' \in Bit /\ IgniteAddressing' \in Bit
  <2>1. Latches(start, finish)
    BY <1>2 DEF WriterStep
  <2>2. QED BY <1>1, <2>1 DEF Latches
<1>5. Data' \in Word
  BY <1>2, Words DEF WriterStep, DataChunk
<1>6. StoreWord
  BY <1>2 DEF WriterStep
<1>7. Data_Vaild_Flag' \in Bit
  BY <1>4, <1>6 DEF StoreWord
<1>8. SRAM' \in [0..LastWord -> Word]
  BY <1>3, <1>5, <1>6, Words DEF StoreWord
<1>9. WriteFinish_Flag' = 1 => SRAM' = SRAM
  BY <1>6 DEF StoreWord, Writing
<1>10. QED BY <1>1, <1>3, <1>4, <1>5, <1>7, <1>8, <1>9

\* The program stands still at an edge, unless a reset restarts it.
LEMMA ReaderClock ==
  ASSUME Clock
  PROVE  \/ Reset' # 0 /\ UNCHANGED readerVars
         \/ Reset' = 0 /\ ReaderReset
BY DEF Clock

\* A step of the program leaves the writer alone.
LEMMA ProcessorFrame ==
  ASSUME Processor
  PROVE  /\ Reset = 1 /\ ReaderStep(BusWord(Read_Address))
         /\ UNCHANGED <<Reset, ScreenCapture, WriteFinish_Flag, writerRegs>>
BY DEF Processor

\* The bus carries a word, and the addressed one while the chip is selected.
LEMMA BusCarriesWords ==
  ASSUME ShotTypeOK
  PROVE  /\ BusWord(Read_Address) \in Word
         /\ ScreenCapture = 1 /\ WriteFinish_Flag = 1
              => BusWord(Read_Address) = SRAM[Read_Address]
BY Words, LastWordAssumption DEF ShotTypeOK, BusWord, Writing
-----------------------------------------------------------------------------
\* Types, on a step of the program.
LEMMA ReaderKeepsTypes ==
  ASSUME PathInv, NEW word \in Word, ReaderStep(word),
         UNCHANGED <<Reset, ScreenCapture, WriteFinish_Flag, writerRegs>>
  PROVE  ShotTypeOK'
<1> USE LastWordAssumption, FilesAssumption
    DEF PathInv, ShotTypeOK, HandshakeInv, AddressInv, PointerInv, Reading, Bit,
        program, ports, host, writerRegs
<1>1. CASE Poll
  BY <1>1 DEF Poll
<1>2. CASE Open
  BY <1>2 DEF Open
<1>3. CASE PutAddress
  <2>1. Read_Address' \in 0..(LastWord - 1)
    BY <1>3 DEF PutAddress
  <2>2. QED BY <1>3, <2>1 DEF PutAddress
<1>4. CASE ReadData(word)
  BY <1>4 DEF ReadData
<1>5. CASE PutProgress
  BY <1>5 DEF PutProgress
<1>6. CASE PrintWord
  BY <1>6 DEF PrintWord
<1>7. CASE Crash
  BY <1>7 DEF Crash
<1>8. CASE Respond
  BY <1>8 DEF Respond
<1>9. CASE Rewind
  BY <1>9 DEF Rewind
<1>10. CASE Close
  BY <1>10 DEF Close
<1>11. CASE Rearm
  BY <1>11 DEF Rearm
<1>12. CASE Skip
  BY <1>12 DEF Skip
<1>13. QED BY <1>1, <1>2, <1>3, <1>4, <1>5, <1>6,
   <1>7, <1>8, <1>9, <1>10, <1>11, <1>12 DEF ReaderStep

\* The handshake, on a step of the program.
LEMMA ReaderKeepsHandshake ==
  ASSUME PathInv, NEW word \in Word, Reset = 1, ReaderStep(word),
         UNCHANGED <<Reset, ScreenCapture, WriteFinish_Flag, writerRegs>>
  PROVE  HandshakeInv'
<1> USE DEF PathInv, ShotTypeOK, HandshakeInv, Reading, Bit, program, ports, host
<1>1. CASE Poll
  BY <1>1 DEF Poll
<1>2. CASE Open
  BY <1>2 DEF Open
<1>3. CASE PutAddress
  <2>1. Event_Register = 1 /\ Response_Register = 0
    BY <1>3 DEF PutAddress
  <2>2. QED BY <1>3, <2>1 DEF PutAddress
<1>4. CASE ReadData(word)
  BY <1>4 DEF ReadData
<1>5. CASE PutProgress
  BY <1>5 DEF PutProgress
<1>6. CASE PrintWord
  BY <1>6 DEF PrintWord
<1>7. CASE Crash
  BY <1>7 DEF Crash
<1>8. CASE Respond
  BY <1>8 DEF Respond
<1>9. CASE Rewind
  BY <1>9 DEF Rewind
<1>10. CASE Close
  BY <1>10 DEF Close
<1>11. CASE Rearm
  BY <1>11 DEF Rearm
<1>12. CASE Skip
  BY <1>12 DEF Skip
<1>13. QED BY <1>1, <1>2, <1>3, <1>4, <1>5, <1>6,
   <1>7, <1>8, <1>9, <1>10, <1>11, <1>12 DEF ReaderStep

\* The addresses, on a step of the program.
LEMMA ReaderKeepsAddress ==
  ASSUME PathInv, NEW word \in Word, ReaderStep(word),
         UNCHANGED <<Reset, ScreenCapture, WriteFinish_Flag, writerRegs>>
  PROVE  AddressInv'
<1> USE LastWordAssumption
    DEF PathInv, ShotTypeOK, HandshakeInv, AddressInv, Reading, Bit,
        program, ports, host
<1>1. CASE Poll
  BY <1>1 DEF Poll
<1>2. CASE Open
  BY <1>2 DEF Open
<1>3. CASE PutAddress
  BY <1>3 DEF PutAddress
<1>4. CASE ReadData(word)
  BY <1>4 DEF ReadData
<1>5. CASE PutProgress
  BY <1>5 DEF PutProgress
<1>6. CASE PrintWord
  BY <1>6 DEF PrintWord
<1>7. CASE Crash
  BY <1>7 DEF Crash
<1>8. CASE Respond
  BY <1>8 DEF Respond
<1>9. CASE Rewind
  BY <1>9 DEF Rewind
<1>10. CASE Close
  BY <1>10 DEF Close
<1>11. CASE Rearm
  BY <1>11 DEF Rearm
<1>12. CASE Skip
  BY <1>12 DEF Skip
<1>13. QED BY <1>1, <1>2, <1>3, <1>4, <1>5, <1>6,
   <1>7, <1>8, <1>9, <1>10, <1>11, <1>12 DEF ReaderStep

\* The file pointer, on a step of the program.
LEMMA ReaderKeepsPointer ==
  ASSUME PathInv, NEW word \in Word, ReaderStep(word),
         UNCHANGED <<Reset, ScreenCapture, WriteFinish_Flag, writerRegs>>
  PROVE  PointerInv'
<1> USE LastWordAssumption, FilesAssumption
    DEF PathInv, ShotTypeOK, HandshakeInv, AddressInv, PointerInv, Reading, Bit,
        program, ports, host
<1>1. CASE Poll
  BY <1>1 DEF Poll
<1>2. CASE Open
  BY <1>2 DEF Open
<1>3. CASE PutAddress
  BY <1>3 DEF PutAddress
<1>4. CASE ReadData(word)
  BY <1>4 DEF ReadData
<1>5. CASE PutProgress
  BY <1>5 DEF PutProgress
<1>6. CASE PrintWord
  BY <1>6 DEF PrintWord
<1>7. CASE Crash
  BY <1>7 DEF Crash
<1>8. CASE Respond
  BY <1>8 DEF Respond
<1>9. CASE Rewind
  BY <1>9 DEF Rewind
<1>10. CASE Close
  BY <1>10 DEF Close
<1>11. CASE Rearm
  BY <1>11 DEF Rearm
<1>12. CASE Skip
  BY <1>12 DEF Skip
<1>13. QED BY <1>1, <1>2, <1>3, <1>4, <1>5, <1>6,
   <1>7, <1>8, <1>9, <1>10, <1>11, <1>12 DEF ReaderStep

\* The program has decided to read: the flag it decided on outlives the edge,
\* and so does the shot.
LEMMA FlagHolds ==
  ASSUME PathInv, Clock, Event_Register = 1, Response_Register = 0
  PROVE  WriteFinish_Flag' = 1 /\ SRAM' = SRAM
<1>1. Reset = 1 /\ WriteFinish_Flag = 1 /\ Nios_Finish_Reading_Flag = 0
  BY DEF PathInv, HandshakeInv, ShotTypeOK, Bit
<1>2. WriteFinish_Flag' \in Bit /\ ~(WriteFinish_Flag > WriteFinish_Flag')
  BY <1>1, WriterClock DEF PathInv
<1>3. WriteFinish_Flag' = 1
  BY <1>1, <1>2 DEF Bit
<1>4. QED BY <1>3, WriterClock DEF PathInv

\* Everything, on an edge of Main_CLK.
LEMMA ClockKeepsPath ==
  ASSUME PathInv, Clock
  PROVE  PathInv'
<1>1. CASE Reset' # 0 /\ UNCHANGED readerVars
  <2>1. UNCHANGED <<pc, Event_Register, Response_Register, Address, Read_Data,
                    pScreenFile, Read_Address, openFiles, file,
                    Nios_Finish_Reading_Flag>>
    BY <1>1 DEF readerVars, program, ports, host
  <2>2. ShotTypeOK'
    BY <2>1, WriterClock DEF PathInv, ShotTypeOK
  <2>3. HandshakeInv'
    <3>1. Event_Register' = 1 /\ Response_Register' = 0 => WriteFinish_Flag' = 1
      BY <2>1, FlagHolds
    <3>2. Reset' = 0 => pc' = "poll" /\ Event_Register' = 0 /\ Response_Register' = 0
      BY <1>1
    <3>3. QED BY <2>1, <3>1, <3>2 DEF PathInv, HandshakeInv, Reading
  <2>4. AddressInv' /\ PointerInv'
    BY <2>1 DEF PathInv, AddressInv, PointerInv
  <2>5. QED BY <2>2, <2>3, <2>4 DEF PathInv
<1>2. CASE Reset' = 0 /\ ReaderReset
  <2>1. /\ Read_Data' \in Word /\ file' \in Seq(Word) /\ openFiles' \in 0..MaxFiles
    BY <1>2, Words, FilesAssumption DEF ReaderReset, PathInv, ShotTypeOK
  <2>2. ShotTypeOK'
    BY <1>2, <2>1, WriterClock, LastWordAssumption
    DEF ReaderReset, PathInv, ShotTypeOK, Bit
  <2>3. HandshakeInv' /\ AddressInv' /\ PointerInv'
    BY <1>2, LastWordAssumption
    DEF ReaderReset, HandshakeInv, AddressInv, PointerInv, Reading
  <2>4. QED BY <2>2, <2>3 DEF PathInv
<1>3. QED BY <1>1, <1>2, ReaderClock

\* The invariant of the path, whatever the user does.
THEOREM PathInvariant == ShotSpec => []PathInv
<1>1. ShotInit => PathInv
  <2>1. ASSUME ShotInit PROVE SRAM \in [0..LastWord -> Word] /\ file \in Seq(Word)
    BY <2>1, Words DEF ShotInit, WriterInit, ReaderInit
  <2>2. QED
    BY <2>1, Words, LastWordAssumption, FilesAssumption
    DEF ShotInit, WriterInit, ReaderInit, PathInv, ShotTypeOK, HandshakeInv,
        AddressInv, PointerInv, Reading, Bit
<1>2. PathInv /\ [ShotNext]_shotVars => PathInv'
  <2>1. CASE Clock
    BY <2>1, ClockKeepsPath
  <2>2. CASE Processor
    BY <2>2, ProcessorFrame, BusCarriesWords, ReaderKeepsTypes, ReaderKeepsHandshake,
       ReaderKeepsAddress, ReaderKeepsPointer DEF PathInv
  <2>3. CASE UNCHANGED shotVars
    BY <2>3 DEF shotVars, wires, writerRegs, readerVars, program, ports, host,
       PathInv, ShotTypeOK, HandshakeInv, AddressInv, PointerInv, Reading
  <2>4. QED BY <2>1, <2>2, <2>3 DEF ShotNext
<1>3. QED BY <1>1, <1>2, PTL DEF ShotSpec

\* The registers of writer and program stay in their ranges.
THEOREM ShotTypeCorrect == ShotSpec => []ShotTypeOK
BY PathInvariant, PTL DEF PathInv

\* The program never reads the chip while the writer may write it.
THEOREM MutualExclusion == ShotSpec => []ReaderExcludesWriter
<1>1. PathInv => ReaderExcludesWriter
  BY DEF PathInv, HandshakeInv, ReaderExcludesWriter
<1>2. QED BY <1>1, PathInvariant, PTL

\* The program never prints to the file it closed.
THEOREM NoUseAfterClose == ShotSpec => []NoPrintAfterClose
<1>1. PathInv => NoPrintAfterClose
  BY DEF PathInv, HandshakeInv, PointerInv, Reading, NoPrintAfterClose
<1>2. QED BY <1>1, PathInvariant, PTL

\* The word fetched is the word counted.
THEOREM AddressIsFetched == ShotSpec => []FetchesItsAddress
<1>1. PathInv => FetchesItsAddress
  BY DEF PathInv, AddressInv, FetchesItsAddress
<1>2. QED BY <1>1, PathInvariant, PTL
-----------------------------------------------------------------------------
\* With a prompt reader: no response is left over when a shot is written.
LEMMA PromptStep ==
  ASSUME PromptReader, PathInv, PromptInv, [ShotNext]_shotVars
  PROVE  PromptInv'
<1> USE DEF PathInv, ShotTypeOK, HandshakeInv, PromptInv, Reading, Bit
<1>1. CASE Clock
  <2>1. ScreenCapture < ScreenCapture' => Nios_Finish_Reading_Flag = 0
    BY <1>1 DEF Clock, Switch
  <2>2. CASE Reset' # 0 /\ UNCHANGED readerVars
    BY <1>1, <2>1, <2>2, WriterClock DEF readerVars, program, Writing
  <2>3. CASE Reset' = 0 /\ ReaderReset
    BY <2>3 DEF ReaderReset
  <2>4. QED BY <1>1, <2>2, <2>3, ReaderClock
<1>2. CASE Processor
  <2> DEFINE word == BusWord(Read_Address)
  <2>1. ReaderStep(word) /\ UNCHANGED <<ScreenCapture, WriteFinish_Flag>>
    BY <1>2, ProcessorFrame
  <2> HIDE DEF word
  <2>2. CASE Poll \/ Rearm
    BY <2>1, <2>2 DEF Poll, Rearm
  <2>3. CASE Open \/ PutAddress \/ Skip
    BY <2>1, <2>3 DEF Open, PutAddress, Skip
  <2>4. CASE ReadData(word) \/ PutProgress \/ PrintWord \/ Crash \/ Respond
    BY <2>1, <2>4 DEF ReadData, PutProgress, PrintWord, Crash, Respond
  <2>5. CASE Rewind \/ Close
    BY <2>1, <2>5 DEF Rewind, Close
  <2>6. QED BY <2>1, <2>2, <2>3, <2>4, <2>5 DEF ReaderStep
<1>3. CASE UNCHANGED shotVars
  BY <1>3 DEF shotVars, wires, readerVars, program
<1>4. QED BY <1>1, <1>2, <1>3 DEF ShotNext

\* Nobody changes their habits.
LEMMA UserStays ==
  ASSUME [ShotNext]_shotVars
  PROVE  PromptReader' = PromptReader /\ HoldsSwitch' = HoldsSwitch
BY DEF ShotNext, shotVars, PromptReader, HoldsSwitch

LEMMA PromptInvariant == ShotSpec => [](PromptReader => PromptInv)
<1>1. ShotInit => PromptInv
  BY DEF ShotInit, WriterInit, ReaderInit, PromptInv
<1>2. PathInv /\ (PromptReader => PromptInv) /\ [ShotNext]_shotVars
        => (PromptReader => PromptInv)'
  BY PromptStep, UserStays
<1>3. QED BY <1>1, <1>2, PathInvariant, PTL DEF ShotSpec

\* A finished shot is never taken for the one that was read before it, if the
\* program withdraws its response before the switch is raised again.
THEOREM ShotsAreNoticed == ShotSpec => NewShotIsNoticed
<1>1. ASSUME PathInv, PromptReader, PromptInv, [ShotNext]_shotVars,
             WriteFinish_Flag < WriteFinish_Flag'
      PROVE  Nios_Finish_Reading_Flag = 0
  <2>1. CASE Clock
    BY <1>1, <2>1, WriterClock DEF PathInv, ShotTypeOK, PromptInv, Writing, Bit
  <2>2. CASE Processor
    BY <1>1, <2>2, ProcessorFrame DEF PathInv, ShotTypeOK, Bit
  <2>3. CASE UNCHANGED shotVars
    BY <1>1, <2>3 DEF shotVars, wires, PathInv, ShotTypeOK, Bit
  <2>4. QED BY <1>1, <2>1, <2>2, <2>3 DEF ShotNext
<1>2. PathInv /\ (PromptReader => PromptInv) /\ [ShotNext]_shotVars =>
        [PromptReader /\ WriteFinish_Flag < WriteFinish_Flag' =>
           Nios_Finish_Reading_Flag = 0]_shotVars
  BY <1>1
<1>3. QED BY <1>2, PathInvariant, PromptInvariant, PTL DEF ShotSpec, NewShotIsNoticed
-----------------------------------------------------------------------------
\* With a patient user as well: the chip stays selected until the shot is read.
LEMMA HeldStep ==
  ASSUME PromptReader, HoldsSwitch, PathInv, PromptInv, HeldInv, [ShotNext]_shotVars
  PROVE  HeldInv'
<1> USE DEF PathInv, ShotTypeOK, HandshakeInv, PromptInv, HeldInv, Reading, Bit
<1>1. CASE Clock
  <2>1. ScreenCapture > ScreenCapture' => Nios_Finish_Reading_Flag = 1 \/ Reset = 0
    BY <1>1 DEF Clock, Switch
  <2>2. CASE Reset' # 0 /\ UNCHANGED readerVars
    BY <1>1, <2>1, <2>2, WriterClock DEF readerVars, program, Writing
  <2>3. CASE Reset' = 0 /\ ReaderReset
    BY <2>3
  <2>4. QED BY <1>1, <2>2, <2>3, ReaderClock
<1>2. CASE Processor
  <2> DEFINE word == BusWord(Read_Address)
  <2>1. ReaderStep(word) /\ UNCHANGED <<Reset, ScreenCapture, WriteFinish_Flag>>
    BY <1>2, ProcessorFrame
  <2> HIDE DEF word
  <2>2. CASE Rearm
    BY <2>1, <2>2 DEF Rearm
  <2>3. CASE ~Rearm
    <3>1. Nios_Finish_Reading_Flag' \in {1, Nios_Finish_Reading_Flag}
      BY <2>1, <2>3 DEF ReaderStep, Poll, Open, PutAddress, ReadData, PutProgress,
         PrintWord, Crash, Respond, Rewind, Close, Skip
    <3>2. QED BY <2>1, <3>1
  <2>4. QED BY <2>2, <2>3
<1>3. CASE UNCHANGED shotVars
  BY <1>3 DEF shotVars, wires
<1>4. QED BY <1>1, <1>2, <1>3 DEF ShotNext

\* While a shot is being read, an edge of Main_CLK leaves its words alone.
LEMMA ClockKeepsCopy ==
  ASSUME PathInv, CopyInv, Clock
  PROVE  CopyInv'
<1>1. CASE Reset' # 0 /\ UNCHANGED readerVars
  <2>1. UNCHANGED <<pc, Event_Register, Response_Register, Address, Read_Data,
                    pScreenFile, file, Nios_Finish_Reading_Flag>>
    BY <1>1 DEF readerVars, program, host
  <2>2. Event_Register = 1 /\ Response_Register = 0 => SRAM' = SRAM
    BY FlagHolds
  <2>3. Reading => SRAM' = SRAM
    BY <2>2 DEF PathInv, HandshakeInv
  <2>4. pc' \in {"progress", "print"} => Read_Data' = SRAM'[Address']
    BY <2>1, <2>3 DEF CopyInv, Reading
  <2>5. ASSUME pScreenFile' = "open", Response_Register' = 0
        PROVE  /\ Len(file') = Address' - 1
               /\ \A i \in 1..Len(file') : file'[i] = SRAM'[i]
    <3>1. /\ Len(file) = Address - 1
          /\ \A i \in 1..Len(file) : file[i] = SRAM[i]
      BY <2>1, <2>5 DEF CopyInv
    <3>2. CASE Address > 1
      BY <2>1, <2>2, <2>5, <3>1, <3>2 DEF PathInv, AddressInv
    <3>3. CASE ~(Address > 1)
      BY <2>1, <3>1, <3>3, LastWordAssumption DEF PathInv, ShotTypeOK
    <3>4. QED BY <3>2, <3>3
  <2>6. QED BY <2>4, <2>5 DEF CopyInv
<1>2. CASE Reset' = 0 /\ ReaderReset
  BY <1>2 DEF ReaderReset, CopyInv
<1>3. QED BY <1>1, <1>2, ReaderClock

\* One more line: the word at the address that is then counted up.
LEMMA PrintKeepsCopy ==
  ASSUME PathInv, CopyInv, PrintWord, SRAM' = SRAM
  PROVE  CopyInv'
<1>1. Address' = Address + 1 /\ Read_Data = SRAM[Address] /\ Address \in Nat
  BY LastWordAssumption DEF PrintWord, CopyInv, PathInv, ShotTypeOK
<1>2. pc' \notin {"progress", "print"}
  BY DEF PrintWord
<1>3. ASSUME pScreenFile' = "open"
      PROVE  /\ Len(file') = Address' - 1
             /\ \A i \in 1..Len(file') : file'[i] = SRAM'[i]
  <2>1. file' = Append(file, Read_Data) /\ pScreenFile = "open" /\ Response_Register = 0
    BY <1>3 DEF PrintWord, PathInv, HandshakeInv, Reading
  <2>2. /\ Len(file) = Address - 1
        /\ \A i \in 1..Len(file) : file[i] = SRAM[i]
    BY <2>1 DEF CopyInv
  <2>3. file \in Seq(Word) /\ Read_Data \in Word
    BY DEF PathInv, ShotTypeOK
  <2>4. Len(file') = Len(file) + 1
    BY <2>1, <2>3
  <2>5. ASSUME NEW i \in 1..Len(file') PROVE file'[i] = SRAM[i]
    <3>1. CASE i = Address
      BY <1>1, <2>1, <2>2, <2>3, <2>4, <3>1
    <3>2. CASE i # Address
      <4>1. i \in 1..Len(file)
        BY <1>1, <2>2, <2>3, <2>4, <2>5, <3>2
      <4>2. file'[i] = file[i]
        BY <2>1, <2>3, <4>1
      <4>3. QED BY <2>2, <4>1, <4>2
    <3>3. QED BY <3>1, <3>2
  <2>6. QED BY <1>1, <2>2, <2>4, <2>5
<1>4. QED BY <1>2, <1>3 DEF CopyInv

\* Every other step of the program.
LEMMA ReaderKeepsCopy ==
  ASSUME PathInv, HeldInv, CopyInv, Processor
  PROVE  CopyInv'
<1> DEFINE word == BusWord(Read_Address)
<1>1. /\ ReaderStep(word) /\ Reset = 1
      /\ UNCHANGED <<ScreenCapture, WriteFinish_Flag>> /\ SRAM' = SRAM
  BY ProcessorFrame DEF writerRegs
<1>2. pc = "data" => word = SRAM[Address]
  <2>1. pc = "data" => /\ WriteFinish_Flag = 1 /\ Nios_Finish_Reading_Flag = 0
                       /\ Read_Address = Address
    BY DEF PathInv, HandshakeInv, AddressInv, Reading
  <2>2. QED BY <1>1, <2>1, BusCarriesWords DEF PathInv, HeldInv
<1> HIDE DEF word
<1>3. CASE PrintWord
  BY <1>1, <1>3, PrintKeepsCopy
<1>4. CASE Open
  <2>1. pScreenFile = "null" /\ (openFiles < MaxFiles => Address = 1)
    BY <1>4, FilesAssumption, LastWordAssumption
    DEF Open, PathInv, PointerInv, ShotTypeOK
  <2>2. QED BY <1>1, <1>4, <2>1 DEF Open, CopyInv, host
<1>5. CASE ReadData(word)
  BY <1>1, <1>2, <1>5 DEF ReadData, CopyInv, host
<1>6. CASE Poll \/ PutAddress \/ PutProgress \/ Crash \/ Respond \/ Skip
  BY <1>1, <1>6 DEF Poll, PutAddress, PutProgress, Crash, Respond, Skip, CopyInv, host
<1>7. CASE Rewind \/ Close
  BY <1>7 DEF Rewind, Close, CopyInv, PathInv, HandshakeInv
<1>8. CASE Rearm
  BY <1>8 DEF Rearm, CopyInv
<1>9. QED BY <1>1, <1>3, <1>4, <1>5, <1>6, <1>7, <1>8 DEF ReaderStep

LEMMA CopyInvariant == ShotSpec => [](HoldsSwitch /\ PromptReader => HeldInv /\ CopyInv)
<1>1. ShotInit => HeldInv /\ CopyInv
  BY DEF ShotInit, WriterInit, ReaderInit, HeldInv, CopyInv
<1>2. ASSUME HoldsSwitch, PromptReader,
             PathInv, PromptInv, HeldInv, CopyInv, [ShotNext]_shotVars
      PROVE  HeldInv' /\ CopyInv'
  <2>1. HeldInv'
    BY <1>2, HeldStep
  <2>2. CASE Clock
    BY <1>2, <2>1, <2>2, ClockKeepsCopy
  <2>3. CASE Processor
    BY <1>2, <2>1, <2>3, ReaderKeepsCopy
  <2>4. CASE UNCHANGED shotVars
    BY <1>2, <2>1, <2>4 DEF shotVars, writerRegs, readerVars, program, host, CopyInv
  <2>5. QED BY <1>2, <2>2, <2>3, <2>4 DEF ShotNext
<1>3. PathInv /\ (PromptReader => PromptInv)
        /\ (HoldsSwitch /\ PromptReader => HeldInv /\ CopyInv) /\ [ShotNext]_shotVars
        => (HoldsSwitch /\ PromptReader => HeldInv /\ CopyInv)'
  <2> SUFFICES ASSUME PathInv, PromptReader => PromptInv,
                      HoldsSwitch /\ PromptReader => HeldInv /\ CopyInv,
                      [ShotNext]_shotVars, HoldsSwitch', PromptReader'
               PROVE  HeldInv' /\ CopyInv'
    OBVIOUS
  <2>1. HoldsSwitch /\ PromptReader
    BY UserStays
  <2>2. QED BY <1>2, <2>1
<1>4. QED BY <1>1, <1>3, PathInvariant, PromptInvariant, PTL DEF ShotSpec

\* The lines printed are the words of the shot, in order and without a gap, for
\* a user who keeps the switch up and waits until the program has rearmed.
THEOREM FileCopiesTheShot == ShotSpec => []FileIsTheShot
<1>1. PathInv /\ (HoldsSwitch /\ PromptReader => HeldInv /\ CopyInv) => FileIsTheShot
  BY DEF PathInv, HandshakeInv, CopyInv, FileIsTheShot
<1>2. QED BY <1>1, PathInvariant, CopyInvariant, PTL
=============================================================================
