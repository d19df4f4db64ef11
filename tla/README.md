# Verification of the digital oscilloscope

TLA+ models of the FPGA design in this repository (Verilog, Cyclone IV E), of
the Nios II program that streams screen shots to a host, and of the drivers and
services of the board support package (BSP) under that program, with the TLC
runs that check them and the TLAPS proofs about them. Paths are relative to the
root of the repository; `output_files/Top.map.rpt` is the synthesis report kept
in it. C files named without a path are in
`Software/NiosII_Screen_Reader_bsp/HAL/src` or `.../drivers/src`.

## 1. The system

The design samples two channels into RAM, draws them at 640x480 and can save
the picture to a file on a host. Everything is clocked by `Main_CLK` (50 MHz) or
by a clock made of it: `VGA_CLK` (25 MHz, a register), `Hsync` and `Vsync`
(registers used as clocks), `CS` of the converter (one pulse in 34 cycles) and
`SRAM_CLK` (100 MHz, of the PLL).

| Component | State | Operations | Talks to |
|---|---|---|---|
| Raster generator, `VGA_Controls.v` | divider, sync pulses, raster and pixel counters, `Blank_N`, two frame pulses | one block for each register and clock | all others: clocks and coordinates |
| Debouncer, `DeBouncer.v` | a flag and a 13-bit counter for each switch; the same for the reset | one block for each switch | all others: debounced switches and reset |
| Screen shot writer, `SRAM_Control.v`, `Top.v:68-72` | address, data register, mask, two inferred latches, `WriteFinish_Flag`; the SRAM | count the words of one frame, raise and release the flag | raster, drawing block, reader |
| Screen shot reader, `Software/NiosII_Screen_Reader/main.c` | program variables, output ports, file | poll, open, fetch and print a word, respond, close, rearm | writer, by two flags and the SRAM's bus |
| Acquisition memory, `Memory_Management.v` | write enables, `change_bit`, `Stop`, write address, two buffers | swap at `Vsync`, record at `CS` | converter (or `Test.v`), drawing block |
| Drawing block, `GUI.v` | colour registers, cursors, offsets, image addresses | one pixel of one layer; move a cursor | raster, memories, measurements |
| Frequency, `Frequency_Calculator.v` | the quotient | divide the sample rate by the cursors' distance, convert to digits | cursors, drawing block |
| Amplitude, `Amplitude_Calculator.v`, `BitRangeExtractor.v`, `Fraction_BCD_LUT.v` | floating point result, bit range, integer, decimals | scale, divide, take the integer and the fraction apart | cursors, drawing block |
| ADC controller, `ADC_Controls.v` | frame counter, `SCLK`, `CS`, shift registers | one conversion in 34 cycles | memory (only `CS` is connected) |
| Test source, `Test.v` | ROM address, synchroniser | next sample at `CS` | stands in for the converter's data |
| JTAG UART: driver `altera_avalon_jtag_uart_*.c`, device `Nios_Screen_Reader_JTAG.v` | two ring buffers, interrupt enables, timeout; two FIFOs | init, read, write, close, ioctl; interrupt routine; idle timeout | `printf`/`exit` of the program, the host |
| File descriptors, `alt_dev.c`, `alt_get_fd.c`, `alt_open.c`, `alt_close.c`, ... | pool `alt_fd_list`, `alt_max_fd`, device list | start-up redirection; open, close, read, write, ioctl, fcntl, fstat, stat, lseek, isatty | C library above, UART and hostfs below |
| Host file system, `altera_hostfs.c` | a handle in each descriptor | open, close, read, write, lseek, fstat | debugger on the host |
| System clock, `alt_tick.c`, `alt_alarm_start.c`, `alt_gettod.c`, `alt_settod.c` | tick counter, ring of alarms, time offset | tick, start, stop, read and set the time | timer interrupt, UART driver |
| Not instantiated: `Read_Write_Control.v`, `BitShifter.v` | | | |
| Generated: `Nios_Screen_Reader/`, `Nios_SDRAM_COM/`, the BSP, RAM, ROM and divider cores | | | |

Hard behaviours: registers of several derived clocks that must describe one
picture; a reset that stops the clock of the registers it should clear; a
four-phase handshake between hardware and program in which a user's switch takes
part and may move at any time; latches the synthesis infers; two state machines
with different clocks that must agree on which buffer is whose; equality
comparisons in counters that a reset leaves where they are; a program that polls
with stale copies of a register and leaks files; ring buffers shared without a
lock by a program and an interrupt routine, which must not leave each other
waiting; a host that comes and goes; calls that fail half way and must give back
what they took; times compared as words that wrap; callbacks that change the list
being walked; roundings of integer and decimals by different circuits.

What makes each component correct:

* raster: all registers describe the same point of the picture; frames recur;
* debouncer: a switch rises only after a full wait and stays down for one; a
  held switch is seen;
* writer: a finished shot is one whole frame, and stays; a held switch gets one;
* reader: reads only while the writer is done, each word once, in order; a shot
  is read to its end before it is answered, and no shot passes for the one before;
  the file survives;
* memory: what is displayed is one recording; a pause freezes it;
* drawing: cursors stay inside their field; image addresses stay in step;
* measurements: the digits are those of the quotient, and a quotient that fits;
* JTAG UART: each direction is a lossless, ordered, bounded channel; calls return;
* descriptors: none leaks or is shared; the standard ones stay; a lock keeps out;
* host files: a descriptor has a handle that is open, and its own;
* clock: alarms are called in their tick; the list stays a ring; time goes on;
* ADC: twelve bits of one conversion in each sample.

## 2. Modules

    Board                    the reset
    |- VGA_Controls          raster
    |- CaptureWires          the two handshake flags and the switch
    |  |- SRAM_Control       writer + SRAM
    |  |- Nios_Screen_Reader program + host file
    |- Memory_Management     channel buffers            Memory_Management_proofs
    CaptureFrame = VGA_Controls + SRAM_Control          CaptureFrame_proofs
                   (program as environment)
    ScreenShot   = SRAM_Control + Nios_Screen_Reader    ScreenShot_proofs
                   (raster as environment)
    DeBouncer                                            DeBouncer_proofs
    GUI_Cursors                                          GUI_proofs
    BCD                      decimal digits
    |- Frequency_Calculator
    |- Amplitude_Calculator
    Measurements = Frequency_Calculator + Amplitude_Calculator
                                                         GUI_proofs
    Byte_Channel             abstract: an ordered channel of bounded capacity
    Jtag_Uart                driver + device + host      Jtag_Uart_proofs
                             implements Byte_Channel
                             twice
    Alt_Files                descriptors + host files    Alt_Files_proofs
    Alt_Alarm                tick, alarms, time of day   Alt_Alarm_proofs

Definitions that begin with a comment "A mutant of" are wrong variants of the
next definition. They are used by nothing; each one replaces the definition it
belongs to in order to confirm that a property notices the mistake.

### Steps and edges

`Board`, `VGA_Controls`, `SRAM_Control`, `DeBouncer`: a step is a rising edge of
`Main_CLK` with all that follows from it before the next one. A register reads
what the edge found (unprimed); a block clocked by a derived clock runs in the
step in which that clock's register rises, and reads what its own edge finds.
All registers power up cleared unless the synthesis report says that one is kept
inverted (`Stop`, `Top.map.rpt:3032`). When the reset register changes at an
edge that also raises a derived clock, a register of that domain may see either
level (`ResetSeen`).

**VGA_Controls** models all blocks of the file. The six limits of the code are
constants. `Tick` is the conjunction of `PixelClock` (25-34), `LineBlocks` (the
blocks clocked by `VGA_CLK`), `FrameBlocks` (those clocked by `Hsync`) and
`ScreenFlags` (118-127).

**SRAM_Control** models the writer, the bus register of `Top.v` and the chip.
`WriteControl` is the block at 51-73 (its branches are `AdvanceAddress`,
`Release` and `Rest`), `DataChunk` the one at 76-92, `Latches` the two blocks at
37-45 and 94-98, which the synthesis turns into transparent latches
(`Top.map.rpt:1715-1722`), `StoreWord` the mask at 100-108, `SRAM_Data` and the
chip. A pixel is an abstract value; a word is one half of a pixel or zero. While
`WE_N` is low the chip is taken to hold, at the end of a cycle, what the bus
carries at the cycle's second `SRAM_CLK` edge. `WE_N` and the address switching
at the same instant is a matter of delays and not modelled.

**Nios_Screen_Reader** has an action for each port access and library call of
the loop body, in the order of the program, and `ReaderReset`. Local assignments
go with the access next to them. `fopen` takes one of `MaxFiles` descriptors
(`ALT_MAX_FD` less the three standard ones) and truncates the file, or fails;
`fclose` returns one; printing to the `NULL` of a failed `fopen` either loses the
line or stops the program (`Crash`). That `fopen` itself fails for other reasons
is not modelled.

**CaptureFrame** runs the writer with the real raster. `Draw` is the pixel that
the drawing block registers at each pixel clock: here the frame's parity and the
place of the pixel, so that a stored word tells where it comes from. The program
is an environment that raises its flag only after the writer's, and lowers it
only after the writer has.

**ScreenShot** runs the writer with the program; the raster is an environment
that may raise pulses and `Blank_N` at any edge, which covers every timing.
`Clock` is one edge, `Processor` one step of the program, at any relative speed.

**DeBouncer** is one block of the file as a function over `Channels` (the 21
blocks are copies of each other), and the reset block, whose output resets them.

**GUI_Cursors** has the update clock (`Count`, `Toggle`: `GUI.v:98-112`) and the
blocks it clocks (`UpdateTime`, `UpdateOffset`, `UpdateAmplitude`). Its step is an
edge of `VGA_CLK` in which any button may be pressed or released, or a reset,
which stops that clock and drops the debounced flags. One channel stands for
both: its limits are constants, and an update with the other one chosen leaves it
alone. `Cursors_Enable` and the direction switches are free.

**Memory_Management** has the edges of `Vsync` and `CS` as actions. The two may
coincide, and the write enables also switch the RAM's clock and address, so
`Swap` lets an edge of `CS` see the enables in either state and lets a RAM whose
enable is or was up store one sample at the write or at the display address. One
channel stands for both. The samples are the addresses of the test ROM, which
`Top.v:272-278` connects in place of the converter; the three-stage synchroniser
of `Test.v` only delays them and is left out.

**BCD**, **Frequency_Calculator** and **Amplitude_Calculator** are mostly
operators: the conversion to digits is the shift-and-add-three loop at
`Frequency_Calculator.v:38-58`, as a function over its iterations on a register
of five digits, which the amplitude has once more; `Quotient` truncates to 16
bits; the amplitude is followed as an IEEE 754 word because the code takes bit
ranges out of one. A step is a move of a cursor or a throw of the scale
switches. What the floating point cores return (exact or rounded to even) is
external. **Measurements** puts the two side by side for TLC.

### The program's system services

**Jtag_Uart** has an action for each part of a driver function that lies between
two accesses another party can see: copying into a ring, publishing the pointer,
kicking the interrupt, each turn of a wait. The program stops while `isr` is not
`"off"` (`Running`); an interrupt is taken between any two of its steps. The
interrupt routine is `IsrEnter`, `IsrControl` and an action for every byte and
for every way its loops end; the host takes, sends, pauses, and connects or
disconnects at any time. `Timeout` is the alarm callback of the driver, which
exists if `alt_alarm_start` succeeded (`clock`). The build uses the fast driver,
not the small one. Bytes are named by their place in the stream, which is what
"in order, once" needs. `written`, `delivered`, `offered`, `received` are history.

**Byte_Channel** is what the UART promises in either direction. `Jtag_Uart`
instantiates it twice: the queue of the transmitting one is the FIFO followed by
what the ring holds; that of the receiving one the ring, less what `read` has
copied and not yet given back, followed by the FIFO. The capacity is a ring less
its empty slot plus a FIFO.

**Alt_Files** is the descriptor pool from `alt_main` on: device registration and
the redirection of the standard descriptors, and then any sequence of system
calls. The build is single-threaded and no interrupt routine uses descriptors, so
a call is one step; the steps inside a call that can fail (taking an entry,
locking it, asking the driver, giving the entry back) are operators on the pool
that the call composes. The host answers anything: a handle that is not open, or
an error.

**Alt_Alarm** has the tick and the walk over the alarms step by step, since
callbacks start and stop alarms in the middle of it. Starting and stopping
disable interrupts, so each is one step. Words are numbers below `Words`, so that
the wrap of the tick counter, of an alarm's time and of the product in
`settimeofday` all occur. `ListIsRing` says that the links run both ways among the
head and what was ever started, and that a started alarm is in every set of
entries that holds the head and its own successors: it is found from the head. On this board there is no system clock
(`system.h`, `ALT_SYS_CLK none`): `alt_alarm_start` fails and the UART takes its
host for present for ever. `Jtag_Uart` is checked with a clock and without.

## 3. Runs

| Run | Checks | Bounds |
|---|---|---|
| `raster` | `VGATypeOK`, `CountersTrackRaster`, `BlankMatchesScreen`, `FrameRecurs` | 3x2 visible pixels, blanking on every side, resets at any edge, no bound |
| `capture` | `ShotIsOneFrame`, `FinishedShotIsStable`, `ShotFinishes` | 3x2 pixels, 12 words, 2 shots, 1 reset |
| `screen_shot` | `ShotTypeOK`, `ReaderExcludesWriter`, `FileIsTheShot`, `NewShotIsNoticed`, `ShotIsAnswered` | 4 words, 2 shots, 1 reset, 2 descriptors, a free user and a patient one |
| `debouncer` | `LowPulseIsLong`, `RiseIsSettled`, `ResetIsDebounced`, `HeldSwitchIsSeen` | wait of 3 with counters of 6, pins and resets free |
| `cursors` | `CursorTypeOK`, `MovesAreSpaced`, `HeldButtonUpdates` | half period 3 of 7, fields of one or two places, 1 reset |
| `memory` | `ShownIsARecording`, `PauseFreezes`, `TurnsGoOn` | 3 slots, 3 or 4 edges to a frame, 5 samples told apart |
| `measurements` | `FrequencyIsShown`, `AmplitudeIsShown` | time cursors up to 29 columns apart, amplitude cursors up to 23 rows, every scale |
| `jtag_uart` | `JtagTypeOK`, `InterruptsOn`, `TransmitIsChannel`, `ReceiveIsChannel`, `PresentWithoutClock` | rings of 3 bytes, FIFOs of 2, 4 bytes each way, calls of 2 and 3 |
| `jtag_uart_live` | `BlockedWriteReturns`, `BlockedReadReturns`, `Delivered` | rings of 2, FIFOs of 1, 3 bytes each way, calls of 3 |
| `alt_files` | `FilesTypeOK`, `StandardOpen`, `HandleIsOwned`, `PoolGrowsByOpen` | 5 descriptors, 2 handles |
| `alt_alarm` | `ListIsRing`, `OnTime`, `TimeOfDayIsShown`, `AlarmIsCalled` | 2 alarms, 5 words, 3 ticks to a second of 6 microseconds |
| `shot_descriptors` | violated: `FileIsOpenToPrint` | 2 shots, 2 descriptors |

Why the bounds suffice. The raster's blocks compare for equality or order with
six limits; the instance has them all apart from each other, with room on each
side. A shot is a count from 0 to its last word; with three pixels to a line and
two lines, a word at either edge, in the middle and next to the black bar all
occur. Two shots show what the first leaves to the second. Two descriptors are exhausted as 29 are. In the debouncer a counter can be
below, at and beyond the threshold and can wrap. The clock of the cursors can rest
at its half, on either level, with a hold beginning there; a place can be below,
at, inside and above its field. In the memory, three slots have
one pair of neighbours that a torn recording would break, and a frame may be
exactly as long as a recording or longer, as on the board (24705 edges for 15360
slots). The cursors' distances with the largest scales give quotients on both
sides of 16 bits and amplitudes below, between and above one and two volts, on both
sides of every rounding. A UART call of the live run exceeds ring and FIFO
together, or waits for both; in the other run the pointers wrap in the middle of a
copy and both FIFOs are full and empty. Of five descriptors three are
standard: the pool runs out, and with it the handles. Five words let the tick
counter, the time of an alarm and the alarm's interval each wrap before the
others. The proofs below do away with the bounds for most of these.

Fairness. Only clocks, processors and devices are fair: an oscillator does not
stop, and the program's loop has no blocking wait. Weak fairness of the whole step
that leaves the pins alone is all that is asked of the hardware, of `CSEdge` and
`Swap` separately in the memory, whose clocks run on their own, and of clock and
processor separately in `ScreenShot`. `AlarmSpec` asks it of the tick, of the walk
and of a callback's return. `JtagSpec` asks weak fairness of the interrupt routine,
of the alarm and of the host's two moves, which need a connection, and strong
fairness of a call in progress, since interrupts suspend it over and over. The
user is never fair, nothing makes the program call or the host connect: liveness
is stated for a switch that is held, a reset that is released, a host that stays.

Assumptions on the user are a variable of `ScreenShot`, chosen at the start, so
that a property says which it needs. `"prompt"`: the switch is not raised while
the response of the shot before is up. `"holds"`: the switch is not lowered before
the shot was answered. `CaptureFrame`, which has no program, has `PromptReader`
as a constant.

### What the violated property shows

**Descriptors** (`FileIsOpenToPrint`). Each turn of the idle loop opens the file
again (`main.c:33-36`, `67`) and closes nothing: after 29 turns `fopen` fails and
the next shot is printed to `NULL`. `Alt_Files` shows that the pool itself never
loses a descriptor, so that the leak is the program's.

### Limits of the code that the properties state

* **The picture is not stored whole.** The comment at `SRAM_Control.v:47` calls
  the range "exactly filling the whole screen". The address stops with `Blank_N`,
  but data register and `WE_N` do not: the blue word of the last pixel of each line
  is overwritten in the blanking. And the finish pulse is raised one pixel early
  (`VGA_Controls.v:121`), so that the last words are those of the next frame.
  `ShotIsOneFrame` leaves these words out.
* **The switch lowered while the program reads.** `SRAM_Control.v:31` deselects the
  chip, nothing tells the program, and the rest of the file is the floating bus.
  `FileIsTheShot` asks for a user who holds the switch.
* **A stale response.** A second shot that ends while the program is still in
  `fclose` (`main.c:60`) finds the response up; the program takes it for read.
  `NewShotIsNoticed` asks for a prompt user, and `ShotIsAnswered` speaks of any
  user's shot but only from a moment on at which no response is up: that shot is
  read to its last word before it is answered. A response that is withdrawn late,
  after the shot has finished, is such a moment; one that never is loses the shot.
  For the same reason `ShotIsOneFrame`
  needs one: `SRAM_Control.v:70` keeps the address, so that a switch lowered in
  mid-shot while that response is up leaves the next shot at a shifted address.
* **The saved file.** When the switch is lowered after a shot, the idle loop opens
  the file with `"w"` again: the shot is gone from the disc.
* **Buttons.** A reset makes all buttons look pressed until the debouncer has risen
  again, so that the offset may move by one. A debounced switch falls on a single
  low sample. Slot 0 of a buffer is overwritten until the next `Vsync`.
* **Frequency.** Periods below 23 samples give quotients of more than 16 bits, and
  cursors that meet a division by zero.
* **Amplitude.** `EndBit` is held after a throw of the scale switches until a
  cursor moves; at 256ths just below or on the half the integer is one too low; the
  scale of 128 is 0 in its register; below one volt the fraction has four bits.
* **Device locks.** `alt_fd_lock` stops before `alt_max_fd`, so that the highest
  descriptor does not count when a device is locked. A device once locked does
  keep others out (`LockIsKept`).
* **isatty** looks at `st_mode` although `fstat` may have failed.
* **The UART's timeout.** With a clock, `write` gives up on any idle period seen
  after its spin and returns what it has, or an error, to a host that listens;
  `PresentWithoutClock` is stated for the build without one.
* **Alarms.** A callback that stops the alarm `alt_tick` has saved as the next one
  leaves it pointing to itself, and the walk never ends (`derailed`).
* **settimeofday** multiplies ticks in 32 bits, `gettimeofday` in 64.

## 4. Proofs

For all values of the constants, under the named assumptions of the modules.

* `CaptureFrame_proofs`, the raster: from the invariant `RasterInv`, which ties every
  register to the two counters and the clock levels, `VGATypeCorrect`,
  `RasterIsConsistent`, `BlankIsTheScreen`, `PulsesNeverOverlap`, `ResetFreezes`. The pulses need the
  strengthening: they overlap unless the two conditions are more than one edge
  apart, which follows from the pixel counters being functions of the raster.
* `CaptureFrame_proofs`, the shot. `CaptureInv` adds to `RasterInv` that the pixel
  clock has its two phases while a shot may be under way (`ClockInv`), where in the
  raster the first pulse is up (`PulseInv`), that the address is 0 wherever its
  register is kept (`HandshakeInv`), what the two latches and the mask hold
  (`LatchInv`) and, while a frame is being stored, that the address is the place of
  the raster's pixel and every earlier word is that frame's (`ShotInv`). The ends of
  the lines are what makes it hard: the address stops with `Blank_N`, the data do
  not. `ShotInvariant`, `FinishedShotIsOneFrame`, `FinishedShotStays`, for every
  timing and screen size, under `PromptReader`.
* `ScreenShot_proofs`: `PathInv` joins types, the control points of the
  program and the handshake: whoever is past the decision to read has seen a
  flag that cannot fall, because `Release` needs a response that only the program
  raises. It gives `ShotTypeCorrect`, `MutualExclusion`, `NoUseAfterClose`,
  `AddressIsFetched` and, with `PromptReader`, `ShotsAreNoticed`. With
  `HoldsSwitch` as well, `CopyInv` adds that the switch is up while the program
  reads, so that the bus carries the addressed word: `FileCopiesTheShot`.
* `DeBouncer_proofs`: `CounterInv` says that a counter below the threshold never
  runs ahead of the times measured, and that a risen flag left its counter at 0 or
  one past the threshold. `LowPulsesAreLong`, `RisesAreSettled`,
  `ResetsAreDebounced`.
* `GUI_proofs`, the cursors: `SpacingInv` says where the counter can be between two
  moves of one hold: either it has no more than the time since the move, or it
  went on from its half; in neither case does it meet both toggles too early.
  `CursorTypeCorrect`, `MovesAreSpacedAlways`.
* `GUI_proofs`, the measurements. `DigitsAreRight`: after iteration i the register
  holds the digits of the first i bits, three added where a digit is above four,
  for every value of sixteen bits; the recursive function is compared with the one
  that gives these digits directly, which needs no induction over data, only the
  sixteen equations. `FrequencyIsDrawn` follows, since from 23 samples on the
  quotient fits. `AmplitudeIsDrawn`: `AmplitudeInv` says that the end bit fits the
  exponent once a cursor has moved. The word of the result is followed for each of
  the eighteen places of its first bit: from one volt on the extracted bits are the
  256ths (`BitsFromOne`), below they are the first bit's place and the four bits
  after it (`BitsBelowOne`); `IntegerFromOne` shows that the converter's rounding
  is undone exactly, but at the half, which `AtTheHalf` names. TLC sees distances up
  to 23 rows, the theorem is about all 217.
* `Memory_Management_proofs`: `MemoryInv` says where the two state machines can be
  relative to each other. Until the first unpaused swap nothing is recorded; from
  then on one buffer is enabled, and while its recording runs the address is not
  behind the edges of `CS` counted since the swap, so that a frame cannot end
  before the recording does. A swap thus finds a buffer that holds consecutive
  samples. `MemoryInvariant`, `DisplayIsARecording`, `PauseKeepsDisplay`.
* `Jtag_Uart_proofs`: `JtagInv` adds to the types that a copy not yet published fits
  the free part of its ring, or comes from the filled part (although the interrupt
  routine has moved the other pointer meanwhile), that the routine never counts on
  more room than the FIFO has, and that without a clock the host is never given up:
  `JtagInvariant`, `JtagTypeCorrect`, `InterruptsStayOn`, `PresentWithoutClockAlways`.
* `Jtag_Uart_proofs`, the refinement. The lemmas say what moving either pointer
  does to `Held`; every step then is a `Put`, a `Get` or a stutter of each channel:
  `TransmitRefines`, `ReceiveRefines`, for rings and FIFOs of any size.
* `Alt_Files_proofs`: `FilesInv` ties entries, mark and handles together. One lemma
  for each operator on the pool says what it keeps, the calls compose them:
  `FilesTypeCorrect`, `StandardStaysOpen`, `MarkStaysHigh`, `HandlesAreOwned`,
  `OnlyOpenGrows`, `LockIsKept`.
* `Alt_Alarm_proofs`: `AlarmInv` has four parts. The ring, `ListIsRing`: an alarm
  that is started or stopped changes what follows the head or its own neighbours,
  and from any set closed under the new links one closed under the old ones is
  made, so that nobody is lost; no induction along the list is needed. The walk,
  `CursorInv`: it stands at a registered entry, unless a callback has stopped the
  saved one. The times, `TimedInv`: an alarm's word is `due` ticks ahead of the
  counter, with the flag up if it has to wrap, and an alarm that this tick has not
  yet dealt with lies ahead of the walk (`Pending`). The day, `DayInv`: what the two
  halves of the offset stand for. `AlarmInvariant`, `AlarmsInOneRing`,
  `AlarmsAreOnTime`, `TimeOfDayGoesOn`, for any number of alarms, counter width and
  tick rate that divides the microseconds of a second.

Assumed: `TimingAssumption` (limits in the order the code has them, at least 3x2
visible pixels), `LastWordAssumption`, `FilesAssumption` (of the reader, and of `Alt_Files`),
`CounterAssumption` (the counter can exceed the threshold), `CursorAssumption`
(two half periods fit in the counter's period, fields are not empty),
`BufferAssumption` (a frame has more edges of `CS` than a buffer slots),
`JtagAssumption` (a ring has two slots or more, a threshold is below its depth),
`AlarmAssumption` (intervals below the counter's period, a whole number of
microseconds to a tick), `TimeAssumption` and `AmplitudeAssumption` (where the
cursors can be, `GUI.v:113-140`, `264-308`), `CaptureAssumption` (a frame has two
words to a pixel). The code's own numbers satisfy all of them.

Only proved, and checked by no run: `PulsesNeverOverlap`, `ResetFreezes`,
`NoUseAfterClose`, `AddressIsFetched`, `DebouncerTypeCorrect`, `MarkStaysHigh`,
`LockIsKept`.

Only model-checked: liveness under fairness (`FrameRecurs`, `ShotFinishes`,
`ShotIsAnswered`, `HeldSwitchIsSeen`, `HeldButtonUpdates`, `TurnsGoOn`,
`BlockedWriteReturns`, `BlockedReadReturns`, `Delivered`, `AlarmIsCalled`), which is
out of the prover's reach. Every other property of a passing run is a theorem. The
one run with a violation has no theorem, since its property is false.

## 5. Not modelled

* The drawing of the layers, the image addresses and the ADC controller (section 6).
* Text and font tables are constants. `Read_Write_Control.v` and `BitShifter.v` are
  not instantiated. The Qsys system, the memory, divider and floating point cores
  are generated; their behaviour enters where the code uses it.
* The synchroniser of `Test.v`, metastability, pad delays and the JTAG transport.
  `WE_N` and the address of the SRAM switch on one edge; what the chip stores then
  is a matter of delays.
* Of the BSP: entry and dispatch of exceptions and interrupts (processor specific;
  what they do for the UART is in `Jtag_Uart`), cache flushes, formatted output and
  its logging variant, profiling, the heap, loading, DMA channels and flash, which
  the program never calls, and the system calls that only return an error.
* Of the drawing block, but for those addresses: a pixel's colour is a function of
  counters and registers that it does not affect.

Most lines of the repository that are not modelled are of these kinds: generated
register headers, configuration constants, functions that hold no state, and code
never linked into this program.

## 6. Plan

1. Drawing block: the addresses of channel buffers and images of `GUI.v`, and the
   loading bar that still shows the last shot.
2. ADC controller: one frame, twelve bits, the edge shared by `CS` and `SCLK`.
3. The program's file traffic composed with `Alt_Files`, so that the leak of the idle
   loop exhausts the real pool.
4. Interrupt registration and dispatch (`alt_iic.c`, `alt_irq_handler.c`) under
   `Jtag_Uart`.
5. Proofs: an abstract specification of the shot, a picture handed over whole, that
   `CaptureFrame` implements, and the composition of its theorems with those of
   `ScreenShot`: what is printed is one frame.
