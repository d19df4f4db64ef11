------------------------ MODULE CaptureFrame_proofs ------------------------
(***************************************************************************)
(* Proofs about the raster generator, for every raster the timing          *)
(* assumption allows and every pattern of resets, and about a screen shot  *)
(* taken from it: where the address register stands at each point of a     *)
(* frame, so that a finished shot is one picture.                          *)
(***************************************************************************)
EXTENDS CaptureFrame, TLAPS

\* What the blanking flag and the frame pulses owe to the counters, in a form
\* a step preserves: BlankMatchesScreen and FlagsExclusive follow from it.
BlankInv ==
  H_Counter # 0 =>
    (Blank_N = 1 <=> HStart + 1 < H_Counter /\ H_Counter <= HEnd /\ VVisible)

FlagInv ==
  /\ ScreenActiveStart_Flag = 1 => H_Pixel <= 1
  /\ ScreenActiveFinish_Flag = 1 => H_Counter \in {0, HEnd - 1, HEnd}
  /\ FlagsExclusive

RasterInv == VGATypeOK /\ CountersTrackRaster /\ BlankInv /\ FlagInv

\* Reset and the derived clock are bits, and the clock only moves out of reset.
LEMMA ClockStep ==
  ASSUME VGATypeOK, Tick
  PROVE  /\ {Reset', Divider', VGA_CLK', ScreenActiveStart_Flag',
             ScreenActiveFinish_Flag'} \subseteq Bit
         /\ PixelEdge => Reset = 1
BY DEF VGATypeOK, Tick, PixelClock, PixelEdge, ScreenFlags, Bit

\* Hsync is clocked by VGA_CLK: without a pixel clock edge no line begins.
LEMMA LineEdgeNeedsPixelEdge ==
  ASSUME Tick, ~PixelEdge
  PROVE  UNCHANGED <<lineRegs, frameRegs>>
BY DEF Tick, LineEdge, lineRegs

\* Where the line registers go on a pixel clock edge.
LEMMA LineStep ==
  ASSUME VGATypeOK, CountersTrackRaster, NEW r \in Bit, LineBlocks(r)
  PROVE  /\ {Hsync', Blank_N'} \subseteq Bit
         /\ H_Counter' \in 0..HLast /\ H_Pixel' \in 0..Width
         /\ Hsync' = IF H_Counter' > HSyncEnd + 1 THEN 1 ELSE 0
         /\ H_Pixel' = IF HStart + 1 < H_Counter' /\ H_Counter' <= HEnd
                       THEN H_Counter' - HStart - 1 ELSE 0
         /\ H_Counter' # 0 => /\ H_Counter' = H_Counter + 1
                              /\ Blank_N' = 1 <=> HVisible /\ VVisible
<1> USE TimingAssumption DEF Width, Bit
<1>1. CASE r = 0
  BY <1>1 DEF LineBlocks, EndOfLine, VGATypeOK, CountersTrackRaster
<1>2. CASE r = 1
  BY <1>2 DEF LineBlocks, EndOfLine, VGATypeOK, CountersTrackRaster, HVisible
<1>3. QED BY <1>1, <1>2

\* Where the frame registers go on a rising edge of Hsync.
LEMMA FrameStep ==
  ASSUME VGATypeOK, CountersTrackRaster, NEW r \in Bit, FrameBlocks(r)
  PROVE  /\ Vsync' \in Bit
         /\ V_Counter' \in 0..VLast /\ V_Pixel' \in 0..Height
         /\ V_Pixel' = IF VStart + 1 <= V_Counter' /\ V_Counter' <= VEnd
                       THEN V_Counter' - VStart - 1 ELSE 0
         /\ Vsync' = IF V_Counter' > 1 THEN 1 ELSE 0
<1> USE TimingAssumption DEF Width, Height, Bit
<1>1. CASE r = 0
  BY <1>1 DEF FrameBlocks, EndOfFrame, VGATypeOK, CountersTrackRaster
<1>2. CASE r = 1
  BY <1>2 DEF FrameBlocks, EndOfFrame, VGATypeOK, CountersTrackRaster, VVisible
<1>3. QED BY <1>1, <1>2

\* The frame pulses, on a step that may also move the line counters.
LEMMA FlagStep ==
  ASSUME VGATypeOK, CountersTrackRaster, FlagInv, ScreenFlags,
         H_Counter' \in {0, H_Counter, H_Counter + 1},
         H_Counter' = H_Counter => H_Pixel' = H_Pixel,
         H_Pixel' = IF HStart + 1 < H_Counter' /\ H_Counter' <= HEnd
                    THEN H_Counter' - HStart - 1 ELSE 0
  PROVE  FlagInv'
<1> USE TimingAssumption
    DEF VGATypeOK, CountersTrackRaster, FlagInv, FlagsExclusive, Width, Height, Bit
<1>1. CASE FirstPixel
  <2>1. H_Counter = HStart + 1
    BY <1>1 DEF FirstPixel
  <2>2. ScreenActiveFinish_Flag' # 1
    BY <1>1, <2>1 DEF ScreenFlags
  <2>3. H_Pixel' <= 1
    BY <2>1
  <2>4. QED BY <2>2, <2>3
<1>2. CASE ~FirstPixel /\ LastPixel
  <2>1. H_Counter = HEnd - 1 /\ H_Pixel > 1
    BY <1>2 DEF LastPixel
  <2>2. ScreenActiveStart_Flag' # 1
    BY <1>2, <2>1 DEF ScreenFlags
  <2>3. H_Counter' \in {0, HEnd - 1, HEnd}
    BY <2>1
  <2>4. QED BY <2>2, <2>3
<1>3. CASE ~FirstPixel /\ ~LastPixel
  BY <1>3 DEF ScreenFlags
<1>4. QED BY <1>1, <1>2, <1>3

\* Every tick of the oscillator preserves the raster invariant.
LEMMA TickKeepsRaster ==
  ASSUME RasterInv, Tick
  PROVE  RasterInv'
<1> USE DEF RasterInv
<1>1. CASE ~PixelEdge
  <2>1. UNCHANGED <<lineRegs, frameRegs>>
    BY <1>1, LineEdgeNeedsPixelEdge
  <2>2. VGATypeOK' /\ CountersTrackRaster' /\ BlankInv'
    BY <2>1, ClockStep DEF VGATypeOK, CountersTrackRaster, BlankInv, VVisible,
       lineRegs, frameRegs
  <2>3. ScreenFlags
    BY DEF Tick
  <2>4. FlagInv'
    BY <2>1, <2>2, <2>3, FlagStep DEF CountersTrackRaster, lineRegs
  <2>5. QED BY <2>2, <2>4
<1>2. CASE PixelEdge
  <2>1. PICK r \in Bit : LineBlocks(r)
    BY <1>2, ClockStep DEF Tick, ResetSeen, VGATypeOK
  <2>2. /\ {Hsync', Blank_N'} \subseteq Bit
        /\ H_Counter' \in 0..HLast /\ H_Pixel' \in 0..Width
        /\ Hsync' = IF H_Counter' > HSyncEnd + 1 THEN 1 ELSE 0
        /\ H_Pixel' = IF HStart + 1 < H_Counter' /\ H_Counter' <= HEnd
                      THEN H_Counter' - HStart - 1 ELSE 0
        /\ H_Counter' # 0 => /\ H_Counter' = H_Counter + 1
                             /\ Blank_N' = 1 <=> HVisible /\ VVisible
    BY <2>1, LineStep
  <2>3. ScreenFlags
    BY DEF Tick
  <2>4. FlagInv'
    <3>1. H_Counter' \in {0, H_Counter, H_Counter + 1}
      BY <2>2
    <3>2. H_Counter' = H_Counter => H_Pixel' = H_Pixel
      BY <2>2 DEF CountersTrackRaster
    <3>3. QED BY <2>2, <2>3, <3>1, <3>2, FlagStep
  <2>5. CASE LineEdge
    <3>1. PICK s \in Bit : FrameBlocks(s)
      BY <2>5, ClockStep DEF Tick, ResetSeen, VGATypeOK
    <3>2. VGATypeOK' /\ CountersTrackRaster'
      BY <2>2, <3>1, FrameStep, ClockStep DEF VGATypeOK, CountersTrackRaster
    <3>3. BlankInv'
      BY <2>2, <2>5, TimingAssumption
      DEF LineEdge, BlankInv, HVisible, VGATypeOK, CountersTrackRaster
    <3>4. QED BY <2>4, <3>2, <3>3
  <2>6. CASE ~LineEdge
    <3>1. UNCHANGED frameRegs
      BY <2>6 DEF Tick
    <3>2. VGATypeOK' /\ CountersTrackRaster'
      BY <2>2, <3>1, ClockStep DEF VGATypeOK, CountersTrackRaster, frameRegs
    <3>3. BlankInv'
      BY <2>2, <3>1, TimingAssumption
      DEF BlankInv, HVisible, VVisible, VGATypeOK, frameRegs
    <3>4. QED BY <2>4, <3>2, <3>3
  <2>7. QED BY <2>5, <2>6
<1>3. QED BY <1>1, <1>2

\* It holds of the registers as they power up.
LEMMA RasterBegins == VGAInit => RasterInv
BY TimingAssumption
DEF VGAInit, RasterInv, VGATypeOK, CountersTrackRaster, BlankInv, FlagInv,
    FlagsExclusive, Width, Height, Bit

\* The raster invariant, the inductive core of the safety theorems.
THEOREM RasterInvariant == VGASpec => []RasterInv
<1>1. VGAInit => RasterInv
  BY RasterBegins
<1>2. RasterInv /\ [Tick]_vgaVars => RasterInv'
  <2>1. CASE Tick
    BY <2>1, TickKeepsRaster
  <2>2. CASE UNCHANGED vgaVars
    BY <2>2 DEF vgaVars, mainRegs, lineRegs, frameRegs, RasterInv, VGATypeOK,
       CountersTrackRaster, BlankInv, FlagInv, FlagsExclusive, VVisible
  <2>3. QED BY <2>1, <2>2
<1>3. QED BY <1>1, <1>2, PTL DEF VGASpec

\* The registers stay in their ranges.
THEOREM VGATypeCorrect == VGASpec => []VGATypeOK
BY RasterInvariant, PTL DEF RasterInv

\* Coordinates and sync pulses follow the raster counters, across resets.
THEOREM RasterIsConsistent == VGASpec => []CountersTrackRaster
BY RasterInvariant, PTL DEF RasterInv

\* The blanking flag marks the visible pixels and nothing else.
THEOREM BlankIsTheScreen == VGASpec => []BlankMatchesScreen
<1>1. RasterInv => BlankMatchesScreen
  BY TimingAssumption
  DEF RasterInv, BlankInv, BlankMatchesScreen, VVisible, VGATypeOK,
      CountersTrackRaster, Width
<1>2. QED BY <1>1, RasterInvariant, PTL

\* The first-pixel and last-pixel pulses never overlap.
THEOREM PulsesNeverOverlap == VGASpec => []FlagsExclusive
BY RasterInvariant, PTL DEF RasterInv, FlagInv

\* A reset freezes the raster, whatever state it finds it in.
THEOREM ResetFreezes == VGASpec => ResetFreezesRaster
<1>1. ASSUME VGATypeOK, [Tick]_vgaVars, Reset = 0
      PROVE  UNCHANGED <<lineRegs, frameRegs>>
  <2>1. CASE Tick
    BY <1>1, <2>1, ClockStep, LineEdgeNeedsPixelEdge
  <2>2. CASE UNCHANGED vgaVars
    BY <2>2 DEF vgaVars
  <2>3. QED BY <1>1, <2>1, <2>2
<1>2. VGATypeOK /\ [Tick]_vgaVars
        => [Reset = 0 => UNCHANGED <<lineRegs, frameRegs>>]_vgaVars
  BY <1>1
<1>3. QED BY <1>2, VGATypeCorrect, PTL DEF VGASpec, ResetFreezesRaster

-----------------------------------------------------------------------------
(* Columns, rows and pixels.                                               *)

LEMMA TimesGrows ==
  ASSUME NEW w \in Nat, NEW a \in Nat, NEW b \in Nat, a <= b
  PROVE  a * w \in Nat /\ b * w \in Nat /\ a * w <= b * w /\ (a + 1) * w = a * w + w
<1>1. PICK d \in Nat : b = a + d
  <2>1. b - a \in Nat /\ b = a + (b - a)
    OBVIOUS
  <2> QED
    BY <2>1
<1>2. b * w = a * w + d * w /\ d * w >= 0 /\ a * w >= 0
  BY <1>1
<1>3. (a + 1) * w = a * w + w
  OBVIOUS
<1> QED
  BY <1>2, <1>3

\* A pixel's number says its row and its column.
LEMMA RowAndColumn ==
  ASSUME NEW w \in Nat, NEW row \in Nat, NEW col \in Nat, col < w
  PROVE  (row * w + col) \div w = row /\ (row * w + col) % w = col
<1> DEFINE x == row * w + col
           q == x \div w
           r == x % w
<1>1. x \in Nat
  BY TimesGrows
<1>2. q \in Int /\ r \in Int /\ 0 <= r /\ r < w /\ x = q * w + r
  <2> HIDE DEF x
  <2> QED
    BY <1>1, SMT
<1> HIDE DEF q, r
<1>3. q = row
  <2>1. CASE q < row
    <3>1. CASE q < 0
      <4>1. -q \in Nat /\ 1 <= -q
        BY <1>2, <3>1
      <4>2. 1 * w <= (-q) * w
        BY <4>1, TimesGrows
      <4>3. (-q) * w = -(q * w)
        BY <1>2
      <4> QED
        BY <1>1, <1>2, <4>2, <4>3
    <3>2. CASE q >= 0
      <4>1. (q + 1) * w <= row * w /\ (q + 1) * w = q * w + w
        BY <1>2, <2>1, <3>2, TimesGrows
      <4> QED
        BY <1>2, <4>1
    <3> QED
      BY <1>2, <3>1, <3>2
  <2>2. CASE row < q
    <3>1. (row + 1) * w <= q * w /\ (row + 1) * w = row * w + w
      BY <1>2, <2>2, TimesGrows
    <3> QED
      BY <1>2, <3>1
  <2> QED
    BY <1>2, <2>1, <2>2
<1> QED
  BY <1>2, <1>3 DEF q, r

LEMMA Sizes ==
  /\ Width \in Nat /\ Height \in Nat /\ Width >= 3 /\ Height >= 2
  /\ HEnd = HStart + 1 + Width /\ VEnd = VStart + 1 + Height
  /\ Width * Height \in Nat /\ Width * Height >= 6
<1>1. /\ Width \in Nat /\ Height \in Nat /\ Width >= 3 /\ Height >= 2
      /\ HEnd = HStart + 1 + Width /\ VEnd = VStart + 1 + Height
  BY TimingAssumption DEF Width, Height
<1> HIDE DEF Width, Height
<1>2. 2 * Width <= Height * Width /\ Height * Width \in Nat
  BY <1>1, TimesGrows
<1>3. Height * Width = Width * Height
  BY <1>1
<1> QED
  BY <1>1, <1>2, <1>3

\* The pixels before a row of the screen.
LEMMA RowsFit ==
  ASSUME NEW row \in Nat, row < Height
  PROVE  /\ row * Width \in Nat /\ row * Width + Width <= Width * Height
         /\ row = Height - 1 => row * Width + Width = Width * Height
         /\ (row + 1) * Width = row * Width + Width
<1>1. Width \in Nat /\ Height \in Nat
  BY Sizes
<1> HIDE DEF Width, Height
<1>2. (row + 1) * Width <= Height * Width /\ (row + 1) * Width = row * Width + Width
  BY <1>1, TimesGrows
<1>3. Height * Width = Width * Height /\ row * Width \in Nat
  BY <1>1, TimesGrows
<1> QED
  BY <1>1, <1>2, <1>3

-----------------------------------------------------------------------------
(* Where the raster goes.                                                  *)

\* An edge that no reset touches.
LEMMA RasterMoves ==
  ASSUME RasterInv, Tick, Reset = 1, Reset' = 1
  PROVE  /\ PixelEdge <=> VGA_CLK = 0 /\ Divider = 1
         /\ VGA_CLK' = Divider /\ Divider' = 1 - Divider
         /\ ~PixelEdge => UNCHANGED <<lineRegs, frameRegs>>
         /\ PixelEdge =>
              /\ H_Counter' = IF H_Counter = HLast THEN 0 ELSE H_Counter + 1
              /\ V_Counter' = IF H_Counter = HSyncEnd + 1
                              THEN IF V_Counter > 0 /\ V_Counter = VLast THEN 0
                                   ELSE V_Counter + 1
                              ELSE V_Counter
              /\ Blank_N' = IF HVisible /\ VVisible THEN 1 ELSE 0
<1>1. VGA_CLK' = Divider /\ Divider' = 1 - Divider
  BY DEF Tick, PixelClock
<1>2. PixelEdge <=> VGA_CLK = 0 /\ Divider = 1
  BY <1>1 DEF PixelEdge
<1>3. ~PixelEdge => UNCHANGED <<lineRegs, frameRegs>>
  BY LineEdgeNeedsPixelEdge
<1>4. ASSUME PixelEdge
      PROVE  /\ H_Counter' = IF H_Counter = HLast THEN 0 ELSE H_Counter + 1
             /\ V_Counter' = IF H_Counter = HSyncEnd + 1
                             THEN IF V_Counter > 0 /\ V_Counter = VLast THEN 0
                                  ELSE V_Counter + 1
                             ELSE V_Counter
             /\ Blank_N' = IF HVisible /\ VVisible THEN 1 ELSE 0
  <2>1. LineBlocks(1)
    BY <1>4 DEF Tick, ResetSeen
  <2>2. LineEdge => FrameBlocks(1)
    BY DEF Tick, ResetSeen
  <2>3. ~LineEdge => UNCHANGED frameRegs
    BY DEF Tick
  <2>4. HSyncEnd \in Nat /\ HStart \in Nat /\ HLast \in Nat /\ HEnd \in Nat
          /\ HSyncEnd < HStart /\ HStart + 4 <= HEnd /\ HEnd <= HLast
    BY TimingAssumption DEF Width
  <2>5. H_Counter \in Nat /\ H_Counter <= HLast
    BY <2>4 DEF RasterInv, VGATypeOK
  <2>6. H_Counter' = IF H_Counter = HLast THEN 0 ELSE H_Counter + 1
    BY <2>1, <2>4, <2>5 DEF LineBlocks, EndOfLine
  <2>7. Hsync = IF H_Counter > HSyncEnd + 1 THEN 1 ELSE 0
    BY DEF RasterInv, CountersTrackRaster
  <2>8. Hsync' = IF H_Counter > HSyncEnd /\ H_Counter # HLast THEN 1 ELSE 0
    BY <2>1, <2>4, <2>5 DEF LineBlocks, EndOfLine
  <2>9. LineEdge <=> H_Counter = HSyncEnd + 1
    BY <2>4, <2>5, <2>7, <2>8 DEF LineEdge
  <2>10. V_Counter' = IF H_Counter = HSyncEnd + 1
                      THEN IF V_Counter > 0 /\ V_Counter = VLast THEN 0
                           ELSE V_Counter + 1
                      ELSE V_Counter
    BY <2>2, <2>3, <2>9 DEF FrameBlocks, EndOfFrame, frameRegs
  <2>11. Blank_N' = IF HVisible /\ VVisible THEN 1 ELSE 0
    BY <2>1 DEF LineBlocks
  <2> QED
    BY <2>6, <2>10, <2>11
<1> QED
  BY <1>1, <1>2, <1>3, <1>4

-----------------------------------------------------------------------------
(* The invariant of a shot.                                                *)

\* The pixel clock has its two phases as long as a shot may be under way.
ClockInv ==
  /\ VGA_CLK = 1 => Divider = 0
  /\ Reset = 1 /\ ScreenCapture = 1 => Divider = 1 - VGA_CLK

\* Where the first pulse is up: a pixel clock before the first pixel, and the
\* first half of that pixel.
PulseInv ==
  ScreenActiveStart_Flag = 1 /\ Reset = 1 =>
    V_Counter = VStart + 1
      /\ (H_Counter = HStart + 1 \/ (H_Counter = HStart + 2 /\ VGA_CLK = 1))

\* A shot begins at address 0: where the address register is kept it is 0.
HandshakeInv ==
  /\ WriteFinish_Flag = 1 => Pixel_Address = 0
  /\ Nios_Finish_Reading_Flag = 1 =>
       Pixel_Address = 0 /\ (ScreenCapture = 0 \/ WriteFinish_Flag = 1)
  /\ Reset = 0 => Nios_Finish_Reading_Flag = 0

\* The two latches and the mask.
LatchInv ==
  /\ IgniteAddressing = 1 => ScreenCapture = 1
  /\ IgniteAddressing = 1 /\ Reset = 1 => StartFlagDetected = 1
  /\ ScreenActiveFinish_Flag = 1 => IgniteAddressing = 0
  /\ Data_Vaild_Flag = IF Reset = 0 THEN 0 ELSE IgniteAddressing

\* The pixel clocks at which Blank_N is high, if the line is one of the screen.
OnScreen == HStart + 2 <= H_Counter /\ H_Counter <= HEnd

\* How many pixels of the frame are over: those of the rows above and those of
\* this row.  V_Counter goes up between the blanking and the first pixel.
RowBase == V_Pixel * Width
Passed ==
  IF OnScreen THEN RowBase + (H_Pixel - 1)
  ELSE IF H_Counter > HSyncEnd + 1 /\ H_Counter <= HStart + 1 THEN RowBase
  ELSE RowBase + Width

\* The address that belongs there: two words for each, and one in the second
\* half of a pixel.
Place == 2 * Passed + (IF OnScreen /\ VGA_CLK = 0 THEN 1 ELSE 0)

\* From the first pulse to the last the raster is inside the screen.
Working ==
  /\ V_Counter \in Nat /\ VStart < V_Counter /\ V_Counter < VEnd
  /\ V_Counter = VStart + 1 /\ H_Counter > HSyncEnd + 1 => H_Counter > HStart
  /\ V_Counter = VEnd - 1 =>
       /\ H_Counter > HSyncEnd + 1 /\ H_Counter < HEnd
       /\ H_Counter = HEnd - 1 => VGA_CLK = 1
  /\ Blank_N = 1 <=> OnScreen

\* The words of frame f up to address a.
StoredUpTo(f, a) ==
  \A p \in 0..LastStored :
    /\ 2 * p + 1 <= a => HoldsRedGreen(f, p)
    /\ 2 * p + 2 <= a /\ ~RightEdge(p) => HoldsBlue(f, p)

Stored ==
  \E f \in Bit : \A p \in 0..LastStored :
    HoldsRedGreen(f, p) /\ (~RightEdge(p) => HoldsBlue(f, p))

\* The address at which a shot waits from the last pulse to the next first one.
LastHeld == 2 * (Width * Height) - 3

\* The frame is being stored.
AtWork ==
  /\ Working
  /\ OnScreen => Pixel_Data = Pixel(frame, V_Pixel, H_Pixel - 1)
  /\ Pixel_Address = Place
  /\ StoredUpTo(frame, Pixel_Address)

\* The first pixel of the next frame takes the address to the last word.
Closing ==
  /\ Stored /\ V_Counter = VStart + 1
  /\ \/ H_Counter = HStart + 1 /\ Blank_N = 0 /\ Pixel_Address = LastHeld
     \/ H_Counter = HStart + 2 /\ Blank_N = 1
          /\ Pixel_Address = IF VGA_CLK = 1 THEN LastHeld ELSE LastHeld + 1
     \/ H_Counter = HStart + 3 /\ Pixel_Address = LastWord

ShotInv ==
  /\ WriteFinish_Flag = 1 => Stored
  /\ Writing /\ Reset = 1 =>
       \/ IgniteAddressing = 0 /\ Pixel_Address = 0
       \/ IgniteAddressing = 0 /\ Pixel_Address = LastHeld /\ Stored
       \/ IgniteAddressing = 1 /\ (AtWork \/ Closing)

CaptureTypeOK ==
  /\ {ScreenCapture, WriteFinish_Flag, Nios_Finish_Reading_Flag, StartFlagDetected,
      IgniteAddressing, Data_Vaild_Flag, frame} \subseteq Bit
  /\ Pixel_Address \in Nat /\ DOMAIN SRAM = 0..LastWord

CaptureInv ==
  /\ RasterInv /\ CaptureTypeOK /\ ClockInv /\ PulseInv
  /\ HandshakeInv /\ LatchInv /\ ShotInv


LEMMA PhasesKept ==
  ASSUME CaptureInv, CaptureTick
  PROVE  ClockInv'
<1>1. /\ Reset \in Bit /\ VGA_CLK \in Bit /\ Divider \in Bit
      /\ Reset = 0 => Divider' = 0 /\ VGA_CLK' = VGA_CLK
      /\ Reset # 0 => Divider' = 1 - Divider /\ VGA_CLK' = Divider
  BY DEF CaptureInv, RasterInv, VGATypeOK, CaptureTick, Tick, PixelClock
<1>2. Reset = 0 => ScreenCapture' = 0
  BY DEF CaptureTick, Switch
<1> QED
  BY <1>1, <1>2 DEF ClockInv, Bit

LEMMA PulseKept ==
  ASSUME CaptureInv, CaptureTick
  PROVE  PulseInv'
<1> SUFFICES ASSUME ScreenActiveStart_Flag' = 1, Reset' = 1
             PROVE  V_Counter' = VStart + 1
                      /\ (H_Counter' = HStart + 1 \/ (H_Counter' = HStart + 2 /\ VGA_CLK' = 1))
  BY DEF PulseInv
<1>1. RasterInv /\ Tick
  BY DEF CaptureInv, CaptureTick
<1>2. FirstPixel
  <2>1. ASSUME ScreenActiveStart_Flag = 1 PROVE ~LastPixel
    BY <1>1, <2>1, Sizes DEF RasterInv, FlagInv, LastPixel
  <2> QED
    BY <1>1, <2>1 DEF Tick, ScreenFlags
<1>3. CASE PixelEdge
  <2>1. Reset = 1
    BY <1>1, <1>3, ClockStep DEF RasterInv
  <2>2. /\ VGA_CLK' = 1
        /\ H_Counter' = IF H_Counter = HLast THEN 0 ELSE H_Counter + 1
        /\ V_Counter' = IF H_Counter = HSyncEnd + 1
                        THEN IF V_Counter > 0 /\ V_Counter = VLast THEN 0
                             ELSE V_Counter + 1
                        ELSE V_Counter
    BY <1>1, <1>3, <2>1, RasterMoves DEF PixelEdge
  <2> QED
    BY <1>2, <2>2, TimingAssumption DEF FirstPixel, Width
<1>4. CASE ~PixelEdge
  BY <1>1, <1>2, <1>4, LineEdgeNeedsPixelEdge DEF FirstPixel, lineRegs, frameRegs
<1> QED
  BY <1>3, <1>4

\* When nothing is written the address becomes, or stays, 0.
LEMMA IdleAddress ==
  ASSUME CaptureInv, CaptureTick, Reset = 0 \/ ~Writing
  PROVE  Pixel_Address' = 0
<1>1. WriteControl(Blank_N) /\ HandshakeInv
  BY DEF CaptureInv, CaptureTick, WriterStep
<1> QED
  BY <1>1 DEF HandshakeInv, WriteControl, AdvanceAddress, Release, Rest

LEMMA HandshakeKept ==
  ASSUME CaptureInv, CaptureTick, PromptReader
  PROVE  HandshakeInv'
<1>1. WriteControl(Blank_N) /\ HandshakeInv /\ CaptureTypeOK /\ Reset \in Bit /\ Reset' \in Bit
  BY DEF CaptureInv, RasterInv, VGATypeOK, CaptureTick, WriterStep, Tick
<1>2. WriteFinish_Flag' = 1 => Pixel_Address' = 0
  BY <1>1 DEF HandshakeInv, WriteControl, AdvanceAddress, Release, Rest
<1>3. Reader /\ Switch
  BY DEF CaptureTick
<1>4. Reset' = 0 => Nios_Finish_Reading_Flag' = 0
  BY <1>3 DEF Reader
<1>5. ASSUME Nios_Finish_Reading_Flag' = 1
      PROVE  Pixel_Address' = 0 /\ (ScreenCapture' = 0 \/ WriteFinish_Flag' = 1)
  <2>1. CASE Reset = 0
    BY <1>3, <2>1, IdleAddress DEF Switch
  <2>2. CASE Reset # 0 /\ Nios_Finish_Reading_Flag = 1
    <3>1. ~Writing
      BY <1>1, <2>2 DEF HandshakeInv, Writing
    <3>2. ScreenCapture = 0 => ScreenCapture' = 0
      BY <1>1, <1>3, <2>2 DEF Switch, CaptureTypeOK, Bit
    <3>3. ScreenCapture # 0 => WriteFinish_Flag = 1 /\ Rest
      BY <1>1, <2>2, <3>1 DEF HandshakeInv, WriteControl, AdvanceAddress, Release
    <3> QED
      BY <3>1, <3>2, <3>3, IdleAddress DEF Rest
  <2>3. CASE Reset # 0 /\ Nios_Finish_Reading_Flag # 1
    <3>1. WriteFinish_Flag = 1
      BY <1>1, <1>3, <1>5, <2>3 DEF Reader, CaptureTypeOK, Bit
    <3>2. ~Writing /\ Rest
      BY <1>1, <2>3, <3>1 DEF Writing, WriteControl, AdvanceAddress, Release
    <3> QED
      BY <3>1, <3>2, IdleAddress DEF Rest
  <2> QED
    BY <2>1, <2>2, <2>3
<1> QED
  BY <1>2, <1>4, <1>5 DEF HandshakeInv

LEMMA LatchesKept ==
  ASSUME CaptureInv, CaptureTick
  PROVE  LatchInv'
<1>1. Latches(ScreenActiveStart_Flag', ScreenActiveFinish_Flag') /\ StoreWord
  BY DEF CaptureTick, WriterStep
<1>2. /\ Reset' \in Bit /\ Reset \in Bit
      /\ ScreenActiveStart_Flag' \in Bit /\ ScreenActiveFinish_Flag' \in Bit
  BY ClockStep DEF CaptureInv, RasterInv, VGATypeOK, CaptureTick
<1>3. Reset = 0 => ScreenCapture' = 0
  BY DEF CaptureTick, Switch
<1>4. LatchInv /\ CaptureTypeOK /\ ScreenCapture' \in Bit
  BY <1>2 DEF CaptureInv, CaptureTick, Switch, Bit
<1>5. /\ IgniteAddressing' = 1 => ScreenCapture' = 1
      /\ ScreenActiveFinish_Flag' = 1 => IgniteAddressing' = 0
  BY <1>1, <1>4 DEF Latches, Bit
<1>6. Data_Vaild_Flag' = IF Reset' = 0 THEN 0 ELSE IgniteAddressing'
  BY <1>1 DEF StoreWord
<1>7. ASSUME IgniteAddressing' = 1, Reset' = 1
      PROVE  StartFlagDetected' = 1
  <2>1. Reset = 1 /\ ScreenActiveFinish_Flag' = 0
    BY <1>2, <1>3, <1>5, <1>7 DEF Bit
  <2>2. CASE ScreenActiveStart_Flag' = 1
    BY <1>1, <1>7, <2>2 DEF Latches
  <2>3. CASE ScreenActiveStart_Flag' = 0
    <3>1. StartFlagDetected' = StartFlagDetected /\ IgniteAddressing' = IgniteAddressing
      BY <1>1, <1>5, <1>7, <2>1, <2>3 DEF Latches
    <3> QED
      BY <1>4, <1>7, <2>1, <3>1 DEF LatchInv
  <2> QED
    BY <1>2, <2>2, <2>3 DEF Bit
<1> QED
  BY <1>5, <1>6, <1>7 DEF LatchInv

LEMMA CaptureTypesKept ==
  ASSUME CaptureInv, CaptureTick
  PROVE  CaptureTypeOK'
<1>1. WriterStep(Blank_N, H_Pixel \in BarColumns /\ V_Pixel \in BarRows, Pixel_Data,
                 ScreenActiveStart_Flag', ScreenActiveFinish_Flag')
        /\ CaptureTypeOK
  BY DEF CaptureInv, CaptureTick
<1>2. ScreenCapture' \in Bit /\ Nios_Finish_Reading_Flag' \in Bit
  BY DEF CaptureTick, Switch, Reader, Bit
<1>3. frame' \in Bit
  BY <1>1 DEF CaptureTick, NextFrame, CaptureTypeOK, Bit
<1>4. WriteFinish_Flag' \in Bit /\ Pixel_Address' \in Nat
  BY <1>1 DEF WriterStep, WriteControl, AdvanceAddress, Release, Rest, CaptureTypeOK, Bit
<1>5. StartFlagDetected' \in Bit /\ IgniteAddressing' \in Bit
  BY <1>1 DEF WriterStep, Latches, CaptureTypeOK, Bit
<1>6. Data_Vaild_Flag' \in Bit /\ DOMAIN SRAM' = 0..LastWord
  BY <1>1, <1>5 DEF WriterStep, StoreWord, CaptureTypeOK, Bit
<1> QED
  BY <1>2, <1>3, <1>4, <1>5, <1>6 DEF CaptureTypeOK

-----------------------------------------------------------------------------
(* What a step writes.                                                     *)

\* A pixel's words are its own.
LEMMA PixelWordIs ==
  ASSUME NEW f, NEW row \in Nat, NEW col \in Nat, col < Width, NEW part
  PROVE  PixelWord(f, row * Width + col, part) =
           IF col + 1 \in BarColumns /\ row \in BarRows
           THEN Zero ELSE Half(Pixel(f, row, col), part)
<1>1. Width \in Nat
  BY Sizes
<1> HIDE DEF Width
<1>2. (row * Width + col) \div Width = row /\ (row * Width + col) % Width = col
  BY <1>1, RowAndColumn
<1> QED
  BY <1>2 DEF PixelWord

\* While the writer writes, one word of the chip changes.
LEMMA WordWritten ==
  ASSUME CaptureTypeOK, CaptureTick, Writing',
         NEW b \in Nat, b = Pixel_Address', b <= LastWord
  PROVE  /\ SRAM'[b] = IF Data_Vaild_Flag = 1 THEN Data' ELSE Zero
         /\ \A n \in Nat : n <= LastWord /\ n # b => SRAM'[n] = SRAM[n]
<1>1. SRAM' = [SRAM EXCEPT ![b] = IF Data_Vaild_Flag = 1 THEN Data' ELSE Zero]
  BY DEF CaptureTick, WriterStep, StoreWord
<1>2. DOMAIN SRAM = 0..LastWord /\ LastWord \in Nat
  BY LastWordAssumption DEF CaptureTypeOK
<1> QED
  BY <1>1, <1>2

\* The step goes on to the next word, or writes the same one again.
LEMMA WordStored ==
  ASSUME NEW f, NEW a \in Nat, NEW b \in Nat,
         b \in {a, a + 1}, b <= LastWord, StoredUpTo(f, a),
         \A n \in Nat : n <= LastWord /\ n # b => SRAM'[n] = SRAM[n],
         \A p \in 0..LastStored :
           /\ 2 * p + 1 = b => SRAM'[b] = PixelWord(f, p, "RG")
           /\ 2 * p + 2 = b /\ ~RightEdge(p) => SRAM'[b] = PixelWord(f, p, "B")
  PROVE  \A p \in 0..LastStored :
           /\ 2 * p + 1 <= b => SRAM'[2 * p + 1] = PixelWord(f, p, "RG")
           /\ 2 * p + 2 <= b /\ ~RightEdge(p) => SRAM'[2 * p + 2] = PixelWord(f, p, "B")
<1> SUFFICES ASSUME NEW p \in 0..LastStored
             PROVE  /\ 2 * p + 1 <= b => SRAM'[2 * p + 1] = PixelWord(f, p, "RG")
                    /\ 2 * p + 2 <= b /\ ~RightEdge(p) =>
                         SRAM'[2 * p + 2] = PixelWord(f, p, "B")
  OBVIOUS
<1>1. p \in Nat
  OBVIOUS
<1>2. LastWord \in Nat
  BY LastWordAssumption
<1>3. /\ 2 * p + 1 <= a => SRAM[2 * p + 1] = PixelWord(f, p, "RG")
      /\ 2 * p + 2 <= a /\ ~RightEdge(p) => SRAM[2 * p + 2] = PixelWord(f, p, "B")
  BY DEF StoredUpTo, HoldsRedGreen, HoldsBlue
<1> HIDE DEF PixelWord, RightEdge, LastStored
<1>5. ASSUME 2 * p + 1 <= b
      PROVE  SRAM'[2 * p + 1] = PixelWord(f, p, "RG")
  BY <1>1, <1>2, <1>3, <1>5
<1>6. ASSUME 2 * p + 2 <= b, ~RightEdge(p)
      PROVE  SRAM'[2 * p + 2] = PixelWord(f, p, "B")
  BY <1>1, <1>2, <1>3, <1>6
<1> QED
  BY <1>5, <1>6

\* Beyond the words of the picture nothing of it is written.
LEMMA PictureStays ==
  ASSUME Stored, NEW b \in Nat, b >= LastHeld,
         \A n \in Nat : n <= LastWord /\ n # b => SRAM'[n] = SRAM[n]
  PROVE  Stored'
<1>1. Width * Height \in Nat /\ Width * Height >= 6 /\ LastWord = 2 * (Width * Height) - 1
  BY Sizes, CaptureAssumption, TimesGrows
<1>2. ASSUME NEW p \in 0..LastStored
      PROVE  SRAM'[2 * p + 1] = SRAM[2 * p + 1] /\ SRAM'[2 * p + 2] = SRAM[2 * p + 2]
  <2> DEFINE N == Width * Height
  <2>1. p \in Nat /\ p <= N - 3 /\ b >= 2 * N - 3
    BY <1>1 DEF LastStored, LastHeld
  <2>3. N \in Nat /\ N >= 6 /\ LastWord = 2 * N - 1
    BY <1>1
  <2> HIDE DEF N
  <2>4. /\ 2 * p + 1 \in Nat /\ 2 * p + 1 <= LastWord
        /\ 2 * p + 2 \in Nat /\ 2 * p + 2 <= LastWord
    BY <2>1, <2>3
  <2>5. 2 * p + 1 # b /\ 2 * p + 2 # b
    BY <2>1, <2>3
  <2> QED
    BY <2>4, <2>5
<1>3. PICK f \in Bit : \A p \in 0..LastStored :
        HoldsRedGreen(f, p) /\ (~RightEdge(p) => HoldsBlue(f, p))
  BY DEF Stored
<1>4. \A p \in 0..LastStored :
        HoldsRedGreen(f, p)' /\ (~RightEdge(p) => HoldsBlue(f, p)')
  <2> HIDE DEF PixelWord, RightEdge, LastStored
  <2> QED
    BY <1>2, <1>3 DEF HoldsRedGreen, HoldsBlue
<1> HIDE DEF HoldsRedGreen, HoldsBlue, LastStored, RightEdge
<1> QED
  BY <1>4 DEF Stored

-----------------------------------------------------------------------------
(* While the frame is being stored.                                        *)

LEMMA Limits ==
  /\ HSyncEnd \in Nat /\ HStart \in Nat /\ HEnd \in Nat /\ HLast \in Nat
  /\ VStart \in Nat /\ VEnd \in Nat /\ VLast \in Nat
  /\ HSyncEnd < HStart /\ HStart + 4 <= HEnd /\ HEnd <= HLast
  /\ VStart >= 1 /\ VStart + 3 <= VEnd /\ VEnd <= VLast
  /\ HEnd = HStart + 1 + Width /\ VEnd = VStart + 1 + Height
BY TimingAssumption DEF Width, Height

\* In a row of the screen.
LEMMA InTheRow ==
  ASSUME RasterInv, V_Counter > VStart, V_Counter < VEnd
  PROVE  /\ V_Pixel = V_Counter - VStart - 1 /\ V_Pixel \in Nat /\ V_Pixel < Height
         /\ V_Pixel = Height - 1 <=> V_Counter = VEnd - 1
         /\ VVisible /\ RowBase \in Nat /\ RowBase + Width <= Width * Height
         /\ V_Counter = VEnd - 1 => RowBase + Width = Width * Height
         /\ H_Counter \in Nat /\ H_Counter <= HLast
         /\ OnScreen => H_Pixel = H_Counter - HStart - 1
<1>1. /\ V_Pixel = V_Counter - VStart - 1 /\ V_Pixel \in Nat /\ V_Pixel < Height
      /\ V_Pixel = Height - 1 <=> V_Counter = VEnd - 1
  BY Limits, Sizes DEF RasterInv, VGATypeOK, CountersTrackRaster
<1>2. VVisible
  BY DEF VVisible
<1>3. /\ H_Counter \in Nat /\ H_Counter <= HLast
      /\ OnScreen => H_Pixel = H_Counter - HStart - 1
  BY Limits DEF RasterInv, VGATypeOK, CountersTrackRaster, OnScreen
<1>4. /\ RowBase \in Nat /\ RowBase + Width <= Width * Height
      /\ V_Pixel = Height - 1 => RowBase + Width = Width * Height
  BY <1>1, RowsFit DEF RowBase
<1> QED
  BY <1>1, <1>2, <1>3, <1>4

\* The address that belongs to a place goes up where Blank_N is high, and the
\* last pulse finds it at the word before the last pixel's second one.
LEMMA WorkMoves ==
  ASSUME RasterInv, RasterInv', Tick, Reset = 1, Reset' = 1, Working,
         VGA_CLK \in Bit, Divider = 1 - VGA_CLK, ScreenActiveFinish_Flag = 0
  PROVE  /\ V_Counter' # 0
         /\ Place' = IF Blank_N = 1 THEN Place + 1 ELSE Place
         /\ ScreenActiveFinish_Flag' = 1 => Place' = LastHeld
         /\ ScreenActiveFinish_Flag' # 1 => Working'
         /\ OnScreen' /\ PixelEdge =>
              HVisible /\ VVisible /\ V_Pixel' = V_Pixel /\ H_Pixel' - 1 = H_Pixel
<1> DEFINE B == RowBase
           N == Width * Height
<1>1. /\ V_Counter \in Nat /\ VStart < V_Counter /\ V_Counter < VEnd
      /\ V_Counter = VStart + 1 /\ H_Counter > HSyncEnd + 1 => H_Counter > HStart
      /\ V_Counter = VEnd - 1 => /\ H_Counter > HSyncEnd + 1 /\ H_Counter < HEnd
                                 /\ H_Counter = HEnd - 1 => VGA_CLK = 1
      /\ Blank_N = 1 <=> OnScreen
  BY DEF Working
<1>2. /\ V_Pixel = V_Counter - VStart - 1 /\ V_Pixel \in Nat /\ V_Pixel < Height
      /\ V_Pixel = Height - 1 <=> V_Counter = VEnd - 1
      /\ VVisible /\ B \in Nat /\ B + Width <= N
      /\ V_Counter = VEnd - 1 => B + Width = N
      /\ H_Counter \in Nat /\ H_Counter <= HLast
      /\ OnScreen => H_Pixel = H_Counter - HStart - 1
  BY <1>1, InTheRow
<1>3. /\ PixelEdge <=> VGA_CLK = 0
      /\ VGA_CLK' = 1 - VGA_CLK
      /\ ~PixelEdge => UNCHANGED <<lineRegs, frameRegs>>
      /\ PixelEdge =>
           /\ H_Counter' = IF H_Counter = HLast THEN 0 ELSE H_Counter + 1
           /\ V_Counter' = IF H_Counter = HSyncEnd + 1
                           THEN IF V_Counter > 0 /\ V_Counter = VLast THEN 0
                                ELSE V_Counter + 1
                           ELSE V_Counter
           /\ Blank_N' = IF HVisible /\ VVisible THEN 1 ELSE 0
  BY RasterMoves DEF Bit
<1>4. N \in Nat /\ Width \in Nat /\ Width >= 3 /\ Height \in Nat /\ Height >= 2
  BY Sizes
<1> HIDE DEF Width, Height
<1>5. ScreenActiveFinish_Flag' = 1 <=> LastPixel
  <2>1. ~(FirstPixel /\ LastPixel)
    BY <1>2, <1>4, Limits DEF FirstPixel, LastPixel
  <2> QED
    BY <2>1 DEF Tick, ScreenFlags
<1>6. CASE VGA_CLK = 1
  <2>1. /\ VGA_CLK' = 0 /\ V_Counter' = V_Counter /\ H_Counter' = H_Counter
        /\ V_Pixel' = V_Pixel /\ H_Pixel' = H_Pixel /\ Blank_N' = Blank_N
    BY <1>3, <1>6 DEF lineRegs, frameRegs
  <2>2. Passed' = Passed /\ (OnScreen' <=> OnScreen)
    BY <2>1 DEF Passed, OnScreen, RowBase
  <2>3. Passed \in Int
    BY <1>2, <1>4, Limits DEF Passed
  <2>4. Place' = IF Blank_N = 1 THEN Place + 1 ELSE Place
    <3> HIDE DEF Passed, OnScreen
    <3>1. Place' = 2 * Passed + (IF OnScreen THEN 1 ELSE 0) /\ Place = 2 * Passed
      BY <1>6, <2>1, <2>2, <2>3 DEF Place
    <3> QED
      BY <1>1, <2>3, <3>1
  <2>5. ASSUME LastPixel
        PROVE  Place' = LastHeld
    <3>1. H_Counter = HEnd - 1 /\ OnScreen /\ V_Counter = VEnd - 1
      BY <1>2, <1>4, <2>5, Limits
      DEF LastPixel, OnScreen, RasterInv, CountersTrackRaster, VGATypeOK
    <3>2. Passed = N - 2
      BY <1>2, <1>4, <3>1, Limits DEF Passed
    <3>3. Place = 2 * (N - 2)
      BY <1>4, <1>6, <3>2 DEF Place
    <3> QED
      BY <1>1, <1>4, <2>4, <3>1, <3>3 DEF LastHeld
  <2>6. ASSUME ~LastPixel
        PROVE  Working'
    <3>1. ~(V_Counter = VEnd - 1 /\ H_Counter = HEnd - 1)
      BY <1>2, <1>4, <2>6, Limits
      DEF LastPixel, RasterInv, CountersTrackRaster, VGATypeOK
    <3> QED
      BY <1>1, <2>1, <2>2, <3>1 DEF Working
  <2> QED
    BY <1>1, <1>3, <1>5, <1>6, <2>1, <2>4, <2>5, <2>6, Limits
<1>7. CASE VGA_CLK = 0
  <2>1. PixelEdge /\ VGA_CLK' = 1
    BY <1>3, <1>7
  <2>2. ~LastPixel
    BY <1>1, <1>2, <1>4, <1>7, Limits
    DEF LastPixel, RasterInv, CountersTrackRaster, VGATypeOK
  <2>3. V_Counter' = IF H_Counter = HSyncEnd + 1 THEN V_Counter + 1 ELSE V_Counter
    BY <1>1, <1>3, <2>1, Limits
  <2>4. /\ H_Counter' = IF H_Counter = HLast THEN 0 ELSE H_Counter + 1
        /\ Blank_N' = 1 <=> HVisible
    BY <1>2, <1>3, <2>1
  <2>5. Blank_N' = 1 <=> OnScreen'
    BY <1>2, <2>4, Limits DEF HVisible, OnScreen
  <2>6. Working'
    <3>1. H_Counter = HSyncEnd + 1 => V_Counter < VEnd - 1
      BY <1>1, <1>2, Limits
    <3>2. /\ V_Counter' \in Nat /\ VStart < V_Counter' /\ V_Counter' < VEnd
          /\ V_Counter' = VStart + 1 => V_Counter = VStart + 1 /\ H_Counter # HSyncEnd + 1
          /\ V_Counter' = VEnd - 1 => V_Counter = VEnd - 1 \/ H_Counter = HSyncEnd + 1
      BY <1>1, <2>3, <3>1, Limits
    <3>3. V_Counter' = VStart + 1 /\ H_Counter' > HSyncEnd + 1 => H_Counter' > HStart
      BY <1>1, <1>2, <2>4, <3>2, Limits
    <3>4. V_Counter' = VEnd - 1 => H_Counter' > HSyncEnd + 1 /\ H_Counter' < HEnd
      BY <1>1, <1>2, <1>7, <2>4, <3>2, Limits
    <3> HIDE DEF OnScreen
    <3> QED
      BY <2>1, <2>5, <3>2, <3>3, <3>4 DEF Working
  <2>7. V_Counter' \in Nat /\ VStart < V_Counter' /\ V_Counter' < VEnd
    BY <2>6 DEF Working
  <2>8. /\ V_Pixel' = V_Counter' - VStart - 1
        /\ OnScreen' => H_Pixel' = H_Counter' - HStart - 1
    <3>1. CountersTrackRaster'
      BY DEF RasterInv
    <3>2. V_Pixel' = V_Counter' - VStart - 1
      <4>1. VStart + 1 <= V_Counter' /\ V_Counter' <= VEnd
        BY <2>7, Limits
      <4> QED
        BY <3>1, <4>1 DEF CountersTrackRaster
    <3>3. OnScreen' => H_Pixel' = H_Counter' - HStart - 1
      BY <1>2, <2>4, <3>1, Limits DEF CountersTrackRaster, OnScreen
    <3> QED
      BY <3>2, <3>3
  <2>9. RowBase' = IF H_Counter = HSyncEnd + 1 THEN B + Width ELSE B
    <3>1. V_Pixel' = IF H_Counter = HSyncEnd + 1 THEN V_Pixel + 1 ELSE V_Pixel
      BY <1>1, <1>2, <2>3, <2>8, Limits
    <3>2. (V_Pixel + 1) * Width = V_Pixel * Width + Width
      BY <1>2, RowsFit
    <3> QED
      BY <3>1, <3>2 DEF RowBase
  <2>10. Place' = 2 * Passed'
    <3>1. RowBase' \in Int
      BY <1>2, <1>4, <2>9
    <3>2. Passed' \in Int
      BY <1>2, <1>4, <2>4, <2>8, <3>1, Limits DEF Passed, OnScreen
    <3> HIDE DEF Passed
    <3> QED
      BY <2>1, <3>2 DEF Place
  <2> HIDE DEF RowBase
  <2>11. CASE H_Counter = HSyncEnd + 1
    <3>1. Passed = B + Width /\ ~OnScreen
      BY <1>2, <2>11, Limits DEF Passed, OnScreen
    <3>2. Passed' = B + Width /\ ~OnScreen'
      BY <1>2, <2>4, <2>9, <2>11, Limits DEF Passed, OnScreen
    <3> QED
      BY <1>1, <1>2, <1>4, <1>5, <2>1, <2>2, <2>6, <2>7, <2>10, <3>1, <3>2, Limits DEF Place
  <2>12. CASE H_Counter = HLast
    <3>1. H_Counter' = 0 /\ RowBase' = B /\ ~OnScreen'
      BY <2>4, <2>9, <2>12, Limits DEF OnScreen
    <3>2. Passed' = B + Width
      BY <1>2, <3>1, Limits DEF Passed
    <3>3. Passed = IF OnScreen THEN B + Width - 1 ELSE B + Width
      BY <1>2, <1>4, <2>12, Limits DEF Passed, OnScreen
    <3> HIDE DEF Passed
    <3>4. Place' = IF Blank_N = 1 THEN Place + 1 ELSE Place
      BY <1>1, <1>2, <1>4, <1>7, <2>10, <3>2, <3>3 DEF Place
    <3> QED
      BY <1>5, <2>2, <2>6, <2>7, <3>1, <3>4, Limits
  <2>13. CASE H_Counter # HSyncEnd + 1 /\ H_Counter # HLast
    <3>1. /\ H_Counter' = H_Counter + 1 /\ RowBase' = B /\ V_Pixel' = V_Pixel
      BY <1>2, <2>3, <2>4, <2>8, <2>9, <2>13
    <3>2. H_Counter = HStart + 1 => H_Pixel = 0
      BY DEF RasterInv, CountersTrackRaster
    <3>3. OnScreen' => HVisible /\ H_Pixel' - 1 = H_Pixel
      BY <1>2, <2>8, <3>1, <3>2, Limits DEF OnScreen, HVisible
    <3>4. Passed' = IF OnScreen THEN Passed + 1 ELSE Passed
      <4>1. CASE H_Counter <= HStart
        BY <1>2, <2>13, <3>1, <4>1, Limits DEF Passed, OnScreen
      <4>2. CASE H_Counter = HStart + 1
        BY <1>2, <2>8, <3>1, <4>2, Limits DEF Passed, OnScreen
      <4>3. CASE H_Counter > HStart + 1 /\ H_Counter < HEnd
        BY <1>2, <2>8, <3>1, <4>3, Limits DEF Passed, OnScreen
      <4>4. CASE H_Counter = HEnd
        BY <1>2, <1>4, <3>1, <4>4, Limits DEF Passed, OnScreen
      <4>5. CASE H_Counter > HEnd
        BY <1>2, <3>1, <4>5, Limits DEF Passed, OnScreen
      <4> QED
        BY <1>2, <4>1, <4>2, <4>3, <4>4, <4>5, Limits
    <3>5. Passed \in Int
      BY <1>2, <1>4, Limits DEF Passed
    <3> HIDE DEF Passed, OnScreen
    <3>6. Place' = IF Blank_N = 1 THEN Place + 1 ELSE Place
      BY <1>1, <1>7, <2>10, <3>4, <3>5 DEF Place
    <3> QED
      BY <1>2, <1>5, <2>2, <2>6, <2>7, <3>1, <3>3, <3>6, Limits
  <2> QED
    BY <2>11, <2>12, <2>13
<1> QED
  BY <1>6, <1>7 DEF Bit


\* The first pulse finds the address at 0.
LEMMA ShotBegins ==
  ASSUME CaptureInv, CaptureTick, RasterInv', PulseInv', Reset = 1, Reset' = 1,
         ScreenActiveStart_Flag' = 1, Pixel_Address' = 0
  PROVE  AtWork'
<1>1. /\ V_Counter' = VStart + 1
      /\ H_Counter' = HStart + 1 \/ (H_Counter' = HStart + 2 /\ VGA_CLK' = 1)
  BY DEF PulseInv
<1>2. /\ V_Pixel' = 0
      /\ H_Counter' = HStart + 2 => H_Pixel' = 1
      /\ H_Counter' = HStart + 1 => H_Pixel' = 0
  BY <1>1, Limits DEF RasterInv, CountersTrackRaster
<1>3. OnScreen' <=> H_Counter' = HStart + 2
  BY <1>1, Limits DEF OnScreen
<1>4. Blank_N' = 1 <=> H_Counter' = HStart + 2
  BY <1>1, Limits DEF RasterInv, BlankInv, VVisible
<1>5. Working'
  BY <1>1, <1>3, <1>4, Limits DEF Working
<1>6. ASSUME H_Counter' = HStart + 2
      PROVE  Pixel_Data' = Pixel(frame', V_Pixel', H_Pixel' - 1)
  <2>1. FirstPixel
    <3>1. ASSUME ScreenActiveStart_Flag = 1 PROVE ~LastPixel
      BY <3>1, Sizes DEF CaptureInv, RasterInv, FlagInv, LastPixel
    <3> QED
      BY <3>1 DEF CaptureTick, Tick, ScreenFlags
  <2>2. PixelEdge
    BY <1>6, <2>1, Limits, LineEdgeNeedsPixelEdge DEF CaptureTick, FirstPixel, lineRegs
  <2>3. HVisible /\ VVisible /\ V_Pixel = 0 /\ H_Pixel = 0
    BY <2>1, Limits
    DEF FirstPixel, HVisible, VVisible, CaptureInv, RasterInv, CountersTrackRaster
  <2>4. Pixel_Data' = Pixel(frame, V_Pixel, H_Pixel)
    BY <2>2, <2>3 DEF CaptureTick, Draw, ResetSeen
  <2>5. frame' = frame
    BY <1>1, Limits DEF CaptureTick, NextFrame
  <2> QED
    BY <1>2, <1>6, <2>3, <2>4, <2>5
<1>7. Place' = 0
  <2>1. RowBase' = 0
    BY <1>2, Sizes DEF RowBase
  <2>2. Passed' = 0
    BY <1>1, <1>2, <1>3, <2>1, Limits DEF Passed
  <2> HIDE DEF Passed, OnScreen
  <2> QED
    BY <1>1, <1>3, <2>2, Limits DEF Place
<1>8. StoredUpTo(frame, Pixel_Address)'
  BY Sizes DEF StoredUpTo, LastStored
<1> QED
  BY <1>3, <1>5, <1>6, <1>7, <1>8 DEF AtWork

\* What a pixel clock draws.
LEMMA PixelDrawn ==
  ASSUME CaptureTick, Reset = 1, Reset' = 1, PixelEdge, HVisible, VVisible
  PROVE  Pixel_Data' = Pixel(frame, V_Pixel, H_Pixel)
BY DEF CaptureTick, Draw, ResetSeen

\* The word written while the frame is being stored is the next one of it, or in
\* the blanking once more the second one of a pixel at the right edge.
LEMMA RightWord ==
  ASSUME CaptureInv, CaptureTick, AtWork, Reset = 1, NEW p \in 0..LastStored,
         NEW b, b = IF Blank_N = 1 THEN Pixel_Address + 1 ELSE Pixel_Address
  PROVE  /\ 2 * p + 1 = b => Data' = PixelWord(frame, p, "RG")
         /\ 2 * p + 2 = b /\ ~RightEdge(p) => Data' = PixelWord(frame, p, "B")
<1>1. Working /\ Pixel_Address = Place
  BY DEF AtWork
<1>2. /\ V_Pixel \in Nat /\ V_Pixel < Height /\ RowBase \in Nat
      /\ H_Counter \in Nat
      /\ OnScreen => H_Pixel = H_Counter - HStart - 1
  BY <1>1, InTheRow DEF Working, CaptureInv
<1>3. p \in Nat /\ Width \in Nat /\ Width >= 3
  BY Sizes
<1> HIDE DEF Width, Height
<1>4. CASE OnScreen
  <2> DEFINE col == H_Pixel - 1
  <2>1. col \in Nat /\ col < Width /\ H_Pixel = col + 1
    BY <1>2, <1>3, <1>4, Limits DEF OnScreen
  <2> DEFINE q == RowBase + col
  <2>2. q \in Nat /\ Place = 2 * q + (IF VGA_CLK = 0 THEN 1 ELSE 0)
    BY <1>2, <1>4, <2>1 DEF Place, Passed
  <2>3. Pixel_Data = Pixel(frame, V_Pixel, col)
    BY <1>4 DEF AtWork
  <2>4. ASSUME NEW part
        PROVE  PixelWord(frame, q, part) = IF H_Pixel \in BarColumns /\ V_Pixel \in BarRows
                                           THEN Zero ELSE Half(Pixel_Data, part)
    BY <1>2, <2>1, <2>3, PixelWordIs DEF RowBase
  <2>5. Data' = PixelWord(frame, q, IF Pixel_Address % 2 = 0 THEN "RG" ELSE "B")
    <3>1. Data' = IF H_Pixel \in BarColumns /\ V_Pixel \in BarRows THEN Zero
                  ELSE IF Pixel_Address % 2 = 0 THEN Half(Pixel_Data, "RG")
                  ELSE Half(Pixel_Data, "B")
      BY DEF CaptureTick, WriterStep, DataChunk
    <3> HIDE DEF q, col
    <3> QED
      BY <2>4, <3>1
  <2>6. b = Place + 1
    BY <1>1, <1>4 DEF Working
  <2> HIDE DEF q, col, PixelWord, Place, RightEdge
  <2>7. 2 * p + 1 = b => p = q /\ Pixel_Address % 2 = 0
    BY <1>1, <1>3, <2>2, <2>6
  <2>8. 2 * p + 2 = b => p = q /\ Pixel_Address % 2 # 0
    BY <1>1, <1>3, <2>2, <2>6
  <2> QED
    BY <2>5, <2>7, <2>8
<1>5. CASE ~OnScreen
  <2>1. Passed = RowBase \/ Passed = RowBase + Width
    BY <1>5 DEF Passed
  <2>2. Passed \in Nat /\ Place = 2 * Passed
    BY <1>2, <1>3, <1>5, <2>1 DEF Place
  <2>3. b = 2 * Passed
    BY <1>1, <1>5, <2>2 DEF Working
  <2>4. 2 * p + 1 # b
    <3> HIDE DEF Passed
    <3> QED
      BY <1>3, <2>2, <2>3
  <2>5. ASSUME 2 * p + 2 = b
        PROVE  RightEdge(p)
    <3>1. p + 1 = Passed
      <4> HIDE DEF Passed
      <4> QED
        BY <1>3, <2>2, <2>3, <2>5
    <3>2. ASSUME NEW row \in Nat, p + 1 = row * Width + Width
          PROVE  RightEdge(p)
      <4>1. p = row * Width + (Width - 1) /\ Width - 1 \in Nat /\ Width - 1 < Width
        BY <1>3, <3>2, TimesGrows
      <4> QED
        BY <1>3, <4>1, RowAndColumn DEF RightEdge
    <3>3. CASE Passed = RowBase + Width
      BY <1>2, <3>1, <3>2, <3>3 DEF RowBase
    <3>4. CASE Passed = RowBase
      <4>1. V_Pixel # 0
        BY <1>3, <3>1, <3>4 DEF RowBase
      <4>2. V_Pixel - 1 \in Nat /\ V_Pixel = (V_Pixel - 1) + 1
        BY <1>2, <4>1
      <4>3. RowBase = (V_Pixel - 1) * Width + Width
        <5>1. ((V_Pixel - 1) + 1) * Width = (V_Pixel - 1) * Width + Width
          BY <1>3, <4>2, TimesGrows
        <5> QED
          BY <4>2, <5>1 DEF RowBase
      <4> QED
        BY <3>1, <3>2, <3>4, <4>2, <4>3
    <3> QED
      BY <2>1, <3>3, <3>4
  <2> QED
    BY <2>4, <2>5
<1> QED
  BY <1>4, <1>5


\* Until the last pulse the address is before the one it waits at.
LEMMA WorkInside ==
  ASSUME RasterInv, Working
  PROVE  Place \in Nat /\ Place < LastHeld
<1>1. /\ V_Counter \in Nat /\ VStart < V_Counter /\ V_Counter < VEnd
      /\ V_Counter = VEnd - 1 => /\ H_Counter > HSyncEnd + 1 /\ H_Counter < HEnd
                                 /\ H_Counter = HEnd - 1 => VGA_CLK = 1
  BY DEF Working
<1>2. /\ V_Pixel = V_Counter - VStart - 1 /\ V_Pixel \in Nat /\ V_Pixel < Height
      /\ V_Pixel = Height - 1 <=> V_Counter = VEnd - 1
      /\ RowBase \in Nat /\ V_Counter = VEnd - 1 => RowBase + Width = Width * Height
  BY <1>1, InTheRow
<1>3. /\ RowBase \in Nat
      /\ H_Counter \in Nat
      /\ OnScreen => H_Pixel = H_Counter - HStart - 1
  BY <1>1, InTheRow
<1>4. Width \in Nat /\ Width >= 3 /\ Height \in Nat /\ Width * Height \in Nat
  BY Sizes
<1> DEFINE N == Width * Height
<1> HIDE DEF Width, Height
<1>5. CASE V_Counter = VEnd - 1
  <2>1. RowBase + Width = N
    BY <1>1, <1>5, InTheRow
  <2>2. CASE OnScreen
    <3>1. Passed = RowBase + (H_Counter - HStart - 2) /\ HStart + 2 <= H_Counter
      BY <1>3, <2>2, Limits DEF Passed, OnScreen
    <3>2. Passed \in Nat /\ Passed <= N - 2 /\ (H_Counter # HEnd - 1 => Passed <= N - 3)
      BY <1>1, <1>3, <1>4, <1>5, <2>1, <3>1, Limits
    <3>3. H_Counter = HEnd - 1 => VGA_CLK # 0
      BY <1>1, <1>5
    <3> HIDE DEF Passed, N, RowBase
    <3> QED
      BY <1>4, <2>2, <3>2, <3>3 DEF Place, LastHeld, N
  <2>3. CASE ~OnScreen
    <3>1. Passed = RowBase
      BY <1>1, <1>3, <1>5, <2>3, Limits DEF Passed, OnScreen
    <3> HIDE DEF Passed
    <3> QED
      BY <1>3, <1>4, <2>1, <2>3, <3>1 DEF Place, LastHeld
  <2> QED
    BY <2>2, <2>3
<1>6. CASE V_Counter # VEnd - 1
  <2>1. RowBase + Width + Width <= N
    <3>1. V_Pixel + 1 \in Nat /\ V_Pixel + 1 < Height
      BY <1>1, <1>2, <1>4, <1>6
    <3>2. (V_Pixel + 1) * Width = V_Pixel * Width + Width
      BY <1>2, RowsFit
    <3>3. (V_Pixel + 1) * Width + Width <= Width * Height
      BY <3>1, RowsFit
    <3> QED
      BY <3>2, <3>3 DEF RowBase
  <2>2. Passed \in Nat /\ Passed <= RowBase + Width
    BY <1>3, <1>4, Limits DEF Passed, OnScreen
  <2> HIDE DEF Passed, RowBase
  <2> QED
    BY <1>3, <1>4, <2>1, <2>2 DEF Place, LastHeld
<1> QED
  BY <1>5, <1>6

\* A step while the frame is being stored, up to the last pulse.
LEMMA WorkKept ==
  ASSUME CaptureInv, CaptureTick, AtWork,
         IgniteAddressing = 1, Reset = 1, Reset' = 1, Writing, Writing'
  PROVE  /\ ScreenActiveFinish_Flag' # 1 => AtWork'
         /\ ScreenActiveFinish_Flag' = 1 => Pixel_Address' = LastHeld /\ Stored'
<1>1. /\ RasterInv /\ CaptureTypeOK /\ Tick /\ Working
      /\ VGA_CLK \in Bit /\ Divider = 1 - VGA_CLK
      /\ StartFlagDetected = 1 /\ Data_Vaild_Flag = 1
      /\ ScreenActiveFinish_Flag = 0
  BY DEF CaptureInv, CaptureTick, RasterInv, VGATypeOK, AtWork, ClockInv, LatchInv, Writing, Bit
<1>2. /\ V_Counter' # 0
      /\ Place' = IF Blank_N = 1 THEN Place + 1 ELSE Place
      /\ ScreenActiveFinish_Flag' = 1 => Place' = LastHeld
      /\ ScreenActiveFinish_Flag' # 1 => Working'
      /\ OnScreen' /\ PixelEdge =>
           HVisible /\ VVisible /\ V_Pixel' = V_Pixel /\ H_Pixel' - 1 = H_Pixel
  BY <1>1, TickKeepsRaster, WorkMoves
<1>3. Pixel_Address = Place /\ Pixel_Address \in Nat
  BY <1>1 DEF AtWork, CaptureTypeOK
<1>4. Pixel_Address' = IF Blank_N = 1 THEN Pixel_Address + 1 ELSE Pixel_Address
  <2>1. WriteControl(Blank_N) /\ WriteFinish_Flag' = 0
    BY DEF CaptureTick, WriterStep, Writing
  <2>2. AdvanceAddress(Blank_N)
    BY <2>1 DEF WriteControl, Release, Rest, Writing
  <2> QED
    BY <1>1, <2>1, <2>2 DEF AdvanceAddress, Enable_Write_Address
<1>5. PICK a \in Nat, b \in Nat : a = Pixel_Address /\ b = Pixel_Address'
  BY <1>3, <1>4
<1>6. b = Place' /\ b \in {a, a + 1} /\ b <= LastHeld /\ b <= LastWord
  <2>1. Place \in Nat /\ Place < LastHeld
    BY <1>1, WorkInside
  <2>2. LastHeld \in Nat /\ LastHeld < LastWord
    BY Sizes, CaptureAssumption DEF LastHeld
  <2> HIDE DEF Place, LastHeld
  <2> QED
    BY <1>2, <1>3, <1>4, <1>5, <2>1, <2>2, LastWordAssumption
<1>7. PICK f : f = frame
  OBVIOUS
<1>8. frame' = f
  BY <1>2, <1>7 DEF CaptureTick, NextFrame
<1>9. StoredUpTo(f, b)'
  <2>1. /\ SRAM'[b] = Data'
        /\ \A n \in Nat : n <= LastWord /\ n # b => SRAM'[n] = SRAM[n]
    BY <1>1, <1>5, <1>6, WordWritten
  <2>2. StoredUpTo(f, a)
    BY <1>5, <1>7 DEF AtWork
  <2>3. \A p \in 0..LastStored :
          /\ 2 * p + 1 = b => SRAM'[b] = PixelWord(f, p, "RG")
          /\ 2 * p + 2 = b /\ ~RightEdge(p) => SRAM'[b] = PixelWord(f, p, "B")
    <3> SUFFICES ASSUME NEW p \in 0..LastStored
                 PROVE  /\ 2 * p + 1 = b => SRAM'[b] = PixelWord(f, p, "RG")
                        /\ 2 * p + 2 = b /\ ~RightEdge(p) => SRAM'[b] = PixelWord(f, p, "B")
      OBVIOUS
    <3>1. b = IF Blank_N = 1 THEN Pixel_Address + 1 ELSE Pixel_Address
      BY <1>4, <1>5
    <3> QED
      BY <1>7, <2>1, <3>1, RightWord
  <2>4. \A p \in 0..LastStored :
          /\ 2 * p + 1 <= b => SRAM'[2 * p + 1] = PixelWord(f, p, "RG")
          /\ 2 * p + 2 <= b /\ ~RightEdge(p) => SRAM'[2 * p + 2] = PixelWord(f, p, "B")
    BY <1>6, <2>1, <2>2, <2>3, WordStored
  <2> QED
    BY <2>4 DEF StoredUpTo, HoldsRedGreen, HoldsBlue
<1>10. ASSUME ScreenActiveFinish_Flag' # 1
       PROVE  AtWork'
  <2>1. ASSUME OnScreen'
        PROVE  Pixel_Data' = Pixel(frame', V_Pixel', H_Pixel' - 1)
    <3>1. CASE PixelEdge
      BY <1>2, <1>7, <1>8, <2>1, <3>1, PixelDrawn
    <3>2. CASE ~PixelEdge
      <4>1. Pixel_Data' = Pixel_Data /\ UNCHANGED <<lineRegs, frameRegs>>
        BY <1>1, <3>2, LineEdgeNeedsPixelEdge DEF CaptureTick, Draw
      <4>2. OnScreen
        BY <2>1, <4>1 DEF OnScreen, lineRegs
      <4> QED
        BY <1>7, <1>8, <4>1, <4>2 DEF AtWork, lineRegs, frameRegs
    <3> QED
      BY <3>1, <3>2
  <2>2. StoredUpTo(frame, Pixel_Address)'
    BY <1>5, <1>8, <1>9 DEF StoredUpTo, HoldsRedGreen, HoldsBlue
  <2> HIDE DEF Place, OnScreen, StoredUpTo
  <2> QED
    BY <1>2, <1>5, <1>6, <1>10, <2>1, <2>2 DEF AtWork
<1>11. ASSUME ScreenActiveFinish_Flag' = 1
       PROVE  Pixel_Address' = LastHeld /\ Stored'
  <2>1. b = LastHeld
    BY <1>2, <1>6, <1>11
  <2>2. ASSUME NEW p \in 0..LastStored
        PROVE  2 * p + 2 <= b
    BY <2>1, Sizes DEF LastHeld, LastStored
  <2>3. \A p \in 0..LastStored :
          HoldsRedGreen(f, p)' /\ (~RightEdge(p) => HoldsBlue(f, p)')
    <3> SUFFICES ASSUME NEW p \in 0..LastStored
                 PROVE  HoldsRedGreen(f, p)' /\ (~RightEdge(p) => HoldsBlue(f, p)')
      OBVIOUS
    <3>1. p \in Nat /\ 2 * p + 2 <= b /\ 2 * p + 1 <= b
      BY <2>2
    <3> HIDE DEF HoldsRedGreen, HoldsBlue, RightEdge, LastStored
    <3> QED
      BY <1>9, <3>1 DEF StoredUpTo
  <2>4. f \in Bit
    BY <1>1, <1>7 DEF CaptureTypeOK
  <2> HIDE DEF HoldsRedGreen, HoldsBlue, RightEdge, LastStored
  <2>5. Stored'
    BY <2>3, <2>4 DEF Stored
  <2> QED
    BY <1>5, <2>1, <2>5
<1> QED
  BY <1>10, <1>11

-----------------------------------------------------------------------------
(* The end of a shot, and the whole of it.                                 *)

\* What the writer leaves of the picture when it writes behind it.
LEMMA PictureKept ==
  ASSUME CaptureTypeOK, CaptureTick, Writing', Stored,
         Pixel_Address' \in Nat, Pixel_Address' >= LastHeld, Pixel_Address' <= LastWord
  PROVE  Stored'
<1>1. PICK b \in Nat : b = Pixel_Address'
  OBVIOUS
<1>2. \A n \in Nat : n <= LastWord /\ n # b => SRAM'[n] = SRAM[n]
  BY <1>1, WordWritten
<1>3. b >= LastHeld
  BY <1>1
<1> HIDE DEF Stored, LastHeld
<1> QED
  BY <1>2, <1>3, PictureStays

\* The picture is not disturbed while nothing is written.
LEMMA PictureAtRest ==
  ASSUME CaptureTypeOK, CaptureTick, ~Writing', Stored
  PROVE  Stored' /\ SRAM' = SRAM
<1>1. SRAM' = SRAM
  BY DEF CaptureTick, WriterStep, StoreWord
<1>2. LastHeld \in Nat /\ LastHeld >= LastHeld
  BY Sizes DEF LastHeld
<1> HIDE DEF Stored, LastHeld
<1> QED
  BY <1>1, <1>2, PictureStays

LEMMA Ends ==
  /\ LastHeld \in Nat /\ LastHeld >= 9
  /\ LastWord \in Nat /\ LastWord = LastHeld + 2
BY Sizes, CaptureAssumption DEF LastHeld

\* The writer goes on to the last word.
LEMMA ClosingKept ==
  ASSUME CaptureInv, CaptureTick, Closing,
         IgniteAddressing = 1, Reset = 1, Reset' = 1, Writing, Writing'
  PROVE  Closing' /\ ScreenActiveFinish_Flag' # 1
<1>1. /\ RasterInv /\ CaptureTypeOK /\ Tick
      /\ VGA_CLK \in Bit /\ Divider = 1 - VGA_CLK
      /\ StartFlagDetected = 1 /\ ScreenActiveFinish_Flag = 0
      /\ V_Counter = VStart + 1 /\ VVisible /\ Stored
  BY Limits
  DEF CaptureInv, CaptureTick, RasterInv, VGATypeOK, ClockInv, LatchInv, Writing, Bit,
      Closing, VVisible
<1>2. /\ PixelEdge <=> VGA_CLK = 0
      /\ VGA_CLK' = 1 - VGA_CLK
      /\ ~PixelEdge => UNCHANGED <<lineRegs, frameRegs>>
      /\ PixelEdge =>
           /\ H_Counter' = IF H_Counter = HLast THEN 0 ELSE H_Counter + 1
           /\ V_Counter' = IF H_Counter = HSyncEnd + 1
                           THEN IF V_Counter > 0 /\ V_Counter = VLast THEN 0
                                ELSE V_Counter + 1
                           ELSE V_Counter
           /\ Blank_N' = IF HVisible /\ VVisible THEN 1 ELSE 0
  BY <1>1, RasterMoves DEF Bit
<1>3. /\ ~LastWordReached
      /\ Pixel_Address' = IF Blank_N = 1 THEN Pixel_Address + 1 ELSE Pixel_Address
  <2>1. WriteControl(Blank_N) /\ WriteFinish_Flag' = 0
    BY DEF CaptureTick, WriterStep, Writing
  <2>2. AdvanceAddress(Blank_N)
    BY <2>1 DEF WriteControl, Release, Rest, Writing
  <2> QED
    BY <1>1, <2>1, <2>2 DEF AdvanceAddress, Enable_Write_Address
<1>4. \/ H_Counter = HStart + 1 /\ Blank_N = 0 /\ Pixel_Address = LastHeld
      \/ H_Counter = HStart + 2 /\ Blank_N = 1
           /\ Pixel_Address = IF VGA_CLK = 1 THEN LastHeld ELSE LastHeld + 1
  BY <1>3 DEF Closing, LastWordReached
<1>5. V_Counter' = VStart + 1
  BY <1>1, <1>2, <1>4, Limits DEF frameRegs
<1>6. \/ H_Counter' = HStart + 1 /\ Blank_N' = 0 /\ Pixel_Address' = LastHeld
      \/ H_Counter' = HStart + 2 /\ Blank_N' = 1
           /\ Pixel_Address' = IF VGA_CLK' = 1 THEN LastHeld ELSE LastHeld + 1
      \/ H_Counter' = HStart + 3 /\ Pixel_Address' = LastWord
  <2>1. CASE VGA_CLK = 1
    <3>1. /\ VGA_CLK' = 0 /\ ~PixelEdge
          /\ H_Counter' = H_Counter /\ Blank_N' = Blank_N
      BY <1>2, <2>1 DEF lineRegs
    <3> QED
      BY <1>3, <1>4, <2>1, <3>1
  <2>2. CASE VGA_CLK = 0
    <3>1. /\ VGA_CLK' = 1 /\ H_Counter' = H_Counter + 1
          /\ Blank_N' = 1
      BY <1>1, <1>2, <1>4, <2>2, Limits DEF HVisible
    <3> QED
      BY <1>3, <1>4, <2>2, <3>1, Ends, Limits
  <2> QED
    BY <1>1, <2>1, <2>2 DEF Bit
<1>7. Stored'
  <2>1. Pixel_Address' \in Nat /\ Pixel_Address' >= LastHeld /\ Pixel_Address' <= LastWord
    BY <1>6, Ends
  <2> QED
    BY <1>1, <2>1, PictureKept
<1>8. ScreenActiveFinish_Flag' # 1
  <2>1. ~LastPixel
    BY <1>1, Limits, Sizes DEF LastPixel, RasterInv, CountersTrackRaster
  <2> QED
    BY <1>1, <2>1 DEF Tick, ScreenFlags
<1> QED
  BY <1>5, <1>6, <1>7, <1>8 DEF Closing

\* What ignites the addressing, and what keeps it alight.
LEMMA Ignition ==
  ASSUME CaptureInv, CaptureTick, Writing'
  PROVE  /\ IgniteAddressing' \in Bit
         /\ IgniteAddressing = 0 /\ IgniteAddressing' = 1 => ScreenActiveStart_Flag' = 1
         /\ IgniteAddressing = 1 /\ ScreenActiveFinish_Flag' # 1 => IgniteAddressing' = 1
<1>1. Latches(ScreenActiveStart_Flag', ScreenActiveFinish_Flag')
  BY DEF CaptureTick, WriterStep
<1>2. IgniteAddressing \in Bit /\ ScreenCapture' # 0
  BY DEF CaptureInv, CaptureTypeOK, Writing
<1> QED
  BY <1>1, <1>2 DEF Latches, Bit

LEMMA ShotKept ==
  ASSUME CaptureInv, CaptureTick, RasterInv', PulseInv', LatchInv'
  PROVE  ShotInv'
<1>1. WriteControl(Blank_N) /\ CaptureTypeOK /\ LatchInv /\ RasterInv
        /\ Reset \in Bit /\ Reset' \in Bit
  BY DEF CaptureInv, RasterInv, VGATypeOK, CaptureTick, WriterStep, Tick
<1>2. ASSUME WriteFinish_Flag' = 1
      PROVE  Stored'
  <2>1. Reset # 0 /\ ~Writing'
    BY <1>1, <1>2 DEF WriteControl, Writing
  <2>2. Stored
    <3>1. CASE WriteFinish_Flag = 1
      BY <3>1 DEF CaptureInv, ShotInv
    <3>2. CASE WriteFinish_Flag # 1
      <4>1. Writing /\ LastWordReached /\ Reset = 1
        BY <1>1, <1>2, <2>1, <3>2
        DEF WriteControl, AdvanceAddress, Release, Rest, Bit
      <4>2. ~AtWork
        BY <1>1, <4>1, WorkInside, Ends DEF AtWork, LastWordReached
      <4>3. IgniteAddressing = 1 /\ Closing
        BY <4>1, <4>2, Ends DEF CaptureInv, ShotInv, LastWordReached
      <4> QED
        BY <4>3 DEF Closing
    <3> QED
      BY <3>1, <3>2
  <2> QED
    BY <1>1, <2>1, <2>2, PictureAtRest
<1>3. ASSUME Writing', Reset' = 1
      PROVE  \/ IgniteAddressing' = 0 /\ Pixel_Address' = 0
             \/ IgniteAddressing' = 0 /\ Pixel_Address' = LastHeld /\ Stored'
             \/ IgniteAddressing' = 1 /\ (AtWork' \/ Closing')
  <2>1. Reset = 1
    BY <1>1, <1>3 DEF CaptureTick, Switch, Writing, Bit
  <2>2. /\ IgniteAddressing' \in Bit
        /\ IgniteAddressing = 0 /\ IgniteAddressing' = 1 => ScreenActiveStart_Flag' = 1
        /\ IgniteAddressing = 1 /\ ScreenActiveFinish_Flag' # 1 => IgniteAddressing' = 1
    BY <1>3, Ignition
  <2>3. CASE IgniteAddressing = 0 /\ Pixel_Address' = 0
    <3>1. CASE IgniteAddressing' = 0
      BY <2>3, <3>1
    <3>2. CASE IgniteAddressing' = 1
      BY <1>3, <2>1, <2>2, <2>3, <3>2, ShotBegins
    <3> QED
      BY <2>2, <3>1, <3>2 DEF Bit
  <2>4. CASE ~Writing
    <3>1. Pixel_Address' = 0
      BY <2>4, IdleAddress
    <3>2. ScreenCapture = 0
      BY <1>1, <1>3, <2>1, <2>4
      DEF WriteControl, AdvanceAddress, Release, Rest, Writing, CaptureTypeOK, Bit
    <3>3. IgniteAddressing = 0
      BY <1>1, <3>2 DEF LatchInv, CaptureTypeOK, Bit
    <3> QED
      BY <2>3, <3>1, <3>3
  <2>5. CASE Writing
    <3>1. AdvanceAddress(Blank_N) /\ WriteFinish_Flag' = 0
      BY <1>1, <1>3, <2>1, <2>5 DEF WriteControl, Release, Rest, Writing
    <3>2. IgniteAddressing = 0 => Pixel_Address' = Pixel_Address
      BY <3>1 DEF AdvanceAddress
    <3>3. CASE IgniteAddressing = 0 /\ Pixel_Address = 0
      BY <2>3, <3>2, <3>3
    <3>4. CASE IgniteAddressing = 0 /\ Pixel_Address = LastHeld /\ Stored
      <4>1. Pixel_Address' = LastHeld
        BY <3>2, <3>4
      <4>2. Stored'
        BY <1>1, <1>3, <3>4, <4>1, PictureKept, Ends
      <4>3. ASSUME IgniteAddressing' = 1
            PROVE  Closing'
        <5>1. /\ V_Counter' = VStart + 1
              /\ H_Counter' = HStart + 1 \/ (H_Counter' = HStart + 2 /\ VGA_CLK' = 1)
          BY <1>3, <2>2, <3>4, <4>3 DEF PulseInv
        <5>2. Blank_N' \in Bit /\ (Blank_N' = 1 <=> H_Counter' = HStart + 2)
          BY <5>1, Limits DEF RasterInv, VGATypeOK, BlankInv, VVisible
        <5> QED
          BY <4>1, <4>2, <5>1, <5>2, Limits DEF Closing, Bit
      <4> QED
        BY <2>2, <4>1, <4>2, <4>3 DEF Bit
    <3>5. CASE IgniteAddressing = 1 /\ AtWork
      <4>1. /\ ScreenActiveFinish_Flag' # 1 => AtWork'
            /\ ScreenActiveFinish_Flag' = 1 => Pixel_Address' = LastHeld /\ Stored'
        BY <1>3, <2>1, <2>5, <3>5, WorkKept
      <4>2. ScreenActiveFinish_Flag' = 1 => IgniteAddressing' = 0
        BY DEF LatchInv
      <4> QED
        BY <2>2, <3>5, <4>1, <4>2
    <3>6. CASE IgniteAddressing = 1 /\ Closing
      BY <1>3, <2>1, <2>2, <2>5, <3>6, ClosingKept
    <3> QED
      BY <2>1, <2>5, <3>3, <3>4, <3>5, <3>6 DEF CaptureInv, ShotInv
  <2> QED
    BY <2>4, <2>5
<1> QED
  BY <1>2, <1>3 DEF ShotInv

\* The invariant of a shot, under any use of the switch and of the reset by a
\* user who waits for the reader: whatever point of a frame the switch is raised
\* or dropped at, the address a word is written to is the one of its pixel.
THEOREM ShotInvariant ==
  ASSUME PromptReader
  PROVE  CaptureSpec => []CaptureInv
<1>1. CaptureInit => CaptureInv
  <2> SUFFICES ASSUME CaptureInit PROVE CaptureInv
    OBVIOUS
  <2> USE DEF CaptureInit, VGAInit, WriterInit
  <2>1. RasterInv
    BY RasterBegins
  <2>2. CaptureTypeOK
    BY DEF CaptureTypeOK, Bit
  <2> QED
    BY <2>1, <2>2
    DEF CaptureInv, ClockInv, PulseInv, HandshakeInv, LatchInv, ShotInv, Writing
<1>2. CaptureInv /\ [CaptureTick]_captureVars => CaptureInv'
  <2> SUFFICES ASSUME CaptureInv, [CaptureTick]_captureVars
               PROVE  CaptureInv'
    OBVIOUS
  <2>1. CASE CaptureTick
    <3>1. RasterInv'
      BY <2>1, TickKeepsRaster DEF CaptureInv, CaptureTick
    <3>2. ClockInv' /\ PulseInv' /\ HandshakeInv' /\ LatchInv' /\ CaptureTypeOK'
      BY <2>1, PhasesKept, PulseKept, HandshakeKept, LatchesKept, CaptureTypesKept
    <3>3. ShotInv'
      BY <2>1, <3>1, <3>2, ShotKept
    <3> QED
      BY <3>1, <3>2, <3>3 DEF CaptureInv
  <2>2. CASE UNCHANGED captureVars
    <3> USE <2>2 DEF captureVars, vgaVars, mainRegs, lineRegs, frameRegs, wires, writerRegs
    <3>1. RasterInv'
      BY DEF CaptureInv, RasterInv, VGATypeOK, CountersTrackRaster, BlankInv, FlagInv,
             FlagsExclusive, VVisible
    <3>2. CaptureTypeOK' /\ ClockInv' /\ PulseInv' /\ HandshakeInv' /\ LatchInv'
      BY DEF CaptureInv, CaptureTypeOK, ClockInv, PulseInv, HandshakeInv, LatchInv
    <3>3. /\ Stored' <=> Stored
          /\ AtWork' <=> AtWork
      BY DEF Stored, AtWork, HoldsRedGreen, HoldsBlue, Working, OnScreen, Place, Passed,
             RowBase, StoredUpTo
    <3>4. Closing' <=> Closing
      BY <3>3 DEF Closing
    <3>5. ShotInv'
      BY <3>3, <3>4 DEF CaptureInv, ShotInv, Writing
    <3> QED
      BY <3>1, <3>2, <3>5 DEF CaptureInv
  <2> QED
    BY <2>1, <2>2
<1> QED
  BY <1>1, <1>2, PTL DEF CaptureSpec

\* A finished shot is one picture, at any size of the screen and any timing the
\* assumption allows.
THEOREM FinishedShotIsOneFrame ==
  ASSUME PromptReader
  PROVE  CaptureSpec => []ShotIsOneFrame
<1>1. CaptureInv => ShotIsOneFrame
  BY DEF CaptureInv, ShotInv, Stored, ShotIsOneFrame
<1> QED
  BY <1>1, ShotInvariant, PTL

\* The chip keeps a finished shot, if the user waits for the reader.
THEOREM FinishedShotStays ==
  ASSUME PromptReader
  PROVE  CaptureSpec => FinishedShotIsStable
<1>1. CaptureInv /\ [CaptureTick]_captureVars
        => [WriteFinish_Flag = 1 => UNCHANGED SRAM]_captureVars
  <2> SUFFICES ASSUME CaptureInv, CaptureTick, WriteFinish_Flag = 1
               PROVE  SRAM' = SRAM
    BY DEF captureVars, writerRegs
  <2>1. /\ WriteControl(Blank_N) /\ CaptureTypeOK /\ Reset \in Bit
        /\ Switch /\ StoreWord /\ ~Writing
    BY DEF CaptureInv, RasterInv, VGATypeOK, CaptureTick, WriterStep, Writing
  <2>2. CASE Reset = 0
    BY <2>1, <2>2 DEF Switch, StoreWord, Writing
  <2>3. CASE Reset # 0 /\ Release
    <3>1. ScreenCapture' = 0
      BY <2>1, <2>3 DEF Release, Switch, Bit
    <3> QED
      BY <2>1, <3>1 DEF StoreWord, Writing
  <2>4. CASE Reset # 0 /\ Rest
    BY <2>1, <2>4 DEF Rest, StoreWord, Writing
  <2> QED
    BY <2>1, <2>2, <2>3, <2>4 DEF WriteControl, AdvanceAddress
<1> QED
  BY <1>1, ShotInvariant, PTL DEF CaptureSpec, FinishedShotIsStable
=============================================================================
