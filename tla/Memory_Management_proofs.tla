------------------------ MODULE Memory_Management_proofs ------------------------
(***************************************************************************)
(* Proofs about Memory_Management, for buffers and frames of any size: what *)
(* is displayed is one recording, and a pause freezes it.                  *)
(*                                                                         *)
(* The invariant says where each of the two state machines can be.  Until  *)
(* the first unpaused swap nothing is recorded.  From then on one buffer   *)
(* is enabled; while its recording runs, the address is not behind the     *)
(* edges of CS counted since the swap, so that the frame cannot end before *)
(* the recording does.                                                     *)
(***************************************************************************)
EXTENDS Memory_Management, TLAPS

Recorded(ram) == \A a \in 1..(LastSlot - 1) : ram[a + 1] = NextSample(ram[a])

\* The slots below k hold samples in a row, and c is the next one; slot 0 is
\* left out.
Chain(ram, k, c) ==
  \A a \in 1..LastSlot :
    /\ a + 1 < k => ram[a + 1] = NextSample(ram[a])
    /\ a + 1 = k => c = NextSample(ram[a])

MemoryTypes ==
  /\ {Reset, Pause, WREN_RAM1, WREN_RAM2, change_bit, Stop} \subseteq Bit
  /\ Address_CH_write \in Slot /\ count \in Sample
  /\ RAM1 \in [Slot -> Sample] /\ RAM2 \in [Slot -> Sample]
  /\ edges \in Nat /\ swaps \in 0..2

\* Before the first unpaused swap after a reset.
Waiting ==
  /\ swaps = 0 /\ Stop = 1 /\ Address_CH_write = 0
  /\ WREN_RAM1 = 0 /\ change_bit = 0

Filling(ram) == edges <= Address_CH_write /\ Chain(ram, Address_CH_write, count)
Filled(ram) == Address_CH_write = 0 /\ Recorded(ram)

\* RAM1 is enabled, RAM2 on display.
First ==
  /\ WREN_RAM1 = 1 /\ WREN_RAM2 = 0 /\ change_bit = 1 /\ Pause = 0
  /\ swaps = 2 => Recorded(RAM2)
  /\ IF Stop = 1 THEN Filling(RAM1) ELSE Filled(RAM1)

Second ==
  /\ WREN_RAM1 = 0 /\ WREN_RAM2 = 1
  /\ Recorded(RAM1)
  /\ IF Stop = 0 THEN Filling(RAM2) ELSE Filled(RAM2)

MemoryInv ==
  /\ MemoryTypes
  /\ Waiting \/ (Reset = 1 /\ swaps > 0 /\ (First \/ Second))
-----------------------------------------------------------------------------
(* What a store does to a recording.                                       *)

LEMMA NextSampleType == \A s \in Sample : NextSample(s) \in Sample
  BY BufferAssumption DEF Sample, NextSample

\* The next sample stored in the next slot makes the row longer by one.
LEMMA ChainGrows ==
  ASSUME NEW ram \in [Slot -> Sample], NEW k \in Slot, NEW c \in Sample, Chain(ram, k, c)
  PROVE  Chain([ram EXCEPT ![k] = c], k + 1, NextSample(c))
<1> DEFINE new == [ram EXCEPT ![k] = c]
<1>1. k \in Nat /\ k <= LastSlot /\ LastSlot \in Nat
  BY BufferAssumption DEF Slot
<1>2. new[k] = c /\ \A b \in Slot : b # k => new[b] = ram[b]
  OBVIOUS
<1> HIDE DEF new
<1>3. ASSUME NEW a \in 1..LastSlot, a + 1 < k + 1 PROVE new[a + 1] = NextSample(new[a])
  <2>1. a \in Slot /\ a + 1 \in Slot /\ a # k /\ a \in Nat /\ new[a] = ram[a]
    BY <1>1, <1>2, <1>3 DEF Slot
  <2>2. CASE a + 1 = k
    BY <1>2, <2>1, <2>2 DEF Chain
  <2>3. CASE a + 1 # k
    <3>1. a + 1 < k
      BY <1>1, <1>3, <2>1, <2>3
    <3> QED
      BY <1>2, <2>1, <2>3, <3>1 DEF Chain
  <2> QED
    BY <2>2, <2>3
<1>4. ASSUME NEW a \in 1..LastSlot, a + 1 = k + 1 PROVE NextSample(c) = NextSample(new[a])
  <2>1. a = k
    BY <1>1, <1>4
  <2> QED
    BY <1>2, <2>1
<1>5. Chain(new, k + 1, NextSample(c))
  BY <1>3, <1>4 DEF Chain
<1> QED
  BY <1>5 DEF new

\* The row that fills the buffer is a recording.
LEMMA ChainEnds ==
  ASSUME NEW ram, NEW c, Chain(ram, LastSlot + 1, c)
  PROVE  Recorded(ram)
<1>1. \A a \in 1..(LastSlot - 1) : a \in 1..LastSlot /\ a + 1 < LastSlot + 1
  BY BufferAssumption
<1> QED
  BY <1>1 DEF Chain, Recorded

\* Slot 0 is not part of it.
LEMMA RecordedKeeps ==
  ASSUME NEW ram \in [Slot -> Sample], NEW c \in Sample, Recorded(ram)
  PROVE  Recorded([ram EXCEPT ![0] = c])
<1> DEFINE new == [ram EXCEPT ![0] = c]
<1>1. ASSUME NEW a \in 1..(LastSlot - 1) PROVE new[a + 1] = NextSample(new[a])
  <2>1. a \in Slot /\ a + 1 \in Slot /\ a # 0 /\ a + 1 # 0
    BY BufferAssumption DEF Slot
  <2>2. new[a + 1] = ram[a + 1] /\ new[a] = ram[a]
    BY <2>1
  <2> QED
    BY <2>2 DEF Recorded
<1> HIDE DEF new
<1>2. Recorded(new)
  BY <1>1 DEF Recorded
<1> QED
  BY <1>2 DEF new

\* So short a row is none.
LEMMA ChainBegins ==
  ASSUME NEW ram, NEW c, NEW k \in {0, 1}
  PROVE  Chain(ram, k, c)
<1>1. \A a \in 1..LastSlot : ~(a + 1 < k) /\ a + 1 # k
  BY BufferAssumption
<1> QED
  BY <1>1 DEF Chain
-----------------------------------------------------------------------------
(* The steps.                                                              *)

\* An edge of CS with the buffer of turn enabled: its row grows, up to the end.
LEMMA FillStep ==
  ASSUME MemoryTypes, NEW ram \in [Slot -> Sample],
         edges <= Address_CH_write, Chain(ram, Address_CH_write, count),
         NEW wren1 \in Bit, NEW wren2 \in Bit,
         Recording(wren1, wren2), Advance(wren1, wren2)
  PROVE  LET new == [ram EXCEPT ![Address_CH_write] = count] IN
         /\ count' \in Sample /\ new \in [Slot -> Sample]
         /\ \/ /\ Address_CH_write' = Address_CH_write + 1 /\ Stop' = Stop
               /\ Address_CH_write' \in Slot
               /\ Chain(new, Address_CH_write', count')
            \/ Address_CH_write' = 0 /\ Stop' = 1 - Stop /\ Recorded(new)
<1> DEFINE new == [ram EXCEPT ![Address_CH_write] = count]
<1>1. /\ Address_CH_write \in Slot /\ count \in Sample /\ new \in [Slot -> Sample]
      /\ count' = NextSample(count)
  BY DEF MemoryTypes, Advance
<1>2. Chain(new, Address_CH_write + 1, count')
  BY <1>1, ChainGrows
<1> HIDE DEF new
<1>3. count' \in Sample
  BY <1>1, NextSampleType
<1>4. CASE Address_CH_write = LastSlot
  <2>1. Recorded(new)
    BY <1>2, <1>4, ChainEnds
  <2> QED
    BY <1>1, <1>3, <1>4, <2>1 DEF Advance, new
<1>5. CASE Address_CH_write # LastSlot
  <2>1. Address_CH_write' = Address_CH_write + 1 /\ Stop' = Stop
    BY <1>5 DEF Advance
  <2>2. Address_CH_write' \in Slot
    BY <1>1, <1>5, <2>1, BufferAssumption DEF Slot
  <2> QED
    BY <1>1, <1>2, <1>3, <2>1, <2>2 DEF new
<1> QED
  BY <1>4, <1>5

\* An edge of CS with no buffer of turn enabled: only slot 0 may be stored.
LEMMA IdleStep ==
  ASSUME MemoryTypes, NEW wren1 \in Bit, NEW wren2 \in Bit,
         ~Recording(wren1, wren2), Advance(wren1, wren2)
  PROVE  /\ count' \in Sample
         /\ Address_CH_write' = Address_CH_write /\ Stop' = Stop
<1>1. count' = NextSample(count) /\ count \in Sample
  BY DEF MemoryTypes, Advance
<1> QED
  BY <1>1, NextSampleType DEF Advance

LEMMA CSEdgeKeeps == MemoryInv /\ CSEdge => MemoryInv'
<1> SUFFICES ASSUME MemoryInv, CSEdge PROVE MemoryInv'
  OBVIOUS
<1>1. /\ MemoryTypes /\ Advance(WREN_RAM1, WREN_RAM2)
      /\ RAM1' = Store(RAM1, WREN_RAM1) /\ RAM2' = Store(RAM2, WREN_RAM2)
      /\ edges' = edges + 1 /\ Reset' = Reset /\ Reset = 1 /\ swaps' = swaps
      /\ WREN_RAM1' = WREN_RAM1 /\ WREN_RAM2' = WREN_RAM2
      /\ change_bit' = change_bit /\ Pause' = Pause
  BY DEF MemoryInv, CSEdge, control
<1>2. /\ WREN_RAM1 \in Bit /\ WREN_RAM2 \in Bit /\ Stop \in Bit /\ edges \in Nat
      /\ RAM1 \in [Slot -> Sample] /\ RAM2 \in [Slot -> Sample]
      /\ Address_CH_write \in Slot /\ count \in Sample
  BY <1>1 DEF MemoryTypes
<1>3. ASSUME count' \in Sample, Address_CH_write' \in Slot, Stop' \in Bit
      PROVE  MemoryTypes'
  <2>1. RAM1' \in [Slot -> Sample] /\ RAM2' \in [Slot -> Sample]
    BY <1>1, <1>2 DEF Store
  <2>2. edges' \in Nat
    BY <1>1, <1>2
  <2> QED
    BY <1>1, <1>3, <2>1, <2>2 DEF MemoryTypes
<1>4. CASE Waiting
  <2>1. ~Recording(WREN_RAM1, WREN_RAM2)
    BY <1>4 DEF Waiting, Recording
  <2>2. count' \in Sample /\ Address_CH_write' = Address_CH_write /\ Stop' = Stop
    BY <1>1, <1>2, <2>1, IdleStep
  <2>3. MemoryTypes'
    BY <1>2, <1>3, <2>2
  <2> QED
    BY <1>1, <1>4, <2>2, <2>3 DEF MemoryInv, Waiting
<1>5. CASE Reset = 1 /\ swaps > 0 /\ First
  <2>1. WREN_RAM1 = 1 /\ WREN_RAM2 = 0
    BY <1>5 DEF First
  <2>2. RAM1' = [RAM1 EXCEPT ![Address_CH_write] = count] /\ RAM2' = RAM2
    BY <1>1, <2>1 DEF Store
  <2>3. CASE Stop = 1
    <3>1. Recording(WREN_RAM1, WREN_RAM2) /\ Filling(RAM1)
      BY <1>5, <2>1, <2>3 DEF Recording, First
    <3>2. /\ count' \in Sample
          /\ \/ /\ Address_CH_write' = Address_CH_write + 1 /\ Stop' = Stop
                /\ Address_CH_write' \in Slot
                /\ Chain(RAM1', Address_CH_write', count')
             \/ Address_CH_write' = 0 /\ Stop' = 1 - Stop /\ Recorded(RAM1')
      BY <1>1, <1>2, <2>2, <3>1, FillStep DEF Filling
    <3>3. CASE /\ Address_CH_write' = Address_CH_write + 1 /\ Stop' = Stop
               /\ Address_CH_write' \in Slot
               /\ Chain(RAM1', Address_CH_write', count')
      <4>1. edges' <= Address_CH_write'
        BY <1>1, <1>2, <3>1, <3>3 DEF Filling, Slot
      <4>2. MemoryTypes'
        BY <1>2, <1>3, <3>2, <3>3
      <4>3. First'
        BY <1>1, <1>5, <2>1, <2>2, <2>3, <3>3, <4>1 DEF First, Filling, Recorded
      <4> QED
        BY <1>1, <1>5, <4>2, <4>3 DEF MemoryInv
    <3>4. CASE Address_CH_write' = 0 /\ Stop' = 1 - Stop /\ Recorded(RAM1')
      <4>1. Stop' = 0 /\ Address_CH_write' \in Slot
        BY <2>3, <3>4, BufferAssumption DEF Slot
      <4>2. MemoryTypes'
        BY <1>3, <3>2, <4>1 DEF Bit
      <4>3. First'
        BY <1>1, <1>5, <2>1, <2>2, <3>4, <4>1 DEF First, Filled, Recorded
      <4> QED
        BY <1>1, <1>5, <4>2, <4>3 DEF MemoryInv
    <3> QED
      BY <3>2, <3>3, <3>4
  <2>4. CASE Stop = 0
    <3>1. ~Recording(WREN_RAM1, WREN_RAM2) /\ Filled(RAM1)
      BY <1>5, <2>1, <2>4 DEF Recording, First
    <3>2. count' \in Sample /\ Address_CH_write' = Address_CH_write /\ Stop' = Stop
      BY <1>1, <1>2, <3>1, IdleStep
    <3>3. Recorded(RAM1')
      BY <1>2, <2>2, <3>1, RecordedKeeps DEF Filled
    <3>4. MemoryTypes'
      BY <1>2, <1>3, <3>2
    <3>5. First'
      BY <1>1, <1>5, <2>1, <2>2, <2>4, <3>1, <3>2, <3>3 DEF First, Filled, Recorded
    <3> QED
      BY <1>1, <1>5, <3>4, <3>5 DEF MemoryInv
  <2> QED
    BY <1>2, <2>3, <2>4 DEF Bit
<1>6. CASE Reset = 1 /\ swaps > 0 /\ Second
  <2>1. WREN_RAM1 = 0 /\ WREN_RAM2 = 1
    BY <1>6 DEF Second
  <2>2. RAM2' = [RAM2 EXCEPT ![Address_CH_write] = count] /\ RAM1' = RAM1
    BY <1>1, <2>1 DEF Store
  <2>3. CASE Stop = 0
    <3>1. Recording(WREN_RAM1, WREN_RAM2) /\ Filling(RAM2)
      BY <1>6, <2>1, <2>3 DEF Recording, Second
    <3>2. /\ count' \in Sample
          /\ \/ /\ Address_CH_write' = Address_CH_write + 1 /\ Stop' = Stop
                /\ Address_CH_write' \in Slot
                /\ Chain(RAM2', Address_CH_write', count')
             \/ Address_CH_write' = 0 /\ Stop' = 1 - Stop /\ Recorded(RAM2')
      BY <1>1, <1>2, <2>2, <3>1, FillStep DEF Filling
    <3>3. CASE /\ Address_CH_write' = Address_CH_write + 1 /\ Stop' = Stop
               /\ Address_CH_write' \in Slot
               /\ Chain(RAM2', Address_CH_write', count')
      <4>1. edges' <= Address_CH_write'
        BY <1>1, <1>2, <3>1, <3>3 DEF Filling, Slot
      <4>2. MemoryTypes'
        BY <1>2, <1>3, <3>2, <3>3
      <4>3. Second'
        BY <1>1, <1>6, <2>1, <2>2, <2>3, <3>3, <4>1 DEF Second, Filling, Recorded
      <4> QED
        BY <1>1, <1>6, <4>2, <4>3 DEF MemoryInv
    <3>4. CASE Address_CH_write' = 0 /\ Stop' = 1 - Stop /\ Recorded(RAM2')
      <4>1. Stop' = 1 /\ Address_CH_write' \in Slot
        BY <2>3, <3>4, BufferAssumption DEF Slot
      <4>2. MemoryTypes'
        BY <1>3, <3>2, <4>1 DEF Bit
      <4>3. Second'
        BY <1>1, <1>6, <2>1, <2>2, <3>4, <4>1 DEF Second, Filled, Recorded
      <4> QED
        BY <1>1, <1>6, <4>2, <4>3 DEF MemoryInv
    <3> QED
      BY <3>2, <3>3, <3>4
  <2>4. CASE Stop = 1
    <3>1. ~Recording(WREN_RAM1, WREN_RAM2) /\ Filled(RAM2)
      BY <1>6, <2>1, <2>4 DEF Recording, Second
    <3>2. count' \in Sample /\ Address_CH_write' = Address_CH_write /\ Stop' = Stop
      BY <1>1, <1>2, <3>1, IdleStep
    <3>3. Recorded(RAM2')
      BY <1>2, <2>2, <3>1, RecordedKeeps DEF Filled
    <3>4. MemoryTypes'
      BY <1>2, <1>3, <3>2
    <3>5. Second'
      BY <1>1, <1>6, <2>1, <2>2, <2>4, <3>1, <3>2, <3>3 DEF Second, Filled, Recorded
    <3> QED
      BY <1>1, <1>6, <3>4, <3>5 DEF MemoryInv
  <2> QED
    BY <1>2, <2>3, <2>4 DEF Bit
<1> QED
  BY <1>4, <1>5, <1>6 DEF MemoryInv

\* A swap finds the recording complete and the address back at 0.
LEMMA SwapFinds ==
  ASSUME MemoryInv, Swap
  PROVE  /\ Address_CH_write = 0 /\ ~Recording(WREN_RAM1, WREN_RAM2)
         /\ \/ Waiting
            \/ Reset = 1 /\ swaps > 0 /\ First /\ Stop = 0 /\ Recorded(RAM1)
            \/ Reset = 1 /\ swaps > 0 /\ Second /\ Stop = 1 /\ Recorded(RAM2)
<1>1. edges \in Nat /\ Address_CH_write \in Slot /\ Stop \in Bit
  BY DEF MemoryInv, MemoryTypes
<1>2. ~(edges <= Address_CH_write)
  BY <1>1, BufferAssumption DEF Swap, Slot
<1>3. CASE Waiting
  BY <1>3 DEF Waiting, Recording
<1>4. CASE Reset = 1 /\ swaps > 0 /\ First
  BY <1>1, <1>2, <1>4 DEF First, Filling, Filled, Recording, Bit
<1>5. CASE Reset = 1 /\ swaps > 0 /\ Second
  BY <1>1, <1>2, <1>5 DEF Second, Filling, Filled, Recording, Bit
<1> QED
  BY <1>3, <1>4, <1>5 DEF MemoryInv

\* What the enables do to a RAM while they settle leaves a recording one.
LEMMA UnsettledKeeps ==
  ASSUME MemoryTypes, Address_CH_write = 0, NEW ram \in [Slot -> Sample],
         NEW enabled \in BOOLEAN, NEW new \in Unsettled(ram, enabled)
  PROVE  new \in [Slot -> Sample] /\ (Recorded(ram) => Recorded(new))
<1>1. count \in Sample
  BY DEF MemoryTypes
<1>2. new = ram \/ new = [ram EXCEPT ![0] = count]
  BY DEF Unsettled
<1> QED
  BY <1>1, <1>2, RecordedKeeps

\* The edge of CS that may coincide with the swap can only begin a recording.
LEMMA SwapWrites ==
  ASSUME MemoryInv, Swap
  PROVE  /\ count' \in Sample /\ Stop' = Stop
         /\ Address_CH_write' \in {0, 1}
         /\ Recording(WREN_RAM1', WREN_RAM2') \/ Address_CH_write' = 0
<1>1. /\ Address_CH_write = 0 /\ ~Recording(WREN_RAM1, WREN_RAM2)
      /\ count \in Sample
  BY SwapFinds DEF MemoryInv, MemoryTypes
<1>2. CASE UNCHANGED writing
  BY <1>1, <1>2 DEF writing
<1>3. CASE Advance(WREN_RAM1, WREN_RAM2)
  BY <1>1, <1>3, NextSampleType DEF Advance
<1>4. CASE Advance(WREN_RAM1', WREN_RAM2')
  <2>1. LastSlot # 0
    BY BufferAssumption
  <2> QED
    BY <1>1, <1>4, <2>1, NextSampleType DEF Advance
<1> QED
  BY <1>2, <1>3, <1>4 DEF Swap

LEMMA SwapKeeps == MemoryInv /\ Swap => MemoryInv'
<1> SUFFICES ASSUME MemoryInv, Swap PROVE MemoryInv'
  OBVIOUS
<1>1. /\ Address_CH_write = 0 /\ MemoryTypes
      /\ count' \in Sample /\ Stop' = Stop /\ Stop \in Bit /\ Address_CH_write' \in {0, 1}
      /\ Recording(WREN_RAM1', WREN_RAM2') \/ Address_CH_write' = 0
      /\ change_bit \in Bit /\ swaps \in 0..2
  BY SwapFinds, SwapWrites DEF MemoryInv, MemoryTypes
<1>2. /\ Reset = 1 /\ Reset' = 1 /\ edges' = 0 /\ Pause' \in Bit
      /\ swaps' = IF Pause' = 0 /\ swaps < 2 THEN swaps + 1 ELSE swaps
      /\ IF Pause' = 0 THEN Turn ELSE Hold
  BY DEF Swap
<1>3. /\ RAM1' \in [Slot -> Sample] /\ (Recorded(RAM1) => Recorded(RAM1'))
      /\ RAM2' \in [Slot -> Sample] /\ (Recorded(RAM2) => Recorded(RAM2'))
  <2>1. RAM1 \in [Slot -> Sample] /\ RAM2 \in [Slot -> Sample]
    BY <1>1 DEF MemoryTypes
  <2>2. /\ RAM1' \in Unsettled(RAM1, 1 \in {WREN_RAM1, WREN_RAM1'})
        /\ RAM2' \in Unsettled(RAM2, 1 \in {WREN_RAM2, WREN_RAM2'})
    BY DEF Swap
  <2>3. RAM1' \in [Slot -> Sample] /\ (Recorded(RAM1) => Recorded(RAM1'))
    <3> DEFINE enabled == 1 \in {WREN_RAM1, WREN_RAM1'}
    <3>1. enabled \in BOOLEAN /\ RAM1' \in Unsettled(RAM1, enabled)
      BY <2>2
    <3> HIDE DEF enabled
    <3> QED
      BY <1>1, <2>1, <3>1, UnsettledKeeps
  <2>4. RAM2' \in [Slot -> Sample] /\ (Recorded(RAM2) => Recorded(RAM2'))
    <3> DEFINE enabled == 1 \in {WREN_RAM2, WREN_RAM2'}
    <3>1. enabled \in BOOLEAN /\ RAM2' \in Unsettled(RAM2, enabled)
      BY <2>2
    <3> HIDE DEF enabled
    <3> QED
      BY <1>1, <2>1, <3>1, UnsettledKeeps
  <2> QED
    BY <2>3, <2>4
<1>4. /\ WREN_RAM1' \in Bit /\ WREN_RAM2' \in Bit /\ change_bit' \in Bit
      /\ swaps' \in 0..2 /\ swaps' >= swaps
  BY <1>1, <1>2 DEF Turn, Hold, Bit
<1>5. MemoryTypes'
  <2>1. Address_CH_write' \in Slot /\ edges' \in Nat
    BY <1>1, <1>2, BufferAssumption DEF Slot
  <2> QED
    BY <1>1, <1>2, <1>3, <1>4, <2>1 DEF MemoryTypes, Bit
<1>6. /\ Chain(RAM1', Address_CH_write', count') /\ Chain(RAM2', Address_CH_write', count')
      /\ edges' <= Address_CH_write'
  BY <1>1, <1>2, ChainBegins
<1>7. /\ Filling(RAM1)' /\ Filling(RAM2)'
      /\ ~Recording(WREN_RAM1', WREN_RAM2') /\ Recorded(RAM1') => Filled(RAM1)'
      /\ ~Recording(WREN_RAM1', WREN_RAM2') /\ Recorded(RAM2') => Filled(RAM2)'
  BY <1>1, <1>6 DEF Filling, Filled, Chain, Recorded
<1> DEFINE First1 ==
             /\ WREN_RAM1' = 1 /\ WREN_RAM2' = 0 /\ change_bit' = 1 /\ Pause' = 0
             /\ swaps' = 2 => Recorded(RAM2')
             /\ Stop' = 1 \/ Recorded(RAM1')
           Second1 ==
             /\ WREN_RAM1' = 0 /\ WREN_RAM2' = 1
             /\ Recorded(RAM1') /\ (Stop' = 0 \/ Recorded(RAM2'))
<1>8. First1 => First'
  BY <1>1, <1>7 DEF First, Recording, Recorded, Bit
<1>9. Second1 => Second'
  BY <1>1, <1>7 DEF Second, Recording, Recorded, Bit
<1>10. CASE Waiting
  <2>1. swaps = 0 /\ Stop = 1 /\ change_bit = 0 /\ WREN_RAM1 = 0
    BY <1>10 DEF Waiting
  <2>2. CASE Pause' = 0
    <3>1. First1 /\ swaps' = 1
      BY <1>1, <1>2, <2>1, <2>2 DEF Turn
    <3> QED
      BY <1>2, <1>5, <1>8, <3>1 DEF MemoryInv
  <2>3. CASE Pause' # 0
    <3>1. /\ WREN_RAM1' = 0 /\ WREN_RAM2' = 1 /\ change_bit' = 0 /\ swaps' = 0
          /\ Stop' = 1
      BY <1>1, <1>2, <2>1, <2>3 DEF Hold
    <3>2. Address_CH_write' = 0
      BY <1>1, <3>1 DEF Recording
    <3> QED
      BY <1>5, <3>1, <3>2 DEF MemoryInv, Waiting
  <2> QED
    BY <2>2, <2>3
<1>11. CASE Reset = 1 /\ swaps > 0 /\ First /\ Stop = 0 /\ Recorded(RAM1)
  <2>1. change_bit = 1
    BY <1>11 DEF First
  <2>2. WREN_RAM1' = 0 /\ WREN_RAM2' = 1
    BY <1>2, <2>1 DEF Turn, Hold
  <2>3. Second1
    BY <1>1, <1>3, <1>11, <2>2
  <2> QED
    BY <1>1, <1>2, <1>4, <1>5, <1>9, <1>11, <2>3 DEF MemoryInv
<1>12. CASE Reset = 1 /\ swaps > 0 /\ Second /\ Stop = 1 /\ Recorded(RAM2)
  <2>1. Recorded(RAM1') /\ Recorded(RAM2')
    BY <1>3, <1>12 DEF Second
  <2>2. CASE Pause' = 0 /\ change_bit = 0
    <3>1. First1
      BY <1>1, <1>2, <2>1, <2>2 DEF Turn
    <3> QED
      BY <1>1, <1>2, <1>4, <1>5, <1>8, <1>12, <3>1 DEF MemoryInv
  <2>3. CASE ~(Pause' = 0 /\ change_bit = 0)
    <3>1. WREN_RAM1' = 0 /\ WREN_RAM2' = 1
      BY <1>2, <2>3 DEF Turn, Hold
    <3>2. Second1
      BY <2>1, <3>1
    <3> QED
      BY <1>1, <1>2, <1>4, <1>5, <1>9, <1>12, <3>2 DEF MemoryInv
  <2> QED
    BY <2>2, <2>3
<1> QED
  BY <1>10, <1>11, <1>12, SwapFinds

LEMMA ResetKeeps == MemoryInv /\ (AssertReset \/ ReleaseReset) => MemoryInv'
<1> SUFFICES ASSUME MemoryInv, AssertReset \/ ReleaseReset PROVE MemoryInv'
  OBVIOUS
<1>1. MemoryTypes /\ (Waiting \/ Reset = 1)
  BY DEF MemoryInv
<1>2. CASE AssertReset
  <2>1. RAM1' \in [Slot -> Sample] /\ RAM2' \in [Slot -> Sample]
    BY <1>1, <1>2 DEF AssertReset, Unsettled, MemoryTypes
  <2>2. 0 \in Slot /\ FrameMin \in Nat
    BY BufferAssumption DEF Slot
  <2>3. MemoryTypes'
    BY <1>1, <1>2, <2>1, <2>2 DEF AssertReset, MemoryTypes, Bit
  <2>4. Waiting'
    BY <1>2 DEF AssertReset, Waiting
  <2> QED
    BY <2>3, <2>4 DEF MemoryInv
<1>3. CASE ReleaseReset
  <2>1. Waiting
    BY <1>1, <1>3 DEF ReleaseReset
  <2>2. MemoryTypes' /\ Waiting'
    BY <1>1, <1>3, <2>1 DEF ReleaseReset, MemoryTypes, Waiting, control, writing, Bit
  <2> QED
    BY <2>2 DEF MemoryInv
<1> QED
  BY <1>2, <1>3

LEMMA StutterKeeps == MemoryInv /\ UNCHANGED memoryVars => MemoryInv'
<1> SUFFICES ASSUME MemoryInv, UNCHANGED memoryVars PROVE MemoryInv'
  OBVIOUS
<1>1. /\ UNCHANGED <<Reset, Pause, WREN_RAM1, WREN_RAM2, change_bit>>
      /\ UNCHANGED <<Address_CH_write, Stop, count, RAM1, RAM2, edges, swaps>>
  BY DEF memoryVars, control, writing
<1> QED
  BY <1>1 DEF MemoryInv, MemoryTypes, Waiting, First, Second, Filling, Filled, Recorded, Chain

LEMMA MemoryInitInv == MemoryInit => MemoryInv
<1> SUFFICES ASSUME MemoryInit PROVE MemoryInv
  OBVIOUS
<1>1. 0 \in Slot /\ 0 \in Sample /\ FrameMin \in Nat
  BY BufferAssumption DEF Slot, Sample
<1>2. MemoryTypes
  BY <1>1 DEF MemoryInit, MemoryTypes, Bit
<1>3. Waiting
  BY DEF MemoryInit, Waiting
<1> QED
  BY <1>2, <1>3 DEF MemoryInv
-----------------------------------------------------------------------------
(* The results.                                                            *)

\* Where the swapping of Memory_Management.v:41-71 and the recording of lines
\* 83-116 can be, for buffers and frames of any size.
THEOREM MemoryInvariant == MemorySpec => []MemoryInv
<1>1. MemoryInv /\ [MemoryNext]_memoryVars => MemoryInv'
  BY CSEdgeKeeps, SwapKeeps, ResetKeeps, StutterKeeps DEF MemoryNext
<1> QED
  BY <1>1, MemoryInitInv, PTL DEF MemorySpec

\* What is on display is one recording, for buffers and frames of any size, under
\* any resets and pauses.
THEOREM DisplayIsARecording == MemorySpec => []ShownIsARecording
<1>1. MemoryInv => ShownIsARecording
  <2> SUFFICES ASSUME MemoryInv, swaps = 2 PROVE Recorded(Shown)
    BY DEF ShownIsARecording, Recorded
  <2>1. First \/ Second
    BY DEF MemoryInv, Waiting
  <2>2. CASE First
    BY <2>2 DEF First, Shown
  <2>3. CASE Second
    BY <2>3 DEF Second, Shown
  <2> QED
    BY <2>1, <2>2, <2>3
<1> QED
  BY <1>1, MemoryInvariant, PTL

\* A pause freezes the display: the buffer shown is not the one enabled, and
\* no edge switches its clock.
THEOREM PauseKeepsDisplay == MemorySpec => PauseFreezes
<1> DEFINE Frozen ==
      Pause = 1 /\ Pause' = 1 /\ Reset = 1 /\ Reset' = 1 /\ swaps > 0 => Shown' = Shown
<1>1. MemoryInv /\ [MemoryNext]_memoryVars => Frozen
  <2> SUFFICES ASSUME MemoryInv, [MemoryNext]_memoryVars,
                      Pause = 1, Pause' = 1, Reset = 1, Reset' = 1, swaps > 0
               PROVE  Shown' = Shown
    OBVIOUS
  <2>1. WREN_RAM1 = 0 /\ WREN_RAM2 = 1
    BY DEF MemoryInv, Waiting, First, Second
  <2>2. CASE CSEdge
    BY <2>1, <2>2 DEF CSEdge, Store, Shown, control
  <2>3. CASE Swap
    <3>1. WREN_RAM1' = 0 /\ WREN_RAM2' = 1
      BY <2>3 DEF Swap, Hold
    <3>2. RAM1' = RAM1
      BY <2>1, <2>3, <3>1 DEF Swap, Unsettled
    <3> QED
      BY <2>1, <3>1, <3>2 DEF Shown
  <2>4. CASE AssertReset \/ ReleaseReset
    BY <2>4 DEF AssertReset, ReleaseReset
  <2>5. CASE UNCHANGED memoryVars
    BY <2>5 DEF memoryVars, control, Shown
  <2> QED
    BY <2>2, <2>3, <2>4, <2>5 DEF MemoryNext
<1> QED
  BY <1>1, MemoryInvariant, PTL DEF MemorySpec, PauseFreezes
===============================================================================
