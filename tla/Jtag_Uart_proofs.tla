---------------------------- MODULE Jtag_Uart_proofs ----------------------------
(***************************************************************************)
(* Proofs about the driver of the JTAG UART, for rings, FIFOs, thresholds  *)
(* and calls of any size; in the second part, that either direction is a   *)
(* byte channel: every step of the driver, the device and the host puts    *)
(* bytes in, takes bytes out, or leaves alone what is under way.           *)
(***************************************************************************)
EXTENDS Jtag_Uart, SequenceTheorems, TLAPS

LEMMA ModSmall ==
  ASSUME NEW m \in Nat, m > 0, NEW a \in 0..(2 * m - 1)
  PROVE  a % m = IF a < m THEN a ELSE a - m
OBVIOUS

LEMMA AdvanceIs ==
  ASSUME NEW i \in Index, NEW n \in 0..BUF_LEN
  PROVE  Advance(i, n) = IF i + n < BUF_LEN THEN i + n ELSE i + n - BUF_LEN
BY JtagAssumption, ModSmall DEF Advance, Index

\* How many bytes a ring holds.
Used(in, out) == IF in >= out THEN in - out ELSE in + BUF_LEN - out

LEMMA UsedIs ==
  ASSUME NEW in \in Index, NEW out \in Index
  PROVE  Used(in, out) \in 0..(BUF_LEN - 1)
BY JtagAssumption DEF Index, Used

LEMMA FreeFits ==
  ASSUME NEW in \in Index, NEW out \in Index
  PROVE  /\ Free(in, out) \in 0..(BUF_LEN - 1) /\ Free(in, out) + Used(in, out) <= BUF_LEN - 1
         /\ in + Free(in, out) <= BUF_LEN
BY JtagAssumption DEF Index, Free, Used

LEMMA FilledFits ==
  ASSUME NEW in \in Index, NEW out \in Index
  PROVE  /\ Filled(in, out) \in 0..(BUF_LEN - 1) /\ Filled(in, out) <= Used(in, out)
         /\ out + Filled(in, out) <= BUF_LEN
         /\ Filled(in, out) = 0 => in = out
BY JtagAssumption DEF Index, Filled, Used

\* A pointer moved on by less than the ring's size: the ring gains or loses that much.
LEMMA UsedGains ==
  ASSUME NEW in \in Index, NEW out \in Index, NEW n \in Nat, n + Used(in, out) <= BUF_LEN - 1
  PROVE  Advance(in, n) \in Index /\ Used(Advance(in, n), out) = Used(in, out) + n
<1>1. n \in 0..BUF_LEN
  BY JtagAssumption DEF Used, Index
<1>2. Advance(in, n) = IF in + n < BUF_LEN THEN in + n ELSE in + n - BUF_LEN
  BY <1>1, AdvanceIs
<1> QED
  BY <1>1, <1>2, JtagAssumption DEF Index, Used

LEMMA UsedLoses ==
  ASSUME NEW in \in Index, NEW out \in Index, NEW n \in Nat, n <= Used(in, out)
  PROVE  Advance(out, n) \in Index /\ Used(in, Advance(out, n)) = Used(in, out) - n
<1>1. n \in 0..BUF_LEN
  BY JtagAssumption DEF Used, Index
<1>2. Advance(out, n) = IF out + n < BUF_LEN THEN out + n ELSE out + n - BUF_LEN
  BY <1>1, AdvanceIs
<1> QED
  BY <1>1, <1>2, JtagAssumption DEF Index, Used

\* The ring with one slot left is the one whose next pointer meets the other.
LEMMA NotFull ==
  ASSUME NEW in \in Index, NEW out \in Index
  PROVE  /\ Advance(in, 1) \in Index /\ Advance(in, 1) # in
         /\ Advance(in, 1) # out => Used(in, out) + 1 <= BUF_LEN - 1
<1>1. 1 \in 0..BUF_LEN
  BY JtagAssumption
<1> QED
  BY <1>1, JtagAssumption, AdvanceIs DEF Index, Used
-----------------------------------------------------------------------------
(* The invariant, in parts.                                                *)

\* A copy that is not yet published fits the free part of its ring, or comes
\* from the filled part, and stays within the ring's memory.
CopyInv ==
  /\ pc = "write_publish" =>
       /\ chunk \in 1..count /\ tx_in + chunk <= BUF_LEN
       /\ chunk + Used(tx_in, tx_out) <= BUF_LEN - 1
       /\ \A i \in 0..(chunk - 1) : tx_buf[tx_in + i] = written + 1 + i
  /\ pc = "read_publish" =>
       /\ chunk \in 1..count /\ rx_out + chunk <= BUF_LEN
       /\ chunk <= Used(rx_in, rx_out)

\* The routine never counts on more room than the FIFO has.
SpaceInv == space + Len(wfifo) <= FIFO_DEPTH

\* Without a clock the host is never given up.
ClockInv ==
  ~clock =>
    /\ host_inactive = 0 /\ timeout = INT_MAX
    /\ pc = "read_done" /\ ~nonblock => moved > 0 \/ count = 0

JtagInv == JtagTypeOK /\ CopyInv /\ SpaceInv /\ ClockInv
                      /\ TransmitInterruptOn /\ ReceiveInterruptOn
-----------------------------------------------------------------------------
LEMMA JtagInitInv == JtagInit => JtagInv
BY JtagAssumption DEF JtagInit, JtagInv, JtagTypeOK, CopyInv, SpaceInv, ClockInv,
   TransmitInterruptOn, ReceiveInterruptOn, Index, Pcs

(* The types, by the part of the state they are about.                     *)

IdleTypes ==
  /\ timeout \in 2..INT_MAX /\ host_inactive \in 0..(INT_MAX - 2)
  /\ ac \in BOOLEAN /\ clock \in BOOLEAN

IsrTypes ==
  /\ isr \in {"off", "control", "rx", "tx"} /\ space \in 0..FIFO_DEPTH
  /\ wi \in BOOLEAN /\ avail \in BOOLEAN

CallTypes ==
  /\ pc \in Pcs /\ count \in Nat /\ moved \in Nat /\ nonblock \in BOOLEAN
  /\ snap \in Index /\ chunk \in 0..(BUF_LEN - 1)

HostTypes == connected \in BOOLEAN /\ offered \in Nat /\ delivered \in Seq(Nat)

TxTypes == tx_in \in Index /\ tx_out \in Index /\ tx_buf \in [Index -> Nat] /\ written \in Nat
RxTypes == rx_in \in Index /\ rx_out \in Index /\ rx_buf \in [Index -> Nat] /\ received \in Seq(Nat)

FifoTypes ==
  /\ wfifo \in Seq(Nat) /\ Len(wfifo) <= FIFO_DEPTH
  /\ rfifo \in Seq(Nat) /\ Len(rfifo) <= FIFO_DEPTH
  /\ pause_irq \in BOOLEAN /\ irq_enable \subseteq {"RE", "WE"}

LEMMA TypesByPart ==
  JtagTypeOK <=> /\ IdleTypes /\ IsrTypes /\ CallTypes /\ HostTypes
                 /\ TxTypes /\ RxTypes /\ FifoTypes
BY DEF JtagTypeOK, IdleTypes, IsrTypes, CallTypes, HostTypes, TxTypes, RxTypes, FifoTypes

\* A part that is left alone keeps its types.
LEMMA IdleSame == IdleTypes /\ UNCHANGED <<timeout, host_inactive, ac, clock>> => IdleTypes'
BY DEF IdleTypes

LEMMA IsrSame == IsrTypes /\ UNCHANGED <<isr, space, wi, avail>> => IsrTypes'
BY DEF IsrTypes

LEMMA CallSame == CallTypes /\ UNCHANGED <<pc, count, moved, nonblock, snap, chunk>> => CallTypes'
BY DEF CallTypes

LEMMA HostSame == HostTypes /\ UNCHANGED <<connected, offered, delivered>> => HostTypes'
BY DEF HostTypes

LEMMA TxSame == TxTypes /\ UNCHANGED <<tx_in, tx_out, tx_buf, written>> => TxTypes'
BY DEF TxTypes

LEMMA RxSame == RxTypes /\ UNCHANGED <<rx_in, rx_out, rx_buf, received>> => RxTypes'
BY DEF RxTypes

LEMMA FifoSame == FifoTypes /\ UNCHANGED <<wfifo, rfifo, pause_irq, irq_enable>> => FifoTypes'
BY DEF FifoTypes

LEMMA TypeStep == JtagInv /\ [JtagNext]_jtagVars => JtagTypeOK'
<1> SUFFICES ASSUME JtagInv, [JtagNext]_jtagVars PROVE JtagTypeOK'
  OBVIOUS
<1> SUFFICES /\ IdleTypes' /\ IsrTypes' /\ CallTypes' /\ HostTypes'
             /\ TxTypes' /\ RxTypes' /\ FifoTypes'
  BY DEF JtagTypeOK, IdleTypes, IsrTypes, CallTypes, HostTypes, TxTypes, RxTypes, FifoTypes
<1> USE JtagAssumption
<1>0. IdleTypes /\ IsrTypes /\ CallTypes /\ HostTypes /\ TxTypes /\ RxTypes /\ FifoTypes
  BY TypesByPart DEF JtagInv
<1>1. CASE HostTake
  <2>1. UNCHANGED <<timeout, host_inactive, ac, clock, isr, space, wi, avail, pc, count, moved, nonblock, snap, chunk, tx_in, tx_out, tx_buf, written, rx_in, rx_out, rx_buf, received>>
    BY <1>1 DEF HostTake, idleVars, txVars, rxVars, isrVars, callVars, hostVars
  <2>2. FifoTypes'
    BY <1>0, <1>1 DEF HostTake, FifoTypes
  <2>3. Head(wfifo) \in Nat
    BY <1>0, <1>1 DEF HostTake, FifoTypes
  <2>4. HostTypes'
    BY <1>0, <1>1, <2>3 DEF HostTake, HostTypes
  <2> QED
    BY <1>0, <2>1, <2>2, <2>4, IdleSame, IsrSame, CallSame, TxSame, RxSame
<1>2. CASE HostSend
  <2>1. UNCHANGED <<isr, space, wi, avail, pc, count, moved, nonblock, snap, chunk, tx_in, tx_out, tx_buf, written, rx_in, rx_out, rx_buf, received>>
    BY <1>2 DEF HostSend, idleVars, txVars, rxVars, isrVars, callVars, hostVars
  <2>2. offered' \in Nat
    BY <1>0, <1>2 DEF HostSend, HostTypes
  <2>3. FifoTypes'
    BY <1>0, <1>2, <2>2 DEF HostSend, FifoTypes
  <2>4. HostTypes'
    BY <1>0, <1>2 DEF HostSend, HostTypes
  <2>5. IdleTypes'
    BY <1>0, <1>2 DEF HostSend, IdleTypes
  <2> QED
    BY <1>0, <2>1, <2>3, <2>4, <2>5, IsrSame, CallSame, TxSame, RxSame
<1>3. CASE HostPause
  <2>1. UNCHANGED <<isr, space, wi, avail, pc, count, moved, nonblock, snap, chunk, connected, offered, delivered, tx_in, tx_out, tx_buf, written, rx_in, rx_out, rx_buf, received>>
    BY <1>3 DEF HostPause, idleVars, txVars, rxVars, isrVars, callVars, hostVars
  <2>2. FifoTypes'
    BY <1>0, <1>3 DEF HostPause, FifoTypes
  <2>3. IdleTypes'
    BY <1>0, <1>3 DEF HostPause, IdleTypes
  <2> QED
    BY <1>0, <2>1, <2>2, <2>3, IsrSame, CallSame, HostSame, TxSame, RxSame
<1>4. CASE HostPlug
  <2>1. UNCHANGED <<timeout, host_inactive, ac, clock, isr, space, wi, avail, pc, count, moved, nonblock, snap, chunk, tx_in, tx_out, tx_buf, written, rx_in, rx_out, rx_buf, received, wfifo, rfifo, pause_irq, irq_enable>>
    BY <1>4 DEF HostPlug, idleVars, txVars, rxVars, isrVars, callVars, hostVars
  <2>2. HostTypes'
    BY <1>0, <1>4 DEF HostPlug, HostTypes
  <2> QED
    BY <1>0, <2>1, <2>2, IdleSame, IsrSame, CallSame, TxSame, RxSame, FifoSame
<1>5. CASE IsrEnter
  <2>1. UNCHANGED <<timeout, host_inactive, ac, clock, pc, count, moved, nonblock, snap, chunk, connected, offered, delivered, tx_in, tx_out, tx_buf, written, rx_in, rx_out, rx_buf, received, wfifo, rfifo, pause_irq, irq_enable>>
    BY <1>5 DEF IsrEnter, idleVars, txVars, rxVars, isrVars, callVars, hostVars
  <2>2. IsrTypes'
    BY <1>0, <1>5 DEF IsrEnter, IsrTypes
  <2> QED
    BY <1>0, <2>1, <2>2, IdleSame, CallSame, HostSame, TxSame, RxSame, FifoSame
<1>6. CASE IsrControl
  <2>1. UNCHANGED <<timeout, host_inactive, ac, clock, pc, count, moved, nonblock, snap, chunk, connected, offered, delivered, tx_in, tx_out, tx_buf, written, rx_in, rx_out, rx_buf, received, wfifo, rfifo, pause_irq, irq_enable>>
    BY <1>6 DEF IsrControl, idleVars, txVars, rxVars, isrVars, callVars, hostVars
  <2>2. IsrTypes'
    BY <1>0, <1>6 DEF IsrControl, ReadInterrupt, WriteInterrupt, FifoTypes, IsrTypes
  <2> QED
    BY <1>0, <2>1, <2>2, IdleSame, CallSame, HostSame, TxSame, RxSame, FifoSame
<1>7. CASE IsrRxByte
  <2>1. UNCHANGED <<timeout, host_inactive, ac, clock, pc, count, moved, nonblock, snap, chunk, connected, offered, delivered, tx_in, tx_out, tx_buf, written>>
    BY <1>7 DEF IsrRxByte, idleVars, txVars, rxVars, isrVars, callVars, hostVars
  <2>2. Advance(rx_in, 1) \in Index /\ Head(rfifo) \in Nat
    BY <1>0, <1>7, NotFull DEF IsrRxByte, RxTypes, FifoTypes
  <2>3. RxTypes'
    BY <1>0, <1>7, <2>2 DEF IsrRxByte, RxTypes, rxVars
  <2>4. pause_irq' \in BOOLEAN
    BY <1>0, <1>7 DEF IsrRxByte
  <2>5. FifoTypes'
    BY <1>0, <1>7, <2>4 DEF IsrRxByte, RxFull, FifoTypes
  <2>6. IsrTypes'
    BY <1>0, <1>7 DEF IsrRxByte, RxFull, IsrTypes
  <2> QED
    BY <1>0, <2>1, <2>3, <2>5, <2>6, IdleSame, CallSame, HostSame, TxSame
<1>8. CASE IsrRxEmpty
  <2>1. UNCHANGED <<timeout, host_inactive, ac, clock, pc, count, moved, nonblock, snap, chunk, connected, offered, delivered, tx_in, tx_out, tx_buf, written, rx_in, rx_out, rx_buf, received>>
    BY <1>8 DEF IsrRxEmpty, idleVars, txVars, rxVars, isrVars, callVars, hostVars
  <2>2. pause_irq' \in BOOLEAN
    BY <1>0, <1>8 DEF IsrRxEmpty
  <2>3. FifoTypes'
    BY <1>0, <1>8, <2>2 DEF IsrRxEmpty, AfterRx, FifoTypes
  <2>4. IsrTypes'
    BY <1>0, <1>8 DEF IsrRxEmpty, AfterRx, IsrTypes
  <2> QED
    BY <1>0, <2>1, <2>3, <2>4, IdleSame, CallSame, HostSame, TxSame, RxSame
<1>9. CASE IsrRxFull
  <2>1. UNCHANGED <<timeout, host_inactive, ac, clock, pc, count, moved, nonblock, snap, chunk, connected, offered, delivered, tx_in, tx_out, tx_buf, written, rx_in, rx_out, rx_buf, received>>
    BY <1>9 DEF IsrRxFull, idleVars, txVars, rxVars, isrVars, callVars, hostVars
  <2>2. FifoTypes'
    BY <1>0, <1>9 DEF IsrRxFull, AfterRx, FifoTypes
  <2>3. IsrTypes'
    BY <1>0, <1>9 DEF IsrRxFull, AfterRx, IsrTypes
  <2> QED
    BY <1>0, <2>1, <2>2, <2>3, IdleSame, CallSame, HostSame, TxSame, RxSame
<1>10. CASE IsrTxByte
  <2>1. UNCHANGED <<timeout, host_inactive, ac, clock, pc, count, moved, nonblock, snap, chunk, connected, offered, delivered, rx_in, rx_out, rx_buf, received>>
    BY <1>10 DEF IsrTxByte, idleVars, txVars, rxVars, isrVars, callVars, hostVars
  <2>2. Advance(tx_out, 1) \in Index /\ tx_buf[tx_out] \in Nat
    BY <1>0, NotFull DEF TxTypes
  <2>3. TxTypes'
    BY <1>0, <1>10, <2>2 DEF IsrTxByte, TxTypes, txVars
  <2>4. FifoTypes'
    BY <1>0, <1>10, <2>2 DEF IsrTxByte, TxMore, PutByte, FifoTypes
  <2>5. IsrTypes'
    BY <1>0, <1>10 DEF IsrTxByte, TxMore, PutByte, IsrTypes
  <2> QED
    BY <1>0, <2>1, <2>3, <2>4, <2>5, IdleSame, CallSame, HostSame, RxSame
<1>11. CASE IsrTxDone
  <2>1. UNCHANGED <<timeout, host_inactive, ac, clock, pc, count, moved, nonblock, snap, chunk, connected, offered, delivered, tx_in, tx_out, tx_buf, written, rx_in, rx_out, rx_buf, received>>
    BY <1>11 DEF IsrTxDone, idleVars, txVars, rxVars, isrVars, callVars, hostVars
  <2>2. FifoTypes'
    BY <1>0, <1>11 DEF IsrTxDone, TxDone, FifoTypes
  <2>3. wi' \in BOOLEAN
    BY <1>0, <1>11 DEF IsrTxDone
  <2>4. IsrTypes'
    BY <1>0, <1>11, <2>3 DEF IsrTxDone, TxDone, IsrTypes
  <2> QED
    BY <1>0, <2>1, <2>2, <2>4, IdleSame, CallSame, HostSame, TxSame, RxSame
<1>12. CASE Timeout
  <2>1. UNCHANGED <<isr, space, wi, avail, pc, count, moved, nonblock, snap, chunk, connected, offered, delivered, tx_in, tx_out, tx_buf, written, rx_in, rx_out, rx_buf, received, wfifo, rfifo, pause_irq, irq_enable>>
    BY <1>12 DEF Timeout, idleVars, txVars, rxVars, isrVars, callVars, hostVars
  <2>2. ac' \in BOOLEAN
    BY <1>0, <1>12 DEF Timeout
  <2>3. IdleTypes'
    BY <1>0, <1>12, <2>2 DEF Timeout, IdleTypes
  <2> QED
    BY <1>0, <2>1, <2>3, IsrSame, CallSame, HostSame, TxSame, RxSame, FifoSame
<1>13. CASE WriteCopy
  <2>1. UNCHANGED <<timeout, host_inactive, ac, clock, isr, space, wi, avail, connected, offered, delivered, rx_in, rx_out, rx_buf, received, wfifo, rfifo, pause_irq, irq_enable>>
    BY <1>13 DEF WriteCopy, idleVars, txVars, rxVars, isrVars, callVars, hostVars
  <2> DEFINE n == Least(Free(tx_in, tx_out), count)
  <2>2. n \in 0..(BUF_LEN - 1)
    <3>1. tx_in \in Index /\ tx_out \in Index /\ count \in Nat
      BY <1>0 DEF TxTypes, CallTypes
    <3>2. Free(tx_in, tx_out) \in 0..(BUF_LEN - 1)
      BY <3>1, FreeFits
    <3> QED
      BY <3>1, <3>2 DEF Least
  <2> HIDE DEF n
  <2>3. TxTypes'
    <3> DEFINE new == [i \in Index |-> IF i \in tx_in..(tx_in + n - 1)
                                       THEN written + 1 + i - tx_in ELSE tx_buf[i]]
    <3>1. \A i \in Index : i \in tx_in..(tx_in + n - 1) => written + 1 + i - tx_in \in Nat
      BY <1>0, <2>2 DEF TxTypes, Index
    <3>2. new \in [Index -> Nat]
      BY <1>0, <3>1 DEF TxTypes
    <3>3. tx_buf' = new /\ UNCHANGED <<tx_in, tx_out, written>>
      BY <1>13 DEF WriteCopy, n
    <3> QED
      BY <1>0, <3>2, <3>3 DEF TxTypes
  <2>4. CallTypes'
    BY <1>0, <1>13, <2>2 DEF WriteCopy, n, CallTypes, TxTypes, Index, Pcs, WritePcs
  <2> QED
    BY <1>0, <2>1, <2>3, <2>4, IdleSame, IsrSame, HostSame, RxSame, FifoSame
<1>14. CASE WritePublish
  <2>1. UNCHANGED <<timeout, host_inactive, ac, clock, isr, space, wi, avail, connected, offered, delivered, rx_in, rx_out, rx_buf, received, wfifo, rfifo, pause_irq, irq_enable>>
    BY <1>14 DEF WritePublish, idleVars, txVars, rxVars, isrVars, callVars, hostVars
  <2>2. Advance(tx_in, chunk) \in Index /\ count - chunk \in Nat
    BY <1>0, <1>14, UsedGains DEF WritePublish, Running, JtagInv, CopyInv, CallTypes, TxTypes
  <2>3. TxTypes'
    BY <1>0, <1>14, <2>2 DEF WritePublish, TxTypes, CallTypes
  <2>4. CallTypes'
    BY <1>0, <1>14, <2>2 DEF WritePublish, CallTypes, Pcs, WritePcs
  <2> QED
    BY <1>0, <2>1, <2>3, <2>4, IdleSame, IsrSame, HostSame, RxSame, FifoSame
<1>15. CASE WriteKick
  <2>1. UNCHANGED <<timeout, host_inactive, ac, clock, isr, space, wi, avail, connected, offered, delivered, tx_in, tx_out, tx_buf, written, rx_in, rx_out, rx_buf, received>>
    BY <1>15 DEF WriteKick, idleVars, txVars, rxVars, isrVars, callVars, hostVars
  <2>2. FifoTypes'
    BY <1>0, <1>15 DEF WriteKick, Kick, Return, Goto, Pcs, WritePcs, Index, FifoTypes
  <2>3. nonblock' \in BOOLEAN
    BY <1>0, <1>15 DEF WriteKick, Return, Goto, CallTypes
  <2>4. CallTypes'
    BY <1>0, <1>15, <2>3 DEF WriteKick, Kick, Return, Goto, Pcs, WritePcs, Index, CallTypes
  <2> QED
    BY <1>0, <2>1, <2>2, <2>4, IdleSame, IsrSame, HostSame, TxSame, RxSame
<1>16. CASE WriteWait
  <2>1. UNCHANGED <<timeout, host_inactive, ac, clock, isr, space, wi, avail, connected, offered, delivered, tx_in, tx_out, tx_buf, written, rx_in, rx_out, rx_buf, received, wfifo, rfifo, pause_irq, irq_enable>>
    BY <1>16 DEF WriteWait, idleVars, txVars, rxVars, isrVars, callVars, hostVars
  <2>2. CallTypes'
    BY <1>0, <1>16 DEF WriteWait, Goto, Pcs, WritePcs, CallTypes
  <2> QED
    BY <1>0, <2>1, <2>2, IdleSame, IsrSame, HostSame, TxSame, RxSame, FifoSame
<1>17. CASE WriteCheck
  <2>1. UNCHANGED <<timeout, host_inactive, ac, clock, isr, space, wi, avail, connected, offered, delivered, tx_in, tx_out, tx_buf, written, rx_in, rx_out, rx_buf, received, wfifo, rfifo, pause_irq, irq_enable>>
    BY <1>17 DEF WriteCheck, idleVars, txVars, rxVars, isrVars, callVars, hostVars
  <2>2. nonblock' \in BOOLEAN
    BY <1>0, <1>17 DEF WriteCheck, Return, Goto, CallTypes
  <2>3. CallTypes'
    BY <1>0, <1>17, <2>2 DEF WriteCheck, Goto, Return, Pcs, WritePcs, Index, CallTypes
  <2> QED
    BY <1>0, <2>1, <2>3, IdleSame, IsrSame, HostSame, TxSame, RxSame, FifoSame
<1>18. CASE ReadCopy
  <2>1. UNCHANGED <<timeout, host_inactive, ac, clock, isr, space, wi, avail, connected, offered, delivered, tx_in, tx_out, tx_buf, written, wfifo, rfifo, pause_irq, irq_enable>>
    BY <1>18 DEF ReadCopy, idleVars, txVars, rxVars, isrVars, callVars, hostVars
  <2> DEFINE n == Least(Filled(rx_in, rx_out), count)
           got == [i \in 1..n |-> rx_buf[rx_out + i - 1]]
  <2>2. n \in 0..(BUF_LEN - 1) /\ rx_out + n <= BUF_LEN
    <3>1. rx_in \in Index /\ rx_out \in Index /\ rx_out \in Int /\ count \in Nat
      BY <1>0 DEF RxTypes, CallTypes, Index
    <3>2. Filled(rx_in, rx_out) \in 0..(BUF_LEN - 1) /\ rx_out + Filled(rx_in, rx_out) <= BUF_LEN
      BY <3>1, FilledFits
    <3> QED
      BY <3>1, <3>2 DEF Least
  <2> HIDE DEF n
  <2>3. RxTypes'
    <3>1. \A i \in 1..n : rx_out + i - 1 \in Index
      BY <1>0, <2>2 DEF RxTypes, Index
    <3>2. got \in [1..n -> Nat]
      BY <1>0, <3>1 DEF RxTypes
    <3>3. got \in Seq(Nat)
      BY <2>2, <3>2, SeqDef
    <3> HIDE DEF got
    <3>4. received' = received \o got /\ UNCHANGED <<rx_in, rx_out, rx_buf>>
      BY <1>18 DEF ReadCopy, n, got
    <3>5. received \o got \in Seq(Nat)
      BY <1>0, <3>3, ConcatProperties DEF RxTypes
    <3> QED
      BY <1>0, <3>4, <3>5 DEF RxTypes
  <2>4. CallTypes'
    <3>1. pc' \in Pcs
      BY <1>18 DEF ReadCopy, Pcs, ReadPcs
    <3>2. snap' \in Index /\ chunk' = n /\ UNCHANGED <<count, moved, nonblock>>
      BY <1>0, <1>18 DEF ReadCopy, n, RxTypes, Index
    <3> QED
      BY <1>0, <2>2, <3>1, <3>2 DEF CallTypes
  <2> QED
    BY <1>0, <2>1, <2>3, <2>4, IdleSame, IsrSame, HostSame, TxSame, FifoSame
<1>19. CASE ReadPublish
  <2>1. UNCHANGED <<timeout, host_inactive, ac, clock, isr, space, wi, avail, connected, offered, delivered, tx_in, tx_out, tx_buf, written, wfifo, rfifo, pause_irq, irq_enable>>
    BY <1>19 DEF ReadPublish, idleVars, txVars, rxVars, isrVars, callVars, hostVars
  <2>2. Advance(rx_out, chunk) \in Index /\ count - chunk \in Nat
    BY <1>0, <1>19, UsedLoses DEF ReadPublish, Running, JtagInv, CopyInv, CallTypes, RxTypes
  <2>3. RxTypes'
    BY <1>0, <1>19, <2>2 DEF ReadPublish, RxTypes
  <2>4. CallTypes'
    BY <1>0, <1>19, <2>2 DEF ReadPublish, CallTypes, Pcs, ReadPcs
  <2> QED
    BY <1>0, <2>1, <2>3, <2>4, IdleSame, IsrSame, HostSame, TxSame, FifoSame
<1>20. CASE ReadWait
  <2>1. UNCHANGED <<timeout, host_inactive, ac, clock, isr, space, wi, avail, connected, offered, delivered, tx_in, tx_out, tx_buf, written, rx_in, rx_out, rx_buf, received, wfifo, rfifo, pause_irq, irq_enable>>
    BY <1>20 DEF ReadWait, idleVars, txVars, rxVars, isrVars, callVars, hostVars
  <2>2. CallTypes'
    BY <1>0, <1>20 DEF ReadWait, Goto, Pcs, ReadPcs, CallTypes
  <2> QED
    BY <1>0, <2>1, <2>2, IdleSame, IsrSame, HostSame, TxSame, RxSame, FifoSame
<1>21. CASE ReadDone
  <2>1. UNCHANGED <<timeout, host_inactive, ac, clock, isr, space, wi, avail, connected, offered, delivered, tx_in, tx_out, tx_buf, written, rx_in, rx_out, rx_buf, received>>
    BY <1>21 DEF ReadDone, idleVars, txVars, rxVars, isrVars, callVars, hostVars
  <2>2. FifoTypes'
    BY <1>0, <1>21 DEF ReadDone, Reenable, Return, Pcs, Index, FifoTypes
  <2>3. nonblock' \in BOOLEAN
    BY <1>0, <1>21 DEF ReadDone, Return, CallTypes
  <2>4. CallTypes'
    BY <1>0, <1>21, <2>3 DEF ReadDone, Reenable, Return, Pcs, Index, CallTypes
  <2> QED
    BY <1>0, <2>1, <2>2, <2>4, IdleSame, IsrSame, HostSame, TxSame, RxSame
<1>22. CASE CloseWait
  <2>1. UNCHANGED <<timeout, host_inactive, ac, clock, isr, space, wi, avail, connected, offered, delivered, tx_in, tx_out, tx_buf, written, rx_in, rx_out, rx_buf, received, wfifo, rfifo, pause_irq, irq_enable>>
    BY <1>22 DEF CloseWait, idleVars, txVars, rxVars, isrVars, callVars, hostVars
  <2>2. nonblock' \in BOOLEAN
    BY <1>0, <1>22 DEF CloseWait, Return, Goto, CallTypes
  <2>3. CallTypes'
    BY <1>0, <1>22, <2>2 DEF CloseWait, Return, Pcs, Index, CallTypes
  <2> QED
    BY <1>0, <2>1, <2>3, IdleSame, IsrSame, HostSame, TxSame, RxSame, FifoSame
<1>23. CASE Close
  <2>1. UNCHANGED <<timeout, host_inactive, ac, clock, isr, space, wi, avail, connected, offered, delivered, tx_in, tx_out, tx_buf, written, rx_in, rx_out, rx_buf, received, wfifo, rfifo, pause_irq, irq_enable>>
    BY <1>23 DEF Close, Call, idleVars, txVars, rxVars, isrVars, callVars, hostVars
  <2>2. CallTypes'
    BY <1>0, <1>23 DEF Close, Call, Pcs, CallTypes
  <2> QED
    BY <1>0, <2>1, <2>2, IdleSame, IsrSame, HostSame, TxSame, RxSame, FifoSame
<1>24. CASE \E n \in Counts : Write(n) \/ Read(n)
  <2>1. UNCHANGED <<timeout, host_inactive, ac, clock, isr, space, wi, avail, connected, offered, delivered, tx_in, tx_out, tx_buf, written, rx_in, rx_out, rx_buf, received, wfifo, rfifo, pause_irq, irq_enable>>
    BY <1>24 DEF Write, Read, Call, idleVars, txVars, rxVars, isrVars, callVars, hostVars
  <2>2. CallTypes'
    BY <1>0, <1>24 DEF Write, Read, Call, Pcs, WritePcs, ReadPcs, CallTypes
  <2> QED
    BY <1>0, <2>1, <2>2, IdleSame, IsrSame, HostSame, TxSame, RxSame, FifoSame
<1>25. CASE \E t \in Timeouts : SetTimeout(t)
  <2>1. UNCHANGED <<isr, space, wi, avail, pc, count, moved, nonblock, snap, chunk, connected, offered, delivered, tx_in, tx_out, tx_buf, written, rx_in, rx_out, rx_buf, received, wfifo, rfifo, pause_irq, irq_enable>>
    BY <1>25 DEF SetTimeout, idleVars, txVars, rxVars, isrVars, callVars, hostVars
  <2>2. IdleTypes'
    BY <1>0, <1>25 DEF SetTimeout, IdleTypes
  <2> QED
    BY <1>0, <2>1, <2>2, IsrSame, CallSame, HostSame, TxSame, RxSame, FifoSame
<1>26. CASE UNCHANGED jtagVars
  BY <1>0, <1>26, IdleSame, IsrSame, CallSame, HostSame, TxSame, RxSame, FifoSame
     DEF jtagVars, idleVars, txVars, rxVars, isrVars, callVars, hostVars
<1> QED
  BY <1>1, <1>2, <1>3, <1>4, <1>5, <1>6, <1>7, <1>8, <1>9, <1>10, <1>11, <1>12, <1>13, <1>14, <1>15, <1>16, <1>17, <1>18, <1>19, <1>20, <1>21, <1>22, <1>23, <1>24, <1>25, <1>26
     DEF JtagNext, Isr, InCall, NewCall, Host
-----------------------------------------------------------------------------
(* The rest of the invariant.                                              *)

LEMMA CopyStep == JtagInv /\ [JtagNext]_jtagVars => CopyInv'
<1> SUFFICES ASSUME JtagInv, [JtagNext]_jtagVars PROVE CopyInv'
  OBVIOUS
<1> USE JtagAssumption
<1>0. TxTypes /\ RxTypes /\ CallTypes /\ CopyInv
  BY TypesByPart DEF JtagInv
<1>1. CASE WriteCopy
  <2> DEFINE n == Least(Free(tx_in, tx_out), count)
  <2>1. tx_in \in Index /\ tx_in \in Nat /\ tx_out \in Index /\ count \in Nat /\ written \in Nat
    BY <1>0 DEF TxTypes, CallTypes, Index
  <2>2. /\ n \in 0..count /\ n + Used(tx_in, tx_out) <= BUF_LEN - 1 /\ tx_in + n <= BUF_LEN
    <3>1. /\ Free(tx_in, tx_out) \in 0..(BUF_LEN - 1) /\ Used(tx_in, tx_out) \in Nat
          /\ Free(tx_in, tx_out) + Used(tx_in, tx_out) <= BUF_LEN - 1
          /\ tx_in + Free(tx_in, tx_out) <= BUF_LEN
      BY <2>1, FreeFits, UsedIs
    <3> QED
      BY <2>1, <3>1 DEF Least
  <2> HIDE DEF n
  <2>3. chunk' = n /\ UNCHANGED <<tx_in, tx_out, written, count, rx_in, rx_out>> /\ pc' # "read_publish"
    BY <1>1 DEF WriteCopy, n, rxVars
  <2>4. pc' = "write_publish" => n # 0
    BY <1>1 DEF WriteCopy, n
  <2>5. \A i \in 0..(n - 1) : tx_buf'[tx_in + i] = written + 1 + i
    <3>1. \A i \in Index : i \in tx_in..(tx_in + n - 1) => tx_buf'[i] = written + 1 + i - tx_in
      BY <1>1 DEF WriteCopy, n
    <3>2. ASSUME NEW i \in 0..(n - 1)
          PROVE  tx_in + i \in Index /\ tx_in + i \in tx_in..(tx_in + n - 1)
      BY <2>1, <2>2 DEF Index
    <3> QED
      BY <2>1, <2>2, <3>1, <3>2
  <2> QED
    BY <2>2, <2>3, <2>4, <2>5 DEF CopyInv
<1>2. CASE ReadCopy
  <2> DEFINE n == Least(Filled(rx_in, rx_out), count)
  <2>1. rx_in \in Index /\ rx_out \in Index /\ rx_out \in Nat /\ count \in Nat
    BY <1>0 DEF RxTypes, CallTypes, Index
  <2>2. n \in 0..count /\ n <= Used(rx_in, rx_out) /\ rx_out + n <= BUF_LEN
    <3>1. /\ Filled(rx_in, rx_out) \in 0..(BUF_LEN - 1)
          /\ Filled(rx_in, rx_out) <= Used(rx_in, rx_out) /\ Used(rx_in, rx_out) \in Nat
          /\ rx_out + Filled(rx_in, rx_out) <= BUF_LEN
      BY <2>1, FilledFits, UsedIs
    <3> QED
      BY <2>1, <3>1 DEF Least
  <2> HIDE DEF n
  <2>3. chunk' = n /\ UNCHANGED <<rx_in, rx_out, count>> /\ pc' # "write_publish"
    BY <1>2 DEF ReadCopy, n
  <2>4. pc' = "read_publish" => n > 0
    BY <1>2, <2>2 DEF ReadCopy, n
  <2> QED
    BY <2>2, <2>3, <2>4 DEF CopyInv
<1>3. CASE IsrTxByte
  <2>1. /\ tx_out' = Advance(tx_out, 1) /\ tx_out # tx_in
        /\ UNCHANGED <<pc, chunk, count, tx_in, tx_buf, written, rx_in, rx_out>>
    BY <1>3 DEF IsrTxByte, TxMore, callVars, txVars, rxVars
  <2>2. tx_in \in Index /\ tx_out \in Index /\ chunk \in Nat
    BY <1>0 DEF TxTypes, CallTypes
  <2>3. 1 <= Used(tx_in, tx_out)
    BY <2>1, <2>2 DEF Used, Index
  <2>4. Used(tx_in, tx_out') = Used(tx_in, tx_out) - 1 /\ Used(tx_in, tx_out) \in Nat
    BY <2>1, <2>2, <2>3, UsedLoses, UsedIs
  <2>5. \A k \in Nat : k + Used(tx_in, tx_out) <= BUF_LEN - 1 => k + Used(tx_in, tx_out') <= BUF_LEN - 1
    BY <2>4
  <2> QED
    BY <1>0, <2>1, <2>2, <2>5 DEF CopyInv
<1>4. CASE IsrRxByte
  <2>1. /\ rx_in' = Advance(rx_in, 1) /\ Advance(rx_in, 1) # rx_out
        /\ UNCHANGED <<pc, chunk, count, rx_out, tx_in, tx_out, tx_buf, written>>
    BY <1>4 DEF IsrRxByte, RxFull, callVars, txVars, rxVars
  <2>2. rx_in \in Index /\ rx_out \in Index /\ chunk \in Nat
    BY <1>0 DEF RxTypes, CallTypes
  <2>3. Used(rx_in, rx_out) + 1 <= BUF_LEN - 1 /\ Used(rx_in, rx_out) \in Nat
    BY <2>1, <2>2, NotFull DEF Used, Index
  <2>4. Used(rx_in', rx_out) = Used(rx_in, rx_out) + 1
    BY <2>1, <2>2, <2>3, UsedGains
  <2>5. \A k \in Nat : k <= Used(rx_in, rx_out) => k <= Used(rx_in', rx_out)
    BY <2>3, <2>4
  <2> QED
    BY <1>0, <2>1, <2>2, <2>5 DEF CopyInv
<1>5. CASE WritePublish \/ ReadPublish \/ WriteKick \/ WriteWait \/ WriteCheck \/ ReadWait
             \/ ReadDone \/ CloseWait \/ NewCall
  <2>1. pc' # "write_publish" /\ pc' # "read_publish"
    BY <1>5 DEF WritePublish, ReadPublish, WriteKick, WriteWait, WriteCheck, ReadWait, ReadDone,
       CloseWait, NewCall, Write, Read, Call, Close, Goto, Return, Running, SetTimeout, callVars
  <2> QED
    BY <2>1 DEF CopyInv
<1>6. CASE HostTake \/ HostSend \/ HostPause \/ HostPlug \/ IsrEnter \/ IsrControl \/ IsrRxEmpty
             \/ IsrRxFull \/ IsrTxDone \/ Timeout \/ UNCHANGED jtagVars
  <2>1. UNCHANGED <<pc, chunk, count, tx_in, tx_out, tx_buf, written, rx_in, rx_out>>
    BY <1>6 DEF HostTake, HostSend, HostPause, HostPlug, IsrEnter, IsrControl, IsrRxEmpty,
       IsrRxFull, IsrTxDone, Timeout, jtagVars, callVars, txVars, rxVars
  <2> QED
    BY <1>0, <2>1 DEF CopyInv
<1> QED
  BY <1>1, <1>2, <1>3, <1>4, <1>5, <1>6 DEF JtagNext, Isr, InCall, Host

LEMMA SpaceStep == JtagInv /\ [JtagNext]_jtagVars => SpaceInv'
<1> SUFFICES ASSUME JtagInv, [JtagNext]_jtagVars PROVE SpaceInv'
  OBVIOUS
<1> USE JtagAssumption
<1>0. SpaceInv /\ space \in Nat /\ wfifo \in Seq(Nat) /\ Len(wfifo) \in Nat /\ Len(wfifo) <= FIFO_DEPTH
  BY DEF JtagInv, JtagTypeOK
<1>1. CASE HostTake
  <2>1. Len(wfifo') = Len(wfifo) - 1 /\ space' = space
    BY <1>0, <1>1 DEF HostTake, isrVars
  <2> QED
    BY <1>0, <2>1 DEF SpaceInv
<1>2. CASE IsrControl
  <2>1. wfifo' = wfifo /\ (space' = 0 \/ space' = FIFO_DEPTH - Len(wfifo))
    BY <1>2 DEF IsrControl
  <2> QED
    BY <1>0, <2>1 DEF SpaceInv
<1>3. CASE IsrTxByte
  <2>1. wfifo' = Append(wfifo, tx_buf[tx_out]) /\ space' = space - 1
    BY <1>0, <1>3 DEF IsrTxByte, TxMore, PutByte, SpaceInv
  <2>2. Len(wfifo') = Len(wfifo) + 1
    BY <1>0, <2>1, AppendProperties
  <2> QED
    BY <1>0, <2>1, <2>2 DEF SpaceInv
<1>4. CASE IsrTxDone
  BY <1>0, <1>4 DEF IsrTxDone, SpaceInv
<1>5. CASE HostSend \/ HostPause \/ HostPlug \/ IsrEnter \/ IsrRxByte \/ IsrRxEmpty \/ IsrRxFull
             \/ Timeout \/ InCall \/ NewCall \/ UNCHANGED jtagVars
  <2>1. UNCHANGED <<space, wfifo>>
    BY <1>5 DEF HostSend, HostPause, HostPlug, IsrEnter, IsrRxByte, IsrRxEmpty, IsrRxFull, Timeout,
       jtagVars, isrVars, InCall, WriteCopy, WritePublish, WriteKick, WriteWait, WriteCheck,
       ReadCopy, ReadPublish, ReadWait, ReadDone, CloseWait, NewCall, Write, Read, Close, SetTimeout
  <2> QED
    BY <1>0, <2>1 DEF SpaceInv
<1> QED
  BY <1>1, <1>2, <1>3, <1>4, <1>5 DEF JtagNext, Isr, Host

LEMMA ClockStep == JtagInv /\ [JtagNext]_jtagVars => ClockInv'
<1> SUFFICES ASSUME JtagInv, [JtagNext]_jtagVars, ~clock' PROVE ClockInv'
  BY DEF ClockInv
<1> USE JtagAssumption
<1>1. clock' = clock
  BY DEF JtagNext, Isr, InCall, NewCall, Host, HostTake, HostSend, HostPause, HostPlug, IsrEnter,
     IsrControl, IsrRxByte, IsrRxEmpty, IsrRxFull, IsrTxByte, IsrTxDone, Timeout, WriteCopy,
     WritePublish, WriteKick, WriteWait, WriteCheck, ReadCopy, ReadPublish, ReadWait, ReadDone,
     CloseWait, Write, Read, Close, SetTimeout, jtagVars, idleVars
<1>2. /\ host_inactive = 0 /\ timeout = INT_MAX /\ ~HostGone
      /\ pc = "read_done" /\ ~nonblock => moved > 0 \/ count = 0
  BY <1>1 DEF JtagInv, ClockInv, HostGone
<1>3. moved \in Nat /\ count \in Nat
  BY DEF JtagInv, JtagTypeOK
<1>4. host_inactive' = 0 /\ timeout' = INT_MAX
  BY <1>1, <1>2
     DEF JtagNext, Isr, InCall, NewCall, Host, HostTake, HostSend, HostPause, HostPlug, IsrEnter,
     IsrControl, IsrRxByte, IsrRxEmpty, IsrRxFull, IsrTxByte, IsrTxDone, Timeout, WriteCopy,
     WritePublish, WriteKick, WriteWait, WriteCheck, ReadCopy, ReadPublish, ReadWait, ReadDone,
     CloseWait, Write, Read, Close, SetTimeout, jtagVars, idleVars
<1>5. pc' = "read_done" /\ ~nonblock' => moved' > 0 \/ count' = 0
  <2>1. CASE ReadCopy
    <3> DEFINE n == Least(Filled(rx_in, rx_out), count)
    <3>1. pc' = "read_done" => ~(n > 0) /\ ~(n = 0 /\ count > 0 /\ moved = 0 /\ ~nonblock)
      BY <2>1 DEF ReadCopy
    <3>2. UNCHANGED <<moved, count, nonblock>>
      BY <2>1 DEF ReadCopy
    <3>3. n \in Nat
      BY <1>3, FilledFits DEF Least, JtagInv, JtagTypeOK
    <3> HIDE DEF n
    <3> QED
      BY <1>3, <3>1, <3>2, <3>3
  <2>2. CASE ReadWait
    BY <1>2, <2>2 DEF ReadWait, Goto
  <2>3. CASE pc' = pc /\ UNCHANGED <<moved, count, nonblock>>
    BY <1>2, <2>3
  <2>4. CASE WriteCopy \/ WritePublish \/ WriteKick \/ WriteWait \/ WriteCheck \/ ReadPublish
               \/ ReadDone \/ CloseWait \/ NewCall
    BY <1>2, <2>4 DEF WriteCopy, WritePublish, WriteKick, WriteWait, WriteCheck, ReadPublish,
       ReadDone, CloseWait, NewCall, Write, Read, Call, Close, Goto, Return, Running, SetTimeout,
       callVars
  <2>5. CASE Isr \/ Timeout \/ Host \/ UNCHANGED jtagVars
    <3>1. UNCHANGED callVars
      BY <2>5 DEF Isr, Host, HostTake, HostSend, HostPause, HostPlug, IsrEnter, IsrControl,
         IsrRxByte, IsrRxEmpty, IsrRxFull, IsrTxByte, IsrTxDone, Timeout, jtagVars
    <3> QED
      BY <2>3, <3>1 DEF callVars
  <2> QED
    BY <2>1, <2>2, <2>4, <2>5 DEF JtagNext, InCall
<1> QED
  BY <1>4, <1>5 DEF ClockInv

\* The transmit interrupt goes off only when the routine saw the ring empty.
LEMMA TransmitStep == JtagInv /\ [JtagNext]_jtagVars => TransmitInterruptOn'
<1> SUFFICES ASSUME JtagInv, [JtagNext]_jtagVars PROVE TransmitInterruptOn'
  OBVIOUS
<1>0. TransmitInterruptOn
  BY DEF JtagInv
<1>1. CASE IsrTxDone
  <2>1. UNCHANGED <<tx_in, tx_out, pc>>
    BY <1>1 DEF IsrTxDone, txVars, callVars
  <2>2. irq_enable' = irq_enable \/ tx_out = tx_in
    BY <1>1 DEF IsrTxDone, TxDone, TxMore
  <2> QED
    BY <1>0, <2>1, <2>2 DEF TransmitInterruptOn
<1>2. CASE IsrTxByte
  <2>1. UNCHANGED <<tx_in, pc, irq_enable>> /\ tx_out # tx_in
    BY <1>2 DEF IsrTxByte, TxMore, txVars, callVars
  <2> QED
    BY <1>0, <2>1 DEF TransmitInterruptOn
<1>3. CASE IsrRxFull
  BY <1>0, <1>3 DEF IsrRxFull, TransmitInterruptOn, txVars, callVars
<1>4. CASE WriteCopy \/ WritePublish \/ WriteCheck \/ WriteKick
  BY <1>0, <1>4 DEF WriteCopy, WritePublish, WriteCheck, WriteKick, Kick, Running, Goto, Return,
     TransmitInterruptOn, txVars
<1>5. CASE WriteWait \/ ReadCopy \/ ReadPublish \/ ReadWait \/ ReadDone \/ CloseWait \/ NewCall
  <2>1. UNCHANGED <<tx_in, tx_out>> /\ irq_enable \subseteq irq_enable'
    BY <1>5 DEF WriteWait, ReadCopy, ReadPublish, ReadWait, ReadDone, Reenable, CloseWait, NewCall,
       Write, Read, Close, SetTimeout, txVars
  <2>2. pc \in {"write_copy", "write_publish", "write_kick"} => pc' = pc
    BY <1>5 DEF WriteWait, ReadCopy, ReadPublish, ReadWait, ReadDone, CloseWait, NewCall,
       Write, Read, Call, Close, Running, SetTimeout, callVars
  <2> QED
    BY <1>0, <2>1, <2>2 DEF TransmitInterruptOn
<1>6. CASE HostTake \/ HostSend \/ HostPause \/ HostPlug \/ IsrEnter \/ IsrControl \/ IsrRxByte
             \/ IsrRxEmpty \/ Timeout \/ UNCHANGED jtagVars
  <2>1. UNCHANGED <<tx_in, tx_out, pc, irq_enable>>
    BY <1>6 DEF HostTake, HostSend, HostPause, HostPlug, IsrEnter, IsrControl, IsrRxByte,
       IsrRxEmpty, Timeout, jtagVars, txVars, callVars
  <2> QED
    BY <1>0, <2>1 DEF TransmitInterruptOn
<1> QED
  BY <1>1, <1>2, <1>3, <1>4, <1>5, <1>6 DEF JtagNext, Isr, InCall, Host

\* The receive interrupt goes off only with a full ring, and a read that took
\* bytes out of it turns it on before it returns.
LEMMA ReceiveStep == JtagInv /\ [JtagNext]_jtagVars => ReceiveInterruptOn'
<1> SUFFICES ASSUME JtagInv, [JtagNext]_jtagVars PROVE ReceiveInterruptOn'
  OBVIOUS
<1>0. /\ ReceiveInterruptOn /\ rx_in \in Index /\ rx_out \in Index /\ moved \in Nat /\ chunk \in Nat
      /\ count \in Nat
  BY DEF JtagInv, JtagTypeOK
<1>1. CASE IsrRxFull
  <2>1. UNCHANGED <<rx_in, rx_out>> /\ rx_in # rx_out
    BY <1>0, <1>1, NotFull DEF IsrRxFull, RxFull, rxVars
  <2> QED
    BY <2>1 DEF ReceiveInterruptOn
<1>2. CASE IsrRxByte
  <2>1. rx_in' # rx_out'
    BY <1>2 DEF IsrRxByte, RxFull, rxVars
  <2> QED
    BY <2>1 DEF ReceiveInterruptOn
<1>3. CASE ReadPublish
  <2>1. pc' = "read_copy" /\ moved' = moved + chunk /\ chunk > 0
    BY <1>0, <1>3 DEF ReadPublish, Running, JtagInv, CopyInv
  <2> QED
    BY <1>0, <2>1 DEF ReceiveInterruptOn
<1>4. CASE ReadCopy
  <2>1. UNCHANGED <<rx_in, rx_out, moved, irq_enable>> /\ pc = "read_copy"
    BY <1>4 DEF ReadCopy, Running
  <2>2. pc' = "read_done" \/ moved = 0 \/ Least(Filled(rx_in, rx_out), count) > 0
    BY <1>4 DEF ReadCopy
  <2>3. Least(Filled(rx_in, rx_out), count) > 0 => rx_in # rx_out
    <3>1. rx_in = rx_out => Filled(rx_in, rx_out) = 0
      BY <1>0, JtagAssumption DEF Filled, Index
    <3> QED
      BY <1>0, <3>1 DEF Least
  <2> QED
    BY <1>0, <2>1, <2>2, <2>3 DEF ReceiveInterruptOn
<1>5. CASE ReadDone
  <2>1. UNCHANGED <<rx_in, rx_out>> /\ irq_enable' = Reenable(moved)
    BY <1>5 DEF ReadDone, rxVars
  <2> QED
    BY <1>0, <2>1 DEF Reenable, ReceiveInterruptOn
<1>6. CASE WriteCopy \/ WritePublish \/ WriteKick \/ WriteWait \/ WriteCheck \/ ReadWait
             \/ CloseWait \/ NewCall
  <2>1. UNCHANGED <<rx_in, rx_out>> /\ irq_enable \subseteq irq_enable'
    BY <1>6 DEF WriteCopy, WritePublish, WriteKick, Kick, WriteWait, WriteCheck, ReadWait,
       CloseWait, NewCall, Write, Read, Close, SetTimeout, rxVars
  <2>2. pc \in {"read_copy", "read_done"} => UNCHANGED <<pc, moved>>
    BY <1>6 DEF WriteCopy, WritePublish, WriteKick, WriteWait, WriteCheck, ReadWait, CloseWait,
       NewCall, Write, Read, Call, Close, Running, SetTimeout, callVars
  <2> QED
    BY <1>0, <2>1, <2>2 DEF ReceiveInterruptOn
<1>7. CASE HostTake \/ HostSend \/ HostPause \/ HostPlug \/ IsrEnter \/ IsrControl \/ IsrRxEmpty
             \/ IsrTxByte \/ IsrTxDone \/ Timeout \/ UNCHANGED jtagVars
  <2>1. UNCHANGED <<rx_in, rx_out, pc, moved>> /\ ("RE" \in irq_enable => "RE" \in irq_enable')
    BY <1>7 DEF HostTake, HostSend, HostPause, HostPlug, IsrEnter, IsrControl, IsrRxEmpty,
       IsrTxByte, IsrTxDone, TxDone, Timeout, jtagVars, rxVars, callVars
  <2> QED
    BY <1>0, <2>1 DEF ReceiveInterruptOn
<1> QED
  BY <1>1, <1>2, <1>3, <1>4, <1>5, <1>6, <1>7 DEF JtagNext, Isr, InCall, Host
-----------------------------------------------------------------------------
(* What holds of every run.                                                *)

THEOREM JtagInvariant == JtagSafe => []JtagInv
<1>1. JtagInv /\ [JtagNext]_jtagVars => JtagInv'
  BY TypeStep, CopyStep, SpaceStep, ClockStep, TransmitStep, ReceiveStep DEF JtagInv
<1> QED
  BY <1>1, JtagInitInv, PTL DEF JtagSafe

\* Pointers stay in their rings, and no FIFO takes more than it holds.
THEOREM JtagTypeCorrect == JtagSafe => []JtagTypeOK
<1>1. JtagInv => JtagTypeOK
  BY DEF JtagInv
<1> QED
  BY <1>1, JtagInvariant, PTL

\* No byte accepted by write is left without an interrupt to send it, and no
\* reader waits with the receive interrupt off.
THEOREM InterruptsStayOn == JtagSafe => []InterruptsOn
<1>1. JtagInv => InterruptsOn
  BY DEF JtagInv, InterruptsOn
<1> QED
  BY <1>1, JtagInvariant, PTL

\* Without a clock no call that may block gives up before it is done.
THEOREM PresentWithoutClockAlways == JtagSafe => PresentWithoutClock
<1> DEFINE P == ~clock /\ ~nonblock /\ pc # "run" /\ pc' = "run" =>
       CASE pc \in WritePcs -> count = 0
         [] pc = "close" -> tx_in = tx_out
         [] OTHER -> moved > 0 \/ count = 0
<1>1. JtagInv /\ [JtagNext]_jtagVars => [P]_jtagVars
  <2> SUFFICES ASSUME JtagInv, [JtagNext]_jtagVars, ~clock, ~nonblock, pc # "run", pc' = "run"
               PROVE  CASE pc \in WritePcs -> count = 0
                        [] pc = "close" -> tx_in = tx_out
                        [] OTHER -> moved > 0 \/ count = 0
    OBVIOUS
  <2>0. /\ ~HostGone /\ ~SilentHost
        /\ pc = "read_done" => moved > 0 \/ count = 0
    BY JtagAssumption DEF JtagInv, JtagTypeOK, ClockInv, HostGone, SilentHost
  <2>1. CASE WriteKick
    BY <2>1 DEF WriteKick, Running, Goto, WritePcs
  <2>2. CASE CloseWait
    BY <2>0, <2>2 DEF CloseWait, Running, WritePcs
  <2>3. CASE ReadDone
    BY <2>0, <2>3 DEF ReadDone, Running, WritePcs
  <2>4. CASE WriteCheck
    BY <2>0, <2>4 DEF WriteCheck, Goto
  <2>5. CASE WriteCopy \/ WritePublish \/ WriteWait \/ ReadCopy \/ ReadPublish \/ ReadWait
    BY <2>5 DEF WriteCopy, WritePublish, WriteWait, ReadCopy, ReadPublish, ReadWait, Goto
  <2>6. CASE NewCall
    BY <2>6 DEF NewCall, Write, Read, Close, Call, SetTimeout, Running
  <2>7. CASE Isr \/ Timeout \/ Host \/ UNCHANGED jtagVars
    BY <2>7 DEF Isr, Host, HostTake, HostSend, HostPause, HostPlug, IsrEnter, IsrControl,
       IsrRxByte, IsrRxEmpty, IsrRxFull, IsrTxByte, IsrTxDone, Timeout, jtagVars, callVars
  <2> QED
    BY <2>1, <2>2, <2>3, <2>4, <2>5, <2>6, <2>7 DEF JtagNext, InCall
<1>2. JtagSafe => []JtagInv
  BY JtagInvariant
<1> QED
  BY <1>1, <1>2, PTL DEF JtagSafe, PresentWithoutClock
-----------------------------------------------------------------------------
(* The byte channels.                                                      *)

\* The n slots of a ring from first on.
Ring(buf, first, n) == [i \in 1..n |-> buf[Advance(first, i - 1)]]

LEMMA AdvanceNot == ASSUME NEW i \in Index PROVE Advance(i, 0) = i
<1>1. 0 \in 0..BUF_LEN /\ i + 0 < BUF_LEN
  BY JtagAssumption DEF Index
<1> QED
  BY <1>1, AdvanceIs DEF Index

LEMMA AdvanceIn ==
  ASSUME NEW i \in Index, NEW n \in 0..BUF_LEN
  PROVE  Advance(i, n) \in Index
BY AdvanceIs, JtagAssumption DEF Index

LEMMA AdvanceTwice ==
  ASSUME NEW i \in Index, NEW m \in Nat, NEW n \in Nat, m + n <= BUF_LEN
  PROVE  Advance(Advance(i, m), n) = Advance(i, m + n)
<1>1. m \in 0..BUF_LEN /\ n \in 0..BUF_LEN /\ m + n \in 0..BUF_LEN
  BY JtagAssumption
<1>2. Advance(i, m) = IF i + m < BUF_LEN THEN i + m ELSE i + m - BUF_LEN
  BY <1>1, AdvanceIs
<1>3. Advance(i, m + n) = IF i + (m + n) < BUF_LEN THEN i + (m + n) ELSE i + (m + n) - BUF_LEN
  BY <1>1, AdvanceIs
<1>4. Advance(i, m) \in Index
  BY <1>1, AdvanceIn
<1>5. Advance(Advance(i, m), n) =
        IF Advance(i, m) + n < BUF_LEN THEN Advance(i, m) + n ELSE Advance(i, m) + n - BUF_LEN
  BY <1>1, <1>4, AdvanceIs
<1> QED
  BY <1>1, <1>2, <1>3, <1>5, JtagAssumption DEF Index

\* The bytes used end where the other pointer is.
LEMMA UsedReaches ==
  ASSUME NEW in \in Index, NEW out \in Index
  PROVE  Advance(out, Used(in, out)) = in
<1>1. Used(in, out) \in 0..BUF_LEN
  BY UsedIs, JtagAssumption
<1>2. Advance(out, Used(in, out)) =
        IF out + Used(in, out) < BUF_LEN THEN out + Used(in, out) ELSE out + Used(in, out) - BUF_LEN
  BY <1>1, AdvanceIs
<1> QED
  BY <1>2, JtagAssumption DEF Used, Index

LEMMA RingSeq ==
  ASSUME NEW first \in Index, NEW n \in 0..BUF_LEN, NEW buf \in [Index -> Nat]
  PROVE  /\ Ring(buf, first, n) \in Seq(Nat) /\ Len(Ring(buf, first, n)) = n
         /\ \A i \in 1..n : Ring(buf, first, n)[i] = buf[Advance(first, i - 1)]
<1>1. n \in Nat
  BY JtagAssumption
<1>2. ASSUME NEW i \in 1..n PROVE buf[Advance(first, i - 1)] \in Nat
  <2>1. i - 1 \in 0..BUF_LEN
    BY <1>1, JtagAssumption
  <2> QED
    BY <2>1, AdvanceIn
<1>3. Ring(buf, first, n) \in [1..n -> Nat]
  BY <1>2 DEF Ring
<1> QED
  BY <1>1, <1>3 DEF Ring

LEMMA RingSplit ==
  ASSUME NEW first \in Index, NEW m \in Nat, NEW n \in Nat, m + n <= BUF_LEN,
         NEW buf \in [Index -> Nat]
  PROVE  Ring(buf, first, m + n) = Ring(buf, first, m) \o Ring(buf, Advance(first, m), n)
<1> DEFINE a == Ring(buf, first, m)
           b == Ring(buf, Advance(first, m), n)
           c == Ring(buf, first, m + n)
<1>1. m \in 0..BUF_LEN /\ n \in 0..BUF_LEN /\ m + n \in 0..BUF_LEN
  BY JtagAssumption
<1>2. Advance(first, m) \in Index
  BY <1>1, AdvanceIn
<1>3. a \in Seq(Nat) /\ Len(a) = m /\ \A i \in 1..m : a[i] = buf[Advance(first, i - 1)]
  BY <1>1, RingSeq
<1>4. b \in Seq(Nat) /\ Len(b) = n /\ \A i \in 1..n : b[i] = buf[Advance(Advance(first, m), i - 1)]
  BY <1>1, <1>2, RingSeq
<1>5. c \in Seq(Nat) /\ Len(c) = m + n /\ \A i \in 1..(m + n) : c[i] = buf[Advance(first, i - 1)]
  BY <1>1, RingSeq
<1> HIDE DEF a, b, c
<1>6. /\ a \o b \in Seq(Nat) /\ Len(a \o b) = m + n
      /\ \A i \in 1..(m + n) : (a \o b)[i] = IF i <= m THEN a[i] ELSE b[i - m]
  BY <1>3, <1>4, ConcatProperties, ZenonT(60)
<1>7. ASSUME NEW i \in 1..(m + n) PROVE c[i] = (a \o b)[i]
  <2>0. i \in Int /\ i <= m + n /\ c[i] = buf[Advance(first, i - 1)]
    BY <1>5
  <2>1. CASE i <= m
    <3>1. i \in 1..m
      BY <2>1
    <3>2. (a \o b)[i] = a[i]
      BY <1>6, <2>1
    <3> QED
      BY <1>3, <2>0, <3>1, <3>2
  <2>2. CASE ~(i <= m)
    <3>1. i - m \in 1..n /\ (i - m) - 1 \in Nat /\ m + ((i - m) - 1) = i - 1 /\ m + ((i - m) - 1) <= BUF_LEN
      BY <2>0, <2>2, JtagAssumption
    <3>2. Advance(Advance(first, m), (i - m) - 1) = Advance(first, i - 1)
      BY <3>1, AdvanceTwice
    <3>3. (a \o b)[i] = b[i - m]
      BY <1>6, <2>2
    <3>4. b[i - m] = buf[Advance(Advance(first, m), (i - m) - 1)]
      BY <1>4, <3>1
    <3> QED
      BY <2>0, <3>2, <3>3, <3>4
  <2> QED
    BY <2>1, <2>2
<1>8. c = a \o b
  BY <1>5, <1>6, <1>7, SeqEqual
<1> QED
  BY <1>8 DEF a, b, c

LEMMA RingCut ==
  ASSUME NEW first \in Index, NEW u \in 0..BUF_LEN, NEW n \in 0..u, NEW buf \in [Index -> Nat]
  PROVE  Ring(buf, first, u) = Ring(buf, first, n) \o Ring(buf, Advance(first, n), u - n)
<1> DEFINE m == u - n
<1>1. n \in Nat /\ m \in Nat /\ n + m = u /\ n + m <= BUF_LEN
  BY JtagAssumption
<1> HIDE DEF m
<1>2. Ring(buf, first, n + m) = Ring(buf, first, n) \o Ring(buf, Advance(first, n), m)
  BY <1>1, RingSplit
<1> QED
  BY <1>1, <1>2 DEF m

LEMMA RingOne ==
  ASSUME NEW first \in Index, NEW buf \in [Index -> Nat]
  PROVE  Ring(buf, first, 1) = <<buf[first]>>
<1>0. 1 \in 0..BUF_LEN /\ 1 \in 1..1 /\ 1 - 1 = 0
  BY JtagAssumption
<1>1. Ring(buf, first, 1) \in Seq(Nat) /\ Len(Ring(buf, first, 1)) = 1
      /\ Ring(buf, first, 1)[1] = buf[Advance(first, 1 - 1)]
  BY <1>0, RingSeq
<1>2. buf[first] \in Nat
  OBVIOUS
<1> QED
  BY <1>0, <1>1, <1>2, AdvanceNot

\* The refinement mapping's part that is a ring.
LEMMA HeldIs ==
  ASSUME NEW in \in Index, NEW out \in Index, NEW buf, NEW n \in Nat, n <= Used(in, out)
  PROVE  Held(buf, in, out, n) = Ring(buf, Advance(out, n), Used(in, out) - n)
<1>1. Advance(out, n) \in Index /\ Used(in, Advance(out, n)) = Used(in, out) - n
  BY UsedLoses
<1> QED
  BY <1>1 DEF Held, Ring, Used

\* A sequence cut where it was put together.
LEMMA Cut ==
  ASSUME NEW s \in Seq(Nat), NEW t \in Seq(Nat)
  PROVE  SubSeq(s \o t, 1, Len(s)) = s /\ SubSeq(s \o t, Len(s) + 1, Len(s \o t)) = t
<1>1. /\ s \o t \in Seq(Nat) /\ Len(s \o t) = Len(s) + Len(t)
      /\ \A i \in 1..(Len(s) + Len(t)) : (s \o t)[i] = IF i <= Len(s) THEN s[i] ELSE t[i - Len(s)]
      /\ Len(s) \in Nat /\ Len(t) \in Nat
  BY ConcatProperties, LenProperties
<1>2. SubSeq(s \o t, 1, Len(s)) = s
  <2>1. CASE Len(s) = 0
    <3>1. s = <<>>
      BY <2>1, EmptySeq
    <3> QED
      BY <2>1, <3>1, SubSeqEmpty
  <2>2. CASE Len(s) # 0
    <3>1. SubSeq(s \o t, 1, Len(s)) = SubSeq(s, 1, Len(s))
      BY <1>1, <2>2, SubSeqOfConcat1
    <3> QED
      BY <3>1, SubSeqFull
  <2> QED
    BY <2>1, <2>2
<1>3. SubSeq(s \o t, Len(s) + 1, Len(s \o t)) = t
  <2>1. CASE Len(t) = 0
    <3>1. t = <<>>
      BY <2>1, EmptySeq
    <3>2. Len(s \o t) < Len(s) + 1 /\ Len(s \o t) \in Int /\ Len(s) + 1 \in Int
      BY <1>1, <2>1
    <3> QED
      BY <3>1, <3>2, SubSeqEmpty
  <2>2. CASE Len(t) # 0
    <3>1. /\ Len(s) + 1 \in (Len(s) + 1)..(Len(s) + Len(t))
          /\ Len(s) + Len(t) \in (Len(s) + 1)..(Len(s) + Len(t))
          /\ (Len(s) + 1) - Len(s) = 1 /\ (Len(s) + Len(t)) - Len(s) = Len(t)
      BY <1>1, <2>2
    <3>2. SubSeq(s \o t, Len(s) + 1, Len(s) + Len(t)) = SubSeq(t, 1, Len(t))
      BY <3>1, SubSeqOfConcat2
    <3> QED
      BY <1>1, <3>2, SubSeqFull
  <2> QED
    BY <2>1, <2>2
<1> QED
  BY <1>2, <1>3
-----------------------------------------------------------------------------
(* The transmit direction.                                                 *)

LEMMA RingHeld ==
  ASSUME NEW in \in Index, NEW out \in Index, NEW buf \in [Index -> Nat],
         NEW n \in Nat, n <= Used(in, out)
  PROVE  LET r == Ring(buf, Advance(out, n), Used(in, out) - n)
         IN  /\ Held(buf, in, out, n) = r
             /\ r \in Seq(Nat) /\ Len(r) = Used(in, out) - n
<1>1. Advance(out, n) \in Index /\ Used(in, out) - n \in 0..BUF_LEN
  BY UsedIs, UsedLoses, JtagAssumption
<1> QED
  BY <1>1, HeldIs, RingSeq

LEMMA RingWhole ==
  ASSUME NEW in \in Index, NEW out \in Index, NEW buf \in [Index -> Nat]
  PROVE  LET r == Ring(buf, out, Used(in, out))
         IN  /\ Held(buf, in, out, 0) = r
             /\ r \in Seq(Nat) /\ Len(r) = Used(in, out)
<1>1. 0 <= Used(in, out) /\ Used(in, out) - 0 = Used(in, out)
  BY UsedIs, JtagAssumption
<1> QED
  BY <1>1, RingHeld, AdvanceNot

\* The oldest byte of a ring moves on to the end of w.
LEMMA OldestMoves ==
  ASSUME NEW in \in Index, NEW out \in Index, NEW buf \in [Index -> Nat], in # out,
         NEW w \in Seq(Nat)
  PROVE  w \o Ring(buf, out, Used(in, out)) =
           Append(w, buf[out]) \o Ring(buf, Advance(out, 1), Used(in, Advance(out, 1)))
<1> DEFINE u == Used(in, out)
<1>1. u \in Nat /\ u >= 1 /\ u <= BUF_LEN - 1
  BY JtagAssumption DEF Used, Index
<1>2. Used(in, Advance(out, 1)) = u - 1 /\ Advance(out, 1) \in Index
  BY <1>1, UsedLoses
<1> HIDE DEF u
<1>3. u - 1 \in Nat /\ 1 + (u - 1) = u /\ 1 + (u - 1) <= BUF_LEN /\ u - 1 \in 0..BUF_LEN
  BY <1>1, JtagAssumption
<1>4. Ring(buf, out, u) = Ring(buf, out, 1) \o Ring(buf, Advance(out, 1), u - 1)
  <2>1. Ring(buf, out, 1 + (u - 1)) = Ring(buf, out, 1) \o Ring(buf, Advance(out, 1), u - 1)
    BY <1>3, RingSplit
  <2> QED
    BY <1>3, <2>1
<1>5. Ring(buf, out, 1) = <<buf[out]>> /\ buf[out] \in Nat /\ <<buf[out]>> \in Seq(Nat)
  BY RingOne
<1>6. Ring(buf, Advance(out, 1), u - 1) \in Seq(Nat)
  BY <1>2, <1>3, RingSeq
<1>7. Append(w, buf[out]) = w \o <<buf[out]>>
  BY <1>5, AppendIsConcat
<1>8. (w \o <<buf[out]>>) \o Ring(buf, Advance(out, 1), u - 1)
        = w \o (<<buf[out]>> \o Ring(buf, Advance(out, 1), u - 1))
  BY <1>5, <1>6, ConcatAssociative
<1> QED
  BY <1>2, <1>4, <1>5, <1>7, <1>8 DEF u

\* n bytes written behind a ring join its end.
LEMMA NewestJoin ==
  ASSUME NEW in \in Index, NEW out \in Index, NEW buf \in [Index -> Nat],
         NEW n \in Nat, n + Used(in, out) <= BUF_LEN - 1
  PROVE  Ring(buf, out, Used(Advance(in, n), out)) =
           Ring(buf, out, Used(in, out)) \o Ring(buf, in, n)
<1>1. Used(Advance(in, n), out) = Used(in, out) + n
  BY UsedGains
<1>2. Used(in, out) \in Nat /\ Used(in, out) + n <= BUF_LEN
  BY UsedIs, JtagAssumption
<1>3. Ring(buf, out, Used(in, out) + n) =
        Ring(buf, out, Used(in, out)) \o Ring(buf, Advance(out, Used(in, out)), n)
  BY <1>2, RingSplit
<1> QED
  BY <1>1, <1>3, UsedReaches

\* A ring does not see what is written to its free part.
LEMMA RingBlind ==
  ASSUME NEW in \in Index, NEW out \in Index, NEW buf \in [Index -> Nat], NEW new \in [Index -> Nat],
         NEW n \in Nat, n + Used(in, out) <= BUF_LEN - 1,
         \A i \in Index : i \notin in..(in + n - 1) => new[i] = buf[i],
         in + n <= BUF_LEN
  PROVE  Ring(new, out, Used(in, out)) = Ring(buf, out, Used(in, out))
<1> DEFINE u == Used(in, out)
<1>1. u \in Nat /\ u \in 0..BUF_LEN
  BY UsedIs, JtagAssumption
<1>2. ASSUME NEW i \in 1..u
      PROVE  new[Advance(out, i - 1)] = buf[Advance(out, i - 1)]
  <2>1. i - 1 \in 0..BUF_LEN /\ i - 1 < u
    BY <1>1, JtagAssumption
  <2>2. Advance(out, i - 1) = IF out + (i - 1) < BUF_LEN THEN out + (i - 1) ELSE out + (i - 1) - BUF_LEN
    BY <2>1, AdvanceIs
  <2>3. Advance(out, i - 1) \notin in..(in + n - 1)
    BY <2>1, <2>2, JtagAssumption, SMTT(30) DEF Used, Index
  <2> QED
    BY <2>1, <2>3, AdvanceIn
<1>3. Ring(new, out, u) = Ring(buf, out, u)
  BY <1>2 DEF Ring
<1> QED
  BY <1>3

LEMMA JoinSeq ==
  ASSUME NEW a \in Seq(Nat), NEW b \in Seq(Nat)
  PROVE  a \o b \in Seq(Nat) /\ Len(a \o b) = Len(a) + Len(b)
BY ConcatProperties

LEMMA JoinThree ==
  ASSUME NEW a \in Seq(Nat), NEW b \in Seq(Nat), NEW c \in Seq(Nat)
  PROVE  (a \o b) \o c = a \o (b \o c)
BY ConcatAssociative, SMTT(30)

\* A sequence is its head and what follows.
LEMMA HeadFirst ==
  ASSUME NEW s \in Seq(Nat), s # <<>>
  PROVE  /\ s = <<Head(s)>> \o Tail(s)
         /\ Head(s) \in Nat /\ <<Head(s)>> \in Seq(Nat) /\ Len(<<Head(s)>>) = 1
         /\ Tail(s) \in Seq(Nat)
<1>1. Len(s) \in Nat /\ Len(s) >= 1
  BY EmptySeq, LenProperties
<1>2. SubSeq(s, 1, Len(s)) = <<s[1]>> \o SubSeq(s, 1 + 1, Len(s))
  BY <1>1, SubSeqRecursiveFirst
<1>3. Head(s) = s[1] /\ Tail(s) = SubSeq(s, 2, Len(s)) /\ 1 + 1 = 2
  BY <1>1, TailIsSubSeq
<1>4. Head(s) \in Nat /\ <<Head(s)>> \in Seq(Nat) /\ Len(<<Head(s)>>) = 1 /\ Tail(s) \in Seq(Nat)
  BY HeadTailProperties
<1> QED
  BY <1>2, <1>3, <1>4, SubSeqFull

\* A channel from which the first of two parts is taken, or to which one is added.
LEMMA TakeFirst ==
  ASSUME NEW b \in Nat, NEW s \in Seq(Nat), NEW t \in Seq(Nat), s # <<>>
  PROVE  /\ 1 <= Len(s \o t)
         /\ SubSeq(s \o t, 1, 1) = <<Head(s)>>
         /\ SubSeq(s \o t, 1 + 1, Len(s \o t)) = Tail(s) \o t
<1>1. Head(s) \in Nat /\ Tail(s) \in Seq(Nat) /\ <<Head(s)>> \in Seq(Nat) /\ Len(<<Head(s)>>) = 1
  BY HeadFirst
<1>2. s = <<Head(s)>> \o Tail(s)
  BY HeadFirst
<1>3. s \o t = <<Head(s)>> \o (Tail(s) \o t) /\ Tail(s) \o t \in Seq(Nat)
  BY <1>1, <1>2, ConcatAssociative, ConcatProperties
<1>4. Len(s \o t) = 1 + Len(Tail(s) \o t) /\ Len(Tail(s) \o t) \in Nat
  BY <1>1, <1>3, ConcatProperties, LenProperties
<1> DEFINE h == <<Head(s)>>
           r == Tail(s) \o t
<1>5. h \in Seq(Nat) /\ Len(h) = 1 /\ r \in Seq(Nat) /\ s \o t = h \o r
  BY <1>1, <1>3
<1> HIDE DEF h, r
<1>6. SubSeq(h \o r, 1, Len(h)) = h /\ SubSeq(h \o r, Len(h) + 1, Len(h \o r)) = r
  BY <1>5, Cut
<1>7. SubSeq(s \o t, 1, 1) = h /\ SubSeq(s \o t, 1 + 1, Len(s \o t)) = r
  BY <1>5, <1>6
<1>8. 1 <= Len(s \o t)
  BY <1>4
<1> QED
  BY <1>7, <1>8 DEF h, r

LEMMA TransmitMaps ==
  ASSUME JtagInv, JtagTypeOK', [JtagNext]_jtagVars
  PROVE  [Transmit!ChannelNext]_<<written, wfifo \o Held(tx_buf, tx_in, tx_out, 0), delivered>>
<1> DEFINE H == Ring(tx_buf, tx_out, Used(tx_in, tx_out))
           Capacity == BUF_LEN - 1 + FIFO_DEPTH
<1> USE JtagAssumption
<1>0. JtagTypeOK /\ CopyInv /\ SpaceInv
  BY DEF JtagInv
<1>1. /\ wfifo \in Seq(Nat) /\ Len(wfifo) \in Nat /\ Len(wfifo) <= FIFO_DEPTH
      /\ tx_in \in Index /\ tx_out \in Index /\ tx_buf \in [Index -> Nat]
      /\ Used(tx_in, tx_out) \in Nat /\ delivered \in Seq(Nat) /\ written \in Nat
      /\ count \in Nat /\ chunk \in Nat /\ Capacity \in Nat /\ 1 \in 1..Capacity
  <2>1. /\ wfifo \in Seq(Nat) /\ Len(wfifo) <= FIFO_DEPTH
        /\ tx_in \in Index /\ tx_out \in Index /\ tx_buf \in [Index -> Nat]
        /\ delivered \in Seq(Nat) /\ written \in Nat
        /\ count \in Nat /\ chunk \in 0..(BUF_LEN - 1)
    BY <1>0 DEF JtagTypeOK
  <2>2. Len(wfifo) \in Nat
    BY <2>1, LenProperties
  <2>3. Used(tx_in, tx_out) \in Nat
    BY <2>1, UsedIs
  <2>4. chunk \in Nat /\ Capacity \in Nat /\ 1 \in 1..Capacity
    BY <2>1
  <2> QED
    BY <2>1, <2>2, <2>3, <2>4
<1>2. /\ tx_in' \in Index /\ tx_out' \in Index /\ tx_buf' \in [Index -> Nat]
  BY DEF JtagTypeOK
<1>3. Held(tx_buf, tx_in, tx_out, 0) = H /\ H \in Seq(Nat) /\ Len(H) = Used(tx_in, tx_out)
  BY <1>1, RingWhole
<1>4. (Held(tx_buf, tx_in, tx_out, 0))' = Ring(tx_buf', tx_out', Used(tx_in', tx_out'))
  BY <1>2, RingWhole DEF Held
<1>5. CASE HostTake
  <2>1. /\ wfifo # <<>> /\ delivered' = Append(delivered, Head(wfifo)) /\ wfifo' = Tail(wfifo)
        /\ UNCHANGED <<tx_in, tx_out, tx_buf, written>>
    BY <1>5 DEF HostTake, txVars
  <2>2. /\ 1 <= Len(wfifo \o H) /\ SubSeq(wfifo \o H, 1, 1) = <<Head(wfifo)>>
        /\ SubSeq(wfifo \o H, 1 + 1, Len(wfifo \o H)) = Tail(wfifo) \o H
    BY <1>1, <1>3, <2>1, TakeFirst
  <2>3. Head(wfifo) \in Nat /\ Append(delivered, Head(wfifo)) = delivered \o <<Head(wfifo)>>
    BY <1>1, <2>1, HeadTailProperties, AppendIsConcat
  <2>4. Ring(tx_buf', tx_out', Used(tx_in', tx_out')) = H
    BY <2>1
  <2>5. Transmit!Get(1)
    BY <1>3, <1>4, <2>1, <2>2, <2>3, <2>4 DEF Transmit!Get
  <2> QED
    BY <1>1, <2>5 DEF Transmit!ChannelNext
<1>6. CASE IsrTxByte
  <2>1. /\ tx_out # tx_in /\ wfifo' = Append(wfifo, tx_buf[tx_out]) /\ tx_out' = Advance(tx_out, 1)
        /\ UNCHANGED <<tx_in, tx_buf, written, delivered>>
    <3>1. /\ space > 0 /\ tx_out # tx_in /\ PutByte(tx_buf[tx_out]) /\ isr = "tx"
          /\ tx_out' = Advance(tx_out, 1) /\ UNCHANGED <<tx_in, tx_buf, written, delivered>>
      BY <1>6 DEF IsrTxByte, TxMore, txVars, hostVars
    <3>2. Len(wfifo) < FIFO_DEPTH
      BY <1>0, <1>1, <3>1 DEF SpaceInv, JtagTypeOK
    <3> QED
      BY <3>1, <3>2 DEF PutByte
  <2>2. wfifo \o H = wfifo' \o Ring(tx_buf', tx_out', Used(tx_in', tx_out'))
    BY <1>1, <2>1, OldestMoves
  <2> QED
    BY <1>3, <1>4, <2>1, <2>2
<1>7. CASE WriteCopy
  <2> DEFINE n == Least(Free(tx_in, tx_out), count)
  <2>1. /\ tx_buf' = [i \in Index |-> IF i \in tx_in..(tx_in + n - 1)
                                      THEN written + 1 + i - tx_in ELSE tx_buf[i]]
        /\ UNCHANGED <<tx_in, tx_out, written, wfifo, delivered>>
    BY <1>7 DEF WriteCopy, hostVars
  <2>2. n \in Nat /\ n + Used(tx_in, tx_out) <= BUF_LEN - 1 /\ tx_in + n <= BUF_LEN
    <3>1. /\ Free(tx_in, tx_out) \in 0..(BUF_LEN - 1) /\ tx_in \in Nat
          /\ Free(tx_in, tx_out) + Used(tx_in, tx_out) <= BUF_LEN - 1
          /\ tx_in + Free(tx_in, tx_out) <= BUF_LEN
      BY <1>1, FreeFits DEF Index
    <3> QED
      BY <1>1, <3>1, SMTT(30) DEF Least
  <2> HIDE DEF n
  <2>3. \A i \in Index : i \notin tx_in..(tx_in + n - 1) => tx_buf'[i] = tx_buf[i]
    BY <2>1
  <2>4. Ring(tx_buf', tx_out, Used(tx_in, tx_out)) = H
    <3> DEFINE new == tx_buf'
    <3>1. /\ tx_in \in Index /\ tx_out \in Index
          /\ tx_buf \in [Index -> Nat] /\ new \in [Index -> Nat]
      BY <1>1, <1>2
    <3>2. \A i \in Index : i \notin tx_in..(tx_in + n - 1) => new[i] = tx_buf[i]
      BY <2>3
    <3> HIDE DEF new
    <3>3. Ring(new, tx_out, Used(tx_in, tx_out)) = Ring(tx_buf, tx_out, Used(tx_in, tx_out))
      BY <2>2, <3>1, <3>2, RingBlind
    <3> QED
      BY <3>3 DEF new
  <2> QED
    BY <1>3, <1>4, <2>1, <2>4
<1>8. CASE WritePublish
  <2>1. /\ tx_in' = Advance(tx_in, chunk) /\ written' = written + chunk
        /\ UNCHANGED <<tx_out, tx_buf, wfifo, delivered>>
    BY <1>8 DEF WritePublish, hostVars
  <2>2. /\ chunk \in 1..count /\ chunk + Used(tx_in, tx_out) <= BUF_LEN - 1
        /\ tx_in + chunk <= BUF_LEN
        /\ \A i \in 0..(chunk - 1) : tx_buf[tx_in + i] = written + 1 + i
    BY <1>0, <1>8 DEF WritePublish, Running, CopyInv
  <2>3. Ring(tx_buf, tx_in, chunk) = Transmit!Bytes(written, chunk)
    <3>1. ASSUME NEW i \in 1..chunk PROVE tx_buf[Advance(tx_in, i - 1)] = written + i
      <4>1. i - 1 \in 0..BUF_LEN /\ i - 1 \in 0..(chunk - 1) /\ tx_in + (i - 1) < BUF_LEN
        <5>1. tx_in \in Nat /\ tx_in < BUF_LEN /\ BUF_LEN \in Nat
          BY <1>1, JtagAssumption DEF Index
        <5>2. chunk \in Nat /\ tx_in + chunk <= BUF_LEN
          BY <1>1, <2>2
        <5> QED
          BY <5>1, <5>2
      <4>2. Advance(tx_in, i - 1) = tx_in + (i - 1)
        BY <1>1, <4>1, AdvanceIs
      <4>3. tx_buf[tx_in + (i - 1)] = written + 1 + (i - 1)
        BY <2>2, <4>1
      <4> QED
        BY <1>1, <4>2, <4>3
    <3> QED
      BY <3>1 DEF Ring, Transmit!Bytes
  <2>4. Ring(tx_buf', tx_out', Used(tx_in', tx_out')) = H \o Transmit!Bytes(written, chunk)
    <3>1. chunk + Used(tx_in, tx_out) <= BUF_LEN - 1 /\ chunk \in Nat
      BY <1>1, <2>2
    <3>2. tx_in \in Index /\ tx_out \in Index /\ tx_buf \in [Index -> Nat] /\ tx_in + chunk <= BUF_LEN
      BY <1>1, <2>2
    <3>3. Ring(tx_buf, tx_out, Used(Advance(tx_in, chunk), tx_out)) = H \o Ring(tx_buf, tx_in, chunk)
      BY <3>1, <3>2, NewestJoin
    <3> QED
      BY <2>1, <2>3, <3>3
  <2>5. Transmit!Bytes(written, chunk) \in Seq(Nat)
    <3>1. tx_in \in Index /\ chunk \in 0..BUF_LEN
      BY <1>1, <2>2
    <3> QED
      BY <1>1, <3>1, <2>3, RingSeq
  <2>6. (wfifo \o H) \o Transmit!Bytes(written, chunk) = wfifo \o (H \o Transmit!Bytes(written, chunk))
    <3>1. H \in Seq(Nat) /\ wfifo \in Seq(Nat)
      BY <1>1, <1>3
    <3> DEFINE B == Transmit!Bytes(written, chunk)
    <3>2. B \in Seq(Nat)
      BY <2>5
    <3> HIDE DEF H, B
    <3>3. (wfifo \o H) \o B = wfifo \o (H \o B)
      BY <3>1, <3>2, JoinThree
    <3> QED
      BY <3>3 DEF H, B
  <2>7. Len(wfifo \o H) = Len(wfifo) + Used(tx_in, tx_out)
    BY <1>1, <1>3, ConcatProperties
  <2>8. Len(wfifo \o H) + chunk <= Capacity /\ chunk \in 1..Capacity
    BY <1>1, <2>2, <2>7, SMTT(30)
  <2>9. Transmit!Put(chunk)
    BY <1>3, <1>4, <2>1, <2>4, <2>6, <2>8 DEF Transmit!Put
  <2> QED
    BY <2>8, <2>9 DEF Transmit!ChannelNext
<1>9. CASE UNCHANGED <<written, delivered, wfifo, tx_buf, tx_in, tx_out>>
  <2>1. Ring(tx_buf', tx_out', Used(tx_in', tx_out')) = H
    BY <1>9
  <2> QED
    BY <1>3, <1>4, <1>9, <2>1
<1>10. CASE \/ HostSend \/ HostPause \/ HostPlug \/ IsrEnter \/ IsrControl \/ IsrRxByte
            \/ IsrRxEmpty \/ IsrRxFull \/ IsrTxDone \/ Timeout \/ WriteKick \/ WriteWait
            \/ WriteCheck \/ ReadCopy \/ ReadPublish \/ ReadWait \/ ReadDone \/ CloseWait
            \/ NewCall \/ UNCHANGED jtagVars
  <2>1. UNCHANGED <<written, delivered, wfifo, tx_buf, tx_in, tx_out>>
    BY <1>10 DEF HostSend, HostPause, HostPlug, IsrEnter, IsrControl, IsrRxByte, IsrRxEmpty,
       IsrRxFull, IsrTxDone, Timeout, WriteKick, WriteWait, WriteCheck, ReadCopy, ReadPublish,
       ReadWait, ReadDone, CloseWait, NewCall, Write, Read, Close, SetTimeout, jtagVars, txVars,
       hostVars
  <2> QED
    BY <1>9, <2>1
<1> QED
  BY <1>5, <1>6, <1>7, <1>8, <1>10 DEF JtagNext, Isr, InCall, Host

\* The write path implements the byte channel, for rings, FIFOs and calls of
\* any size and under any interleaving: no byte accepted by write is lost,
\* repeated or overtaken on its way to the host.
THEOREM TransmitRefines == JtagSafe => TransmitIsChannel
<1>1. JtagInit => Transmit!ChannelInit
  <2> SUFFICES ASSUME JtagInit PROVE Transmit!ChannelInit
    OBVIOUS
  <2>1. /\ written = 0 /\ delivered = <<>> /\ wfifo = <<>> /\ tx_in = 0 /\ tx_out = 0
        /\ 0 \in Index
    BY JtagAssumption DEF JtagInit, Index
  <2>2. Advance(0, 0) = 0
    BY <2>1, AdvanceNot
  <2>3. Held(tx_buf, tx_in, tx_out, 0) = <<>>
    BY <2>1, <2>2 DEF Held
  <2> QED
    BY <2>1, <2>3, ConcatEmptySeq, EmptySeq DEF Transmit!ChannelInit
<1>2. JtagInv /\ JtagTypeOK' /\ [JtagNext]_jtagVars =>
        [Transmit!ChannelNext]_<<written, wfifo \o Held(tx_buf, tx_in, tx_out, 0), delivered>>
  BY TransmitMaps
<1>3. JtagInv => JtagTypeOK
  BY DEF JtagInv
<1> QED
  BY <1>1, <1>2, <1>3, JtagInvariant, PTL
     DEF JtagSafe, TransmitIsChannel, Transmit!ChannelSpec
-----------------------------------------------------------------------------
(* The receive direction.                                                  *)

\* Where the bytes begin that no read has copied yet.
First == Advance(rx_out, Taken)

LEMMA FirstIs ==
  ASSUME JtagTypeOK, CopyInv
  PROVE  /\ Taken \in Nat /\ Taken <= Used(rx_in, rx_out) /\ First \in Index
         /\ Used(rx_in, First) = Used(rx_in, rx_out) - Taken
<1>1. rx_in \in Index /\ rx_out \in Index /\ chunk \in Nat
  BY DEF JtagTypeOK
<1>2. Used(rx_in, rx_out) \in Nat
  BY <1>1, UsedIs
<1>3. Taken \in Nat /\ Taken <= Used(rx_in, rx_out)
  BY <1>1, <1>2 DEF Taken, CopyInv
<1> QED
  BY <1>1, <1>3, UsedLoses DEF First

LEMMA ReceiveMaps ==
  ASSUME JtagInv, JtagTypeOK', CopyInv', [JtagNext]_jtagVars
  PROVE  [Receive!ChannelNext]_<<offered, Held(rx_buf, rx_in, rx_out, Taken) \o rfifo, received>>
<1> DEFINE H == Ring(rx_buf, First, Used(rx_in, First))
           K == Ring(rx_buf', First', Used(rx_in', First'))
           Capacity == BUF_LEN - 1 + FIFO_DEPTH
<1> USE JtagAssumption
<1>0. JtagTypeOK /\ CopyInv
  BY DEF JtagInv
<1>1. /\ rfifo \in Seq(Nat) /\ Len(rfifo) \in Nat /\ Len(rfifo) <= FIFO_DEPTH
      /\ rx_in \in Index /\ rx_out \in Index /\ rx_buf \in [Index -> Nat]
      /\ received \in Seq(Nat) /\ offered \in Nat /\ count \in Nat /\ chunk \in Nat
      /\ Capacity \in Nat /\ 1 \in 1..Capacity
  <2>1. /\ rfifo \in Seq(Nat) /\ Len(rfifo) <= FIFO_DEPTH
        /\ rx_in \in Index /\ rx_out \in Index /\ rx_buf \in [Index -> Nat]
        /\ received \in Seq(Nat) /\ offered \in Nat
        /\ count \in Nat /\ chunk \in 0..(BUF_LEN - 1)
    BY <1>0 DEF JtagTypeOK
  <2>2. Len(rfifo) \in Nat
    BY <2>1, LenProperties
  <2>3. chunk \in Nat /\ Capacity \in Nat /\ 1 \in 1..Capacity
    BY <2>1
  <2> QED
    BY <2>1, <2>2, <2>3
<1>2. rx_in' \in Index /\ rx_out' \in Index /\ rx_buf' \in [Index -> Nat]
  BY DEF JtagTypeOK
<1>3. /\ First \in Index /\ Used(rx_in, First) \in 0..(BUF_LEN - 1)
      /\ Used(rx_in, First) <= Used(rx_in, rx_out) /\ Used(rx_in, rx_out) \in Nat
  <2>1. /\ Taken \in Nat /\ First \in Index
        /\ Used(rx_in, First) = Used(rx_in, rx_out) - Taken
    BY <1>0, FirstIs
  <2>2. Used(rx_in, First) \in 0..(BUF_LEN - 1) /\ Used(rx_in, rx_out) \in Nat
    BY <1>1, <2>1, UsedIs
  <2> QED
    BY <2>1, <2>2
<1>4. Held(rx_buf, rx_in, rx_out, Taken) = H
  BY DEF Held, Ring, Used, First
<1>5. (Held(rx_buf, rx_in, rx_out, Taken))' = K
  BY DEF Held, Ring, Used, First
<1>6. H \in Seq(Nat) /\ Len(H) = Used(rx_in, First)
  BY <1>1, <1>3, RingSeq
<1>7. CASE HostSend
  <2>1. /\ Len(rfifo) < FIFO_DEPTH /\ rfifo' = Append(rfifo, offered + 1)
        /\ offered' = offered + 1 /\ UNCHANGED <<rx_in, rx_out, rx_buf, received, pc, chunk>>
    BY <1>7 DEF HostSend, rxVars, callVars
  <2>2. K = H
    BY <2>1 DEF First, Taken
  <2>3. Receive!Bytes(offered, 1) = <<offered + 1>> /\ <<offered + 1>> \in Seq(Nat)
    BY <1>1 DEF Receive!Bytes
  <2>4. Append(rfifo, offered + 1) = rfifo \o <<offered + 1>>
    BY <1>1, AppendIsConcat
  <2>5. H \o (rfifo \o <<offered + 1>>) = (H \o rfifo) \o <<offered + 1>>
    <3> DEFINE e == <<offered + 1>>
    <3>1. H \in Seq(Nat) /\ rfifo \in Seq(Nat) /\ e \in Seq(Nat)
      BY <1>1, <1>6, <2>3
    <3> HIDE DEF H, e
    <3>2. H \o (rfifo \o e) = (H \o rfifo) \o e
      BY <3>1, JoinThree
    <3> QED
      BY <3>2 DEF e
  <2>6. Len(H \o rfifo) + 1 <= Capacity
    <3>1. Len(H \o rfifo) = Len(H) + Len(rfifo)
      BY <1>1, <1>6, ConcatProperties
    <3> QED
      BY <1>1, <1>3, <1>6, <2>1, <3>1
  <2>7. Receive!Put(1)
    BY <1>4, <1>5, <2>1, <2>2, <2>3, <2>4, <2>5, <2>6 DEF Receive!Put
  <2> QED
    BY <1>1, <2>7 DEF Receive!ChannelNext
<1>8. CASE IsrRxByte
  <2>1. /\ Advance(rx_in, 1) # rx_out /\ rfifo # <<>> /\ rfifo' = Tail(rfifo)
        /\ rx_buf' = [rx_buf EXCEPT ![rx_in] = Head(rfifo)] /\ rx_in' = Advance(rx_in, 1)
        /\ UNCHANGED <<rx_out, received, offered, pc, chunk>>
    BY <1>8 DEF IsrRxByte, RxFull, rxVars, callVars, hostVars
  <2>2. First' = First
    BY <2>1 DEF First, Taken
  <2>3. 1 + Used(rx_in, First) <= BUF_LEN - 1 /\ rx_in + 1 <= BUF_LEN /\ 1 \in Nat
    <3>1. Used(rx_in, rx_out) + 1 <= BUF_LEN - 1
      BY <1>1, <2>1, NotFull
    <3> QED
      BY <1>1, <1>3, <3>1, SMTT(30) DEF Index
  <2>4. K = Ring(rx_buf', First, Used(rx_in, First)) \o Ring(rx_buf', rx_in, 1)
    <3>1. Ring(rx_buf', First, Used(Advance(rx_in, 1), First)) =
            Ring(rx_buf', First, Used(rx_in, First)) \o Ring(rx_buf', rx_in, 1)
      <4> DEFINE new == rx_buf'
      <4>1. new \in [Index -> Nat] /\ rx_in \in Index /\ First \in Index
        BY <1>1, <1>2, <1>3
      <4> HIDE DEF new
      <4>2. Ring(new, First, Used(Advance(rx_in, 1), First)) =
              Ring(new, First, Used(rx_in, First)) \o Ring(new, rx_in, 1)
        BY <2>3, <4>1, NewestJoin
      <4> QED
        BY <4>2 DEF new
    <3> QED
      BY <2>1, <2>2, <3>1
  <2>5. Ring(rx_buf', First, Used(rx_in, First)) = H
    <3>1. \A i \in Index : i \notin rx_in..(rx_in + 1 - 1) => rx_buf'[i] = rx_buf[i]
      BY <1>1, <2>1 DEF Index
    <3> DEFINE new == rx_buf'
               out == First
    <3>2. /\ rx_in \in Index /\ out \in Index
          /\ rx_buf \in [Index -> Nat] /\ new \in [Index -> Nat]
      BY <1>1, <1>2, <1>3
    <3>3. 1 + Used(rx_in, out) <= BUF_LEN - 1
      BY <2>3
    <3>4. \A i \in Index : i \notin rx_in..(rx_in + 1 - 1) => new[i] = rx_buf[i]
      BY <3>1
    <3> HIDE DEF new, out
    <3>5. Ring(new, out, Used(rx_in, out)) = Ring(rx_buf, out, Used(rx_in, out))
      BY <2>3, <3>2, <3>3, <3>4, RingBlind
    <3> QED
      BY <3>5 DEF new, out
  <2>6. Ring(rx_buf', rx_in, 1) = <<Head(rfifo)>>
    BY <1>1, <1>2, <2>1, RingOne
  <2>7. rfifo = <<Head(rfifo)>> \o Tail(rfifo) /\ <<Head(rfifo)>> \in Seq(Nat)
        /\ Tail(rfifo) \in Seq(Nat)
    BY <1>1, <2>1, HeadFirst
  <2>8. (H \o <<Head(rfifo)>>) \o Tail(rfifo) = H \o (<<Head(rfifo)>> \o Tail(rfifo))
    <3> HIDE DEF H
    <3> QED
      BY <1>6, <2>7, JoinThree
  <2>9. K \o rfifo' = H \o rfifo
    <3> HIDE DEF H, K
    <3> QED
      BY <2>1, <2>4, <2>5, <2>6, <2>7, <2>8
  <2> QED
    BY <1>4, <1>5, <2>1, <2>9
<1>9. CASE ReadCopy
  <2> DEFINE n == Least(Filled(rx_in, rx_out), count)
             a == Ring(rx_buf, rx_out, n)
  <2>1. /\ pc = "read_copy" /\ chunk' = n /\ (n > 0 => pc' = "read_publish")
        /\ (n = 0 => pc' # "read_publish")
        /\ received' = received \o [i \in 1..n |-> rx_buf[rx_out + i - 1]]
        /\ UNCHANGED <<rx_in, rx_out, rx_buf, rfifo, offered>>
    BY <1>9 DEF ReadCopy, Running, hostVars
  <2>2. First = rx_out
    BY <1>1, <2>1, AdvanceNot DEF First, Taken
  <2>3. n \in Nat /\ n <= Used(rx_in, rx_out) /\ rx_out + n <= BUF_LEN /\ n <= BUF_LEN - 1
    <3>1. /\ Filled(rx_in, rx_out) \in 0..(BUF_LEN - 1)
          /\ Filled(rx_in, rx_out) <= Used(rx_in, rx_out)
          /\ rx_out + Filled(rx_in, rx_out) <= BUF_LEN
      BY <1>1, FilledFits
    <3>2. rx_out \in Nat /\ count \in Nat
      BY <1>1 DEF Index
    <3> QED
      BY <1>3, <3>1, <3>2 DEF Least
  <2> HIDE DEF n
  <2>4. First' = Advance(rx_out, n)
    BY <2>1, <2>3 DEF First, Taken
  <2>5. [i \in 1..n |-> rx_buf[rx_out + i - 1]] = a
    <3>1. ASSUME NEW i \in 1..n PROVE Advance(rx_out, i - 1) = rx_out + i - 1
      <4>1. i - 1 \in 0..BUF_LEN /\ rx_out + (i - 1) < BUF_LEN /\ rx_out + (i - 1) = rx_out + i - 1
        BY <1>1, <2>3 DEF Index
      <4>2. Advance(rx_out, i - 1) = rx_out + (i - 1)
        BY <1>1, <4>1, AdvanceIs
      <4> QED
        BY <4>1, <4>2
    <3> QED
      BY <3>1 DEF Ring
  <2>6. H = a \o K
    <3>1. Used(rx_in, Advance(rx_out, n)) = Used(rx_in, rx_out) - n
      BY <1>1, <2>3, UsedLoses
    <3>2. Used(rx_in, rx_out) \in 0..BUF_LEN /\ n \in 0..Used(rx_in, rx_out)
      BY <1>1, <2>3, UsedIs
    <3>3. Ring(rx_buf, rx_out, Used(rx_in, rx_out)) =
            Ring(rx_buf, rx_out, n) \o Ring(rx_buf, Advance(rx_out, n), Used(rx_in, rx_out) - n)
      BY <1>1, <3>2, RingCut
    <3> QED
      BY <2>1, <2>2, <2>4, <3>1, <3>3
  <2>7. a \in Seq(Nat) /\ Len(a) = n /\ K \in Seq(Nat)
    <3>1. n \in 0..BUF_LEN /\ First' \in Index
      BY <1>1, <2>3, <2>4, UsedLoses
    <3>2. Used(rx_in', First') \in 0..BUF_LEN
      BY <1>2, <3>1, UsedIs
    <3> QED
      BY <1>1, <1>2, <3>1, <3>2, RingSeq
  <2> DEFINE r == K \o rfifo
  <2>8. H \o rfifo = a \o r /\ r \in Seq(Nat) /\ Len(a \o r) = n + Len(r) /\ Len(r) \in Nat
    <3> HIDE DEF H, K, a
    <3>0. a \in Seq(Nat) /\ K \in Seq(Nat) /\ rfifo \in Seq(Nat)
      BY <1>1, <2>7
    <3>1. (a \o K) \o rfifo = a \o r
      BY <3>0, JoinThree
    <3>2. r \in Seq(Nat)
      BY <3>0, JoinSeq
    <3> HIDE DEF r
    <3>3. Len(a \o r) = n + Len(r) /\ Len(r) \in Nat
      BY <2>7, <3>2, JoinSeq, LenProperties
    <3> QED
      BY <2>6, <3>1, <3>2, <3>3
  <2>9. SubSeq(a \o r, 1, n) = a /\ SubSeq(a \o r, n + 1, Len(a \o r)) = r
    <3> HIDE DEF a, r
    <3> QED
      BY <2>7, <2>8, Cut
  <2>10. CASE n > 0
    <3>1. n \in 1..Capacity
      BY <1>1, <2>3, <2>10
    <3>2. n <= Len(H \o rfifo)
      BY <2>3, <2>8
    <3>3. Receive!Get(n)
      <4> HIDE DEF H, K, a
      <4> QED
        BY <1>4, <1>5, <2>1, <2>5, <2>8, <2>9, <3>2 DEF Receive!Get
    <3> QED
      BY <3>1, <3>3 DEF Receive!ChannelNext
  <2>11. CASE n = 0
    <3>1. received \o a = received /\ a \o r = r
      <4>1. a = <<>>
        BY <2>7, <2>11, EmptySeq
      <4> HIDE DEF a, r
      <4> QED
        BY <1>1, <2>8, <4>1, ConcatEmptySeq
    <3> QED
      BY <1>4, <1>5, <2>1, <2>5, <2>8, <3>1
  <2> QED
    BY <2>3, <2>10, <2>11, SMTT(30)
<1>10. CASE ReadPublish
  <2>1. /\ pc = "read_publish" /\ pc' = "read_copy" /\ rx_out' = Advance(rx_out, chunk)
        /\ UNCHANGED <<rx_in, rx_buf, received, rfifo, offered>>
    BY <1>10 DEF ReadPublish, Running, hostVars
  <2>2. First' = First
    BY <1>2, <2>1, AdvanceNot DEF First, Taken
  <2> QED
    BY <1>4, <1>5, <2>1, <2>2
<1>11. CASE /\ UNCHANGED <<offered, received, rfifo, rx_buf, rx_in, rx_out>>
            /\ \/ UNCHANGED <<pc, chunk>>
               \/ pc # "read_publish" /\ pc' # "read_publish"
  <2>1. First' = First
    BY <1>11 DEF First, Taken
  <2> QED
    BY <1>4, <1>5, <1>11, <2>1
<1>12. CASE \/ HostTake \/ HostPause \/ HostPlug \/ IsrEnter \/ IsrControl \/ IsrTxByte
            \/ IsrRxEmpty \/ IsrRxFull \/ IsrTxDone \/ Timeout \/ UNCHANGED jtagVars
  <2>1. UNCHANGED <<offered, received, rfifo, rx_buf, rx_in, rx_out, pc, chunk>>
    BY <1>12 DEF HostTake, HostPause, HostPlug, IsrEnter, IsrControl, IsrTxByte, IsrRxEmpty,
       IsrRxFull, IsrTxDone, Timeout, jtagVars, rxVars, callVars, hostVars
  <2> QED
    BY <1>11, <2>1
<1>13. CASE \/ WriteCopy \/ WritePublish \/ WriteKick \/ WriteWait \/ WriteCheck \/ ReadWait
            \/ ReadDone \/ CloseWait
  <2>1. UNCHANGED <<offered, received, rfifo, rx_buf, rx_in, rx_out>>
    BY <1>13 DEF WriteCopy, WritePublish, WriteKick, WriteWait, WriteCheck, ReadWait, ReadDone,
       CloseWait, rxVars, hostVars
  <2>2. pc # "read_publish" /\ pc' # "read_publish"
    BY <1>13 DEF WriteCopy, WritePublish, WriteKick, WriteWait, WriteCheck, ReadWait, ReadDone,
       CloseWait, Running, Goto, Return
  <2> QED
    BY <1>11, <2>1, <2>2
<1>14. CASE NewCall
  <2>1. UNCHANGED <<offered, received, rfifo, rx_buf, rx_in, rx_out>>
    BY <1>14 DEF NewCall, Write, Read, Close, SetTimeout, rxVars, hostVars
  <2>2. (pc # "read_publish" /\ pc' # "read_publish") \/ UNCHANGED <<pc, chunk>>
    BY <1>14 DEF NewCall, Write, Read, Close, SetTimeout, Call, Running, callVars
  <2> QED
    BY <1>11, <2>1, <2>2
<1> QED
  BY <1>7, <1>8, <1>9, <1>10, <1>12, <1>13, <1>14 DEF JtagNext, Isr, InCall, Host

\* The read path implements the byte channel as well: read returns what the
\* host sent, in order, although the copy and the pointer's move are two steps.
THEOREM ReceiveRefines == JtagSafe => ReceiveIsChannel
<1>1. JtagInit => Receive!ChannelInit
  <2> SUFFICES ASSUME JtagInit PROVE Receive!ChannelInit
    OBVIOUS
  <2>1. /\ offered = 0 /\ received = <<>> /\ rfifo = <<>> /\ rx_in = 0 /\ rx_out = 0
        /\ pc = "run" /\ 0 \in Index
    BY JtagAssumption DEF JtagInit, Index
  <2>2. Advance(0, Taken) = 0
    BY <2>1, AdvanceNot DEF Taken
  <2>3. Held(rx_buf, rx_in, rx_out, Taken) = <<>>
    BY <2>1, <2>2 DEF Held
  <2> QED
    BY <2>1, <2>3, ConcatEmptySeq, EmptySeq DEF Receive!ChannelInit
<1>2. JtagInv /\ JtagTypeOK' /\ CopyInv' /\ [JtagNext]_jtagVars =>
        [Receive!ChannelNext]_<<offered, Held(rx_buf, rx_in, rx_out, Taken) \o rfifo, received>>
  BY ReceiveMaps
<1>3. JtagInv => JtagTypeOK /\ CopyInv
  BY DEF JtagInv
<1> QED
  BY <1>1, <1>2, <1>3, JtagInvariant, PTL
     DEF JtagSafe, ReceiveIsChannel, Receive!ChannelSpec
===============================================================================
