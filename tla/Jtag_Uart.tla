------------------------------- MODULE Jtag_Uart -------------------------------
(***************************************************************************)
(* The interrupt-driven driver of the JTAG UART, stdin and stdout of the   *)
(* reader program, with the device it drives: two ring buffers shared by   *)
(* the program and the interrupt routine, two FIFOs shared by the          *)
(* interrupt routine and the host.                                         *)
(*                                                                         *)
(* The program and the interrupt routine share the processor: the program  *)
(* is interrupted between any two of its steps and waits for the routine   *)
(* to end (interrupts do not nest).  The host moves at any time, also in   *)
(* the middle of the routine.  A byte is known by its place in the stream. *)
(***************************************************************************)
EXTENDS Integers, Sequences

CONSTANTS
  BUF_LEN,          \* ALTERA_AVALON_JTAG_UART_BUF_LEN, 2048
  FIFO_DEPTH,       \* of either FIFO, 64
  THRESHOLD,        \* of either FIFO interrupt, 8
  DEFAULT_TIMEOUT,  \* alarm periods without a host before it is given up, 10
  INT_MAX,
  Clocks,           \* may alt_alarm_start succeed?  Without a system clock
                    \* (ALT_SYS_CLK none, as built here) it does not
  Counts,           \* the lengths the program passes to read and write
  Timeouts,         \* the arguments of TIOCSTIMEOUT
  MaxOut, MaxIn     \* bounds: bytes the program writes, and the host sends

ASSUME JtagAssumption ==
  /\ BUF_LEN \in Nat /\ FIFO_DEPTH \in Nat /\ THRESHOLD \in Nat
  /\ MaxOut \in Nat /\ MaxIn \in Nat
  /\ BUF_LEN >= 2 /\ THRESHOLD < FIFO_DEPTH
  /\ INT_MAX \in Nat /\ DEFAULT_TIMEOUT \in 2..(INT_MAX - 2)
  /\ Counts \subseteq Nat /\ Timeouts \subseteq Int /\ Clocks \subseteq BOOLEAN

VARIABLES
  timeout, irq_enable, host_inactive,          \* altera_avalon_jtag_uart_state
  tx_in, tx_out, tx_buf, rx_in, rx_out, rx_buf,
  wfifo, rfifo, pause_irq, ac,                 \* the device
  isr, space, wi, avail,                       \* the interrupt routine
  pc, count, moved, nonblock, snap, chunk,     \* the program's call
  clock,                                       \* is there a system clock?
  connected,                                   \* does the host listen?
  written, delivered, offered, received        \* history: bytes accepted from
                                               \* the program, seen by the host,
                                               \* sent by it, read

txVars == <<tx_in, tx_buf, written>>
rxVars == <<rx_out, received>>
isrVars == <<isr, space, wi, avail>>
callVars == <<pc, count, moved, nonblock, snap, chunk>>
hostVars == <<connected, offered, delivered>>
idleVars == <<timeout, host_inactive, ac, clock>>

jtagVars == <<idleVars, irq_enable, txVars, tx_out, rxVars, rx_in, rx_buf,
              wfifo, rfifo, pause_irq, isrVars, callVars, hostVars>>

Index == 0..(BUF_LEN - 1)
\* A mutant of Advance: the pointer is not brought back.
AdvanceOver(i, n) == i + n

Advance(i, n) == (i + n) % BUF_LEN
Least(a, b) == IF a < b THEN a ELSE b

WritePcs == {"write_copy", "write_publish", "write_kick", "write_wait", "write_check"}
ReadPcs == {"read_copy", "read_publish", "read_wait", "read_done"}
Pcs == {"run", "close"} \cup WritePcs \cup ReadPcs
-----------------------------------------------------------------------------
(* The device: the registers and FIFOs of Nios_Screen_Reader_JTAG.v.       *)

\* ipen_AF: the host paused with bytes in the FIFO, or it is almost full.
ReadInterrupt ==
  "RE" \in irq_enable /\ (pause_irq \/ FIFO_DEPTH - Len(rfifo) <= THRESHOLD)

\* ipen_AE: the FIFO is almost empty.
WriteInterrupt == "WE" \in irq_enable /\ Len(wfifo) <= THRESHOLD

\* A write to the data register; a byte for a full FIFO is lost.
PutByte(b) == wfifo' = IF Len(wfifo) < FIFO_DEPTH THEN Append(wfifo, b) ELSE wfifo

\* rd_wfifo
HostTake ==
  /\ connected /\ wfifo # <<>>
  /\ delivered' = Append(delivered, Head(wfifo))
  /\ wfifo' = Tail(wfifo)
  /\ UNCHANGED <<idleVars, irq_enable, txVars, tx_out, rxVars, rx_in, rx_buf, rfifo,
                 pause_irq, isrVars, callVars, connected, offered>>

\* wr_rfifo: the host keeps what does not fit.
HostSend ==
  /\ connected /\ offered < MaxIn /\ Len(rfifo) < FIFO_DEPTH
  /\ offered' = offered + 1
  /\ rfifo' = Append(rfifo, offered')
  /\ ac' = TRUE
  /\ UNCHANGED <<timeout, host_inactive, clock, irq_enable, txVars, tx_out, rxVars, rx_in,
                 rx_buf, wfifo, pause_irq, isrVars, callVars, connected, delivered>>

\* t_pause: the host has nothing more to send.
HostPause ==
  /\ connected /\ ~(ac /\ (rfifo # <<>> => pause_irq))
  /\ ac' = TRUE
  /\ pause_irq' = (rfifo # <<>> \/ pause_irq)
  /\ UNCHANGED <<timeout, host_inactive, clock, irq_enable, txVars, tx_out, rxVars, rx_in,
                 rx_buf, wfifo, rfifo, isrVars, callVars, hostVars>>

HostPlug ==
  /\ connected' = ~connected
  /\ UNCHANGED <<idleVars, irq_enable, txVars, tx_out, rxVars, rx_in, rx_buf, wfifo, rfifo,
                 pause_irq, isrVars, callVars, offered, delivered>>
-----------------------------------------------------------------------------
(* The interrupt routine, altera_avalon_jtag_uart_irq.                     *)

InterruptPending == ReadInterrupt \/ WriteInterrupt

IsrEnter ==
  /\ isr = "off" /\ InterruptPending
  /\ isr' = "control"
  /\ UNCHANGED <<idleVars, irq_enable, txVars, tx_out, rxVars, rx_in, rx_buf, wfifo, rfifo,
                 pause_irq, space, wi, avail, callVars, hostVars>>

\* Read the control register; return once nothing more is to do.
IsrControl ==
  /\ isr = "control"
  /\ isr' = CASE ReadInterrupt -> "rx"
              [] ~ReadInterrupt /\ WriteInterrupt -> "tx"
              [] OTHER -> "off"
  /\ wi' = WriteInterrupt
  /\ space' = IF wi' THEN FIFO_DEPTH - Len(wfifo) ELSE 0
  /\ avail' = ReadInterrupt
  /\ UNCHANGED <<idleVars, irq_enable, txVars, tx_out, rxVars, rx_in, rx_buf, wfifo, rfifo,
                 pause_irq, callVars, hostVars>>

AfterRx == IF wi THEN "tx" ELSE "control"

\* A mutant of RxFull: the ring is filled to its last slot.
RxFullLate == FALSE

RxFull == Advance(rx_in, 1) = rx_out

\* Take a byte out of the FIFO into the receive ring.
IsrRxByte ==
  /\ isr = "rx" /\ ~RxFull /\ rfifo # <<>>
  /\ rx_buf' = [rx_buf EXCEPT ![rx_in] = Head(rfifo)]
  /\ rx_in' = Advance(rx_in, 1)
  /\ rfifo' = Tail(rfifo)
  /\ avail' = (Tail(rfifo) # <<>>)
  /\ pause_irq' = FALSE
  /\ UNCHANGED <<idleVars, irq_enable, txVars, tx_out, rxVars, wfifo, isr, space, wi,
                 callVars, hostVars>>

\* The data register says that no byte was valid, and none is available.
IsrRxEmpty ==
  /\ isr = "rx" /\ ~RxFull /\ rfifo = <<>>
  /\ isr' = AfterRx /\ avail' = FALSE
  /\ pause_irq' = FALSE
  /\ UNCHANGED <<idleVars, irq_enable, txVars, tx_out, rxVars, rx_in, rx_buf, wfifo, rfifo,
                 space, wi, callVars, hostVars>>

\* The ring is full: with bytes left in the FIFO the receive interrupt goes off.
IsrRxFull ==
  /\ isr = "rx" /\ RxFull
  /\ isr' = AfterRx /\ avail' = FALSE
  /\ irq_enable' = IF avail THEN irq_enable \ {"RE"} ELSE irq_enable
  /\ UNCHANGED <<idleVars, txVars, tx_out, rxVars, rx_in, rx_buf, wfifo, rfifo, pause_irq,
                 space, wi, callVars, hostVars>>

TxMore == space > 0 /\ tx_out # tx_in

IsrTxByte ==
  /\ isr = "tx" /\ TxMore
  /\ PutByte(tx_buf[tx_out])
  /\ tx_out' = Advance(tx_out, 1)
  /\ space' = IF space > 0 THEN space - 1 ELSE space
  /\ UNCHANGED <<idleVars, irq_enable, txVars, rxVars, rx_in, rx_buf, rfifo, pause_irq, isr,
                 wi, avail, callVars, hostVars>>

\* A mutant of TxDone: the interrupt goes off although bytes may be left.
TxDoneAlways(room) == irq_enable \ {"WE"}

\* The ring is empty if the FIFO has room: then the transmit interrupt goes off.
TxDone(room) == IF room > 0 THEN irq_enable \ {"WE"} ELSE irq_enable

IsrTxDone ==
  /\ isr = "tx" /\ ~TxMore
  /\ irq_enable' = TxDone(space)
  /\ isr' = "control" /\ space' = 0 /\ wi' = FALSE
  /\ UNCHANGED <<idleVars, txVars, tx_out, rxVars, rx_in, rx_buf, wfifo, rfifo, pause_irq,
                 avail, callVars, hostVars>>

\* The alarm, in the interrupt of the system clock, once per period.
Timeout ==
  /\ clock /\ isr = "off"
  /\ ac' = FALSE
  /\ host_inactive' = CASE ac -> 0
                        [] ~ac /\ host_inactive < INT_MAX - 2 -> host_inactive + 1
                        [] OTHER -> host_inactive
  /\ UNCHANGED <<timeout, clock, irq_enable, txVars, tx_out, rxVars, rx_in, rx_buf, wfifo,
                 rfifo, pause_irq, isrVars, callVars, hostVars>>

HostGone == host_inactive >= timeout
-----------------------------------------------------------------------------
(* The program's calls.                                                    *)

\* The locals of a call begin and end with it.
Running(at) == isr = "off" /\ pc = at

Call(to, n) ==
  /\ Running("run") /\ pc' = to
  /\ count' = n /\ nonblock' \in BOOLEAN
  /\ UNCHANGED <<moved, snap, chunk>>

Goto(to) == pc' = to /\ UNCHANGED <<count, moved, nonblock, snap, chunk>>

Return ==
  /\ pc' = "run" /\ count' = 0 /\ moved' = 0 /\ nonblock' = FALSE
  /\ snap' = 0 /\ chunk' = 0

\* A mutant of Free: with tx_out at 0 the last slot is taken as well.
FreeAll(in, out) == IF in < out THEN out - 1 - in ELSE BUF_LEN - in

\* The room for a memcpy behind in: the ring keeps one slot empty.
Free(in, out) ==
  IF in < out THEN out - 1 - in
  ELSE IF out > 0 THEN BUF_LEN - in ELSE BUF_LEN - 1 - in

Write(n) ==
  /\ written + n <= MaxOut
  /\ Call("write_copy", n)
  /\ UNCHANGED <<idleVars, irq_enable, txVars, tx_out, rxVars, rx_in, rx_buf, wfifo, rfifo,
                 pause_irq, isrVars, hostVars>>

\* Read the pointers, then memcpy: the routine in between only makes room.
WriteCopy ==
  LET n == Least(Free(tx_in, tx_out), count)
  IN  /\ Running("write_copy")
      /\ pc' = IF n = 0 THEN "write_kick" ELSE "write_publish"
      /\ snap' = IF n = 0 THEN tx_out ELSE 0
      /\ chunk' = n
      /\ tx_buf' = [i \in Index |-> IF i \in tx_in..(tx_in + n - 1)
                                      THEN written + 1 + i - tx_in ELSE tx_buf[i]]
      /\ UNCHANGED <<idleVars, irq_enable, tx_in, written, tx_out, rxVars, rx_in, rx_buf,
                     wfifo, rfifo, pause_irq, isrVars, count, moved, nonblock, hostVars>>

WritePublish ==
  /\ Running("write_publish") /\ pc' = "write_copy"
  /\ tx_in' = Advance(tx_in, chunk)
  /\ written' = written + chunk
  /\ count' = count - chunk /\ moved' = moved + chunk /\ chunk' = 0
  /\ UNCHANGED <<idleVars, irq_enable, tx_buf, tx_out, rxVars, rx_in, rx_buf, wfifo, rfifo,
                 pause_irq, isrVars, nonblock, snap, hostVars>>

\* A mutant of Kick: left to the interrupt that is thought to be on.
KickNever == irq_enable

Kick == irq_enable \cup {"WE"}

\* With interrupts off, so in one step: make the routine transmit.
WriteKick ==
  /\ Running("write_kick")
  /\ irq_enable' = Kick
  /\ IF count = 0 \/ nonblock THEN Return ELSE Goto("write_wait")
  /\ UNCHANGED <<idleVars, txVars, tx_out, rxVars, rx_in, rx_buf, wfifo, rfifo, pause_irq,
                 isrVars, hostVars>>

\* Spin until the routine has made room, or the host is given up.
WriteWait ==
  /\ Running("write_wait")
  /\ snap # tx_out \/ HostGone
  /\ Goto("write_check")
  /\ UNCHANGED <<idleVars, irq_enable, txVars, tx_out, rxVars, rx_in, rx_buf, wfifo, rfifo,
                 pause_irq, isrVars, hostVars>>

\* A mutant of SilentHost: asked the wrong way round.
SilentHostNot == host_inactive = 0

SilentHost == host_inactive # 0

WriteCheck ==
  /\ Running("write_check")
  /\ IF SilentHost THEN Return ELSE Goto("write_copy")
  /\ UNCHANGED <<idleVars, irq_enable, txVars, tx_out, rxVars, rx_in, rx_buf, wfifo, rfifo,
                 pause_irq, isrVars, hostVars>>

Read(n) ==
  /\ Call("read_copy", n)
  /\ UNCHANGED <<idleVars, irq_enable, txVars, tx_out, rxVars, rx_in, rx_buf, wfifo, rfifo,
                 pause_irq, isrVars, hostVars>>

\* The bytes a memcpy from out can take.
Filled(in, out) == IF in >= out THEN in - out ELSE BUF_LEN - out

\* With nothing to take, a call that waits and has read nothing waits for more.
ReadCopy ==
  LET n == Least(Filled(rx_in, rx_out), count)
  IN  /\ Running("read_copy")
      /\ pc' = CASE n > 0 -> "read_publish"
                 [] n = 0 /\ count > 0 /\ moved = 0 /\ ~nonblock -> "read_wait"
                 [] OTHER -> "read_done"
      /\ snap' = IF n = 0 THEN rx_in ELSE 0
      /\ chunk' = n
      /\ received' = received \o [i \in 1..n |-> rx_buf[rx_out + i - 1]]
      /\ UNCHANGED <<idleVars, irq_enable, txVars, tx_out, rx_out, rx_in, rx_buf, wfifo,
                     rfifo, pause_irq, isrVars, count, moved, nonblock, hostVars>>

ReadPublish ==
  /\ Running("read_publish") /\ pc' = "read_copy"
  /\ rx_out' = Advance(rx_out, chunk)
  /\ count' = count - chunk /\ moved' = moved + chunk /\ chunk' = 0
  /\ UNCHANGED <<idleVars, irq_enable, txVars, tx_out, received, rx_in, rx_buf, wfifo,
                 rfifo, pause_irq, isrVars, nonblock, snap, hostVars>>

ReadWait ==
  /\ Running("read_wait")
  /\ snap # rx_in \/ HostGone
  /\ Goto(IF snap = rx_in THEN "read_done" ELSE "read_copy")
  /\ UNCHANGED <<idleVars, irq_enable, txVars, tx_out, rxVars, rx_in, rx_buf, wfifo, rfifo,
                 pause_irq, isrVars, hostVars>>

\* A mutant of Reenable: left to the next interrupt.
ReenableNever(n) == irq_enable

\* A read that took something made room, so the receive interrupt comes on.
Reenable(n) == IF n > 0 THEN irq_enable \cup {"RE"} ELSE irq_enable

ReadDone ==
  /\ Running("read_done")
  /\ irq_enable' = Reenable(moved)
  /\ Return
  /\ UNCHANGED <<idleVars, txVars, tx_out, rxVars, rx_in, rx_buf, wfifo, rfifo, pause_irq,
                 isrVars, hostVars>>

Close ==
  /\ Call("close", 0)
  /\ UNCHANGED <<idleVars, irq_enable, txVars, tx_out, rxVars, rx_in, rx_buf, wfifo, rfifo,
                 pause_irq, isrVars, hostVars>>

\* Drain the transmit ring, unless the host is given up.
CloseWait ==
  /\ Running("close")
  /\ tx_out = tx_in \/ HostGone \/ nonblock
  /\ Return
  /\ UNCHANGED <<idleVars, irq_enable, txVars, tx_out, rxVars, rx_in, rx_buf, wfifo, rfifo,
                 pause_irq, isrVars, hostVars>>

\* ioctl(TIOCSTIMEOUT); TIOCGCONNECTED only asks ~HostGone.
SetTimeout(t) ==
  /\ Running("run")
  /\ timeout' = CASE timeout = INT_MAX -> INT_MAX
                  [] timeout # INT_MAX /\ t \in 2..(INT_MAX - 1) -> t
                  [] OTHER -> INT_MAX - 1
  /\ UNCHANGED <<host_inactive, ac, clock, irq_enable, txVars, tx_out, rxVars, rx_in, rx_buf,
                 wfifo, rfifo, pause_irq, isrVars, callVars, hostVars>>
-----------------------------------------------------------------------------
\* altera_avalon_jtag_uart_init, after the reset of the device.
JtagInit ==
  /\ clock \in Clocks
  /\ timeout = IF clock THEN DEFAULT_TIMEOUT ELSE INT_MAX
  /\ irq_enable = {"RE"} /\ host_inactive = 0
  /\ tx_in = 0 /\ tx_out = 0 /\ tx_buf = [i \in Index |-> 0]
  /\ rx_in = 0 /\ rx_out = 0 /\ rx_buf = [i \in Index |-> 0]
  /\ wfifo = <<>> /\ rfifo = <<>> /\ pause_irq = FALSE /\ ac = FALSE
  /\ isr = "off" /\ space = 0 /\ wi = FALSE /\ avail = FALSE
  /\ pc = "run" /\ count = 0 /\ moved = 0 /\ nonblock = FALSE /\ snap = 0 /\ chunk = 0
  /\ connected \in BOOLEAN
  /\ written = 0 /\ delivered = <<>> /\ offered = 0 /\ received = <<>>

Isr == IsrEnter \/ IsrControl \/ IsrRxByte \/ IsrRxEmpty \/ IsrRxFull \/ IsrTxByte \/ IsrTxDone

InCall == WriteCopy \/ WritePublish \/ WriteKick \/ WriteWait \/ WriteCheck
            \/ ReadCopy \/ ReadPublish \/ ReadWait \/ ReadDone \/ CloseWait

NewCall ==
  \/ \E n \in Counts : Write(n) \/ Read(n)
  \/ Close
  \/ \E t \in Timeouts : SetTimeout(t)

Host == HostTake \/ HostSend \/ HostPause \/ HostPlug

JtagNext == Isr \/ Timeout \/ InCall \/ NewCall \/ Host
JtagSafe == JtagInit /\ [][JtagNext]_jtagVars

\* A processor that runs serves its interrupts before it goes on, the clock
\* ticks, and a host that listens takes what is there and ends what it sends.
\* Nothing makes the program call or the host listen.
JtagFairness ==
  /\ WF_jtagVars(Isr) /\ WF_jtagVars(Timeout)
  /\ SF_jtagVars(InCall)
  /\ WF_jtagVars(HostTake) /\ WF_jtagVars(HostPause)

JtagSpec == JtagSafe /\ JtagFairness
-----------------------------------------------------------------------------
(* Properties                                                              *)

Byte == 0..(MaxOut + MaxIn)

\* Every variable has its type: ring pointers are indices, the FIFOs never
\* hold more than FIFO_DEPTH bytes, and host_inactive stays below its limit.
JtagTypeOK ==
  /\ timeout \in 2..INT_MAX /\ irq_enable \subseteq {"RE", "WE"}
  /\ host_inactive \in 0..(INT_MAX - 2)
  /\ tx_in \in Index /\ tx_out \in Index /\ tx_buf \in [Index -> Nat]
  /\ rx_in \in Index /\ rx_out \in Index /\ rx_buf \in [Index -> Nat]
  /\ wfifo \in Seq(Nat) /\ Len(wfifo) <= FIFO_DEPTH
  /\ rfifo \in Seq(Nat) /\ Len(rfifo) <= FIFO_DEPTH
  /\ pause_irq \in BOOLEAN /\ ac \in BOOLEAN /\ clock \in BOOLEAN /\ connected \in BOOLEAN
  /\ isr \in {"off", "control", "rx", "tx"} /\ space \in 0..FIFO_DEPTH
  /\ wi \in BOOLEAN /\ avail \in BOOLEAN
  /\ pc \in Pcs /\ count \in Nat /\ moved \in Nat /\ nonblock \in BOOLEAN
  /\ snap \in Index /\ chunk \in 0..(BUF_LEN - 1)
  /\ written \in Nat /\ delivered \in Seq(Nat)
  /\ offered \in Nat /\ received \in Seq(Nat)

\* The bytes a ring holds, n slots taken from out on already excepted.
Held(buf, in, out, n) ==
  LET first == Advance(out, n)
      size == IF in >= first THEN in - first ELSE in + BUF_LEN - first
  IN  [i \in 1..size |-> buf[Advance(first, i - 1)]]

\* What a read has copied but not yet given back to the ring.
Taken == IF pc = "read_publish" THEN chunk ELSE 0

Transmit == INSTANCE Byte_Channel WITH
  Capacity <- BUF_LEN - 1 + FIFO_DEPTH,
  sent <- written, got <- delivered,
  queue <- wfifo \o Held(tx_buf, tx_in, tx_out, 0)

Receive == INSTANCE Byte_Channel WITH
  Capacity <- BUF_LEN - 1 + FIFO_DEPTH,
  sent <- offered, got <- received,
  queue <- Held(rx_buf, rx_in, rx_out, Taken) \o rfifo

\* The write path of driver and device is a byte channel: whatever the
\* interleaving of program, interrupt routine and host, across wrap-arounds
\* and full buffers, the host sees what write accepted, once and in order.
TransmitIsChannel == Transmit!ChannelSpec

\* The read path is a byte channel as well: read returns what the host sent.
ReceiveIsChannel == Receive!ChannelSpec

\* No byte is stranded: with bytes in the transmit ring and nobody about to
\* kick the routine, the transmit interrupt is on.  (WriteKick sets it after
\* the copy, the routine clears it after it saw the ring empty.)
TransmitInterruptOn ==
  /\ tx_in # tx_out
  /\ pc \notin {"write_copy", "write_publish", "write_kick"}
  => "WE" \in irq_enable

\* The receive interrupt is off only while the ring holds bytes, or a read
\* that emptied it has yet to enable it: a reader that waits is interrupted.
ReceiveInterruptOn ==
  "RE" \notin irq_enable =>
    \/ rx_in # rx_out
    \/ pc \in {"read_copy", "read_done"} /\ moved > 0

\* Nobody waits for an interrupt that is off.
InterruptsOn == TransmitInterruptOn /\ ReceiveInterruptOn

\* Without a system clock the driver behaves as though the host is present: a
\* write that may block takes all its bytes, a close drains the ring, and a
\* read that asked for bytes got some.
PresentWithoutClock ==
  [][~clock /\ ~nonblock /\ pc # "run" /\ pc' = "run" =>
       CASE pc \in WritePcs -> count = 0
         [] pc = "close" -> tx_in = tx_out
         [] OTHER -> moved > 0 \/ count = 0]_jtagVars

\* A call that blocks comes back: if the host listens from some time on, or
\* if there is a clock to give it up, and a timeout it can reach.
Reachable == clock /\ timeout <= INT_MAX - 2
BlockedWriteReturns ==
  <>[]connected \/ <>[](~connected /\ Reachable) => (pc \in WritePcs \cup {"close"} ~> pc = "run")

\* A read does not wait forever for bytes the host has sent.
BlockedReadReturns ==
  (pc \in ReadPcs /\ rfifo # <<>>) ~> (pc = "run" \/ ~connected)

\* A host that listens from some time on sees every byte accepted.
Delivered == <>[]connected => <>[](Len(delivered) = written)
===============================================================================
