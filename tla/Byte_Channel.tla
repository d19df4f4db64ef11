----------------------------- MODULE Byte_Channel -----------------------------
(***************************************************************************)
(* What either direction of the JTAG UART promises: bytes come out in the  *)
(* order they went in, none lost, none twice, and at most Capacity of them *)
(* are on the way.  A byte is known by its place in the stream.            *)
(***************************************************************************)
EXTENDS Naturals, Sequences

CONSTANT Capacity

VARIABLES sent,    \* how many bytes went in
          queue,   \* the bytes on their way
          got      \* the bytes that came out

\* The n bytes that follow the first k.
Bytes(k, n) == [i \in 1..n |-> k + i]

ChannelInit == sent = 0 /\ queue = <<>> /\ got = <<>>

Put(n) ==
  /\ Len(queue) + n <= Capacity
  /\ sent' = sent + n
  /\ queue' = queue \o Bytes(sent, n)
  /\ UNCHANGED got

Get(n) ==
  /\ n <= Len(queue)
  /\ got' = got \o SubSeq(queue, 1, n)
  /\ queue' = SubSeq(queue, n + 1, Len(queue))
  /\ UNCHANGED sent

ChannelNext == \E n \in 1..Capacity : Put(n) \/ Get(n)

ChannelSpec == ChannelInit /\ [][ChannelNext]_<<sent, queue, got>>
===============================================================================
