---------------------------------- MODULE BCD ----------------------------------
(***************************************************************************)
(* The conversion of the measured values to the decimal digits that GUI    *)
(* draws: five digits of four bits each in a register of twenty bits,      *)
(* built from sixteen bits by shifting and adding three.  The first digit  *)
(* is the one of ten thousands.                                            *)
(***************************************************************************)
EXTENDS Integers

\* What each bit of a binary value is worth, the first one first.
BitWorth == <<32768, 16384, 8192, 4096, 2048, 1024, 512, 256, 128, 64, 32, 16, 8, 4, 2, 1>>

\* Bit 15 - i.
BinaryBit(n, i) == (n \div BitWorth[i + 1]) % 2

\* Twice a digit, and the first bit of the digit below.
Doubled(d, below) == ((2 * d) % 16) + (below \div 8)

\* One iteration: the register moves up by one bit, the last one is that of n.
Shift(b, n, i) ==
  <<Doubled(b[1], b[2]), Doubled(b[2], b[3]), Doubled(b[3], b[4]), Doubled(b[4], b[5]),
    Doubled(b[5], 8 * BinaryBit(n, i))>>

\* A mutant of Adjust: a five is taken for small enough.
AdjustLate(d) == IF d > 5 THEN (d + 3) % 16 ELSE d

\* A digit above four would not fit once doubled.
Adjust(d) == IF d > 4 THEN (d + 3) % 16 ELSE d

AddThree(b) == <<Adjust(b[1]), Adjust(b[2]), Adjust(b[3]), Adjust(b[4]), Adjust(b[5])>>

ToBCD(n) ==
  LET bcd[i \in -1..15] ==
        IF i = -1 THEN <<0, 0, 0, 0, 0>>
        ELSE LET b == Shift(bcd[i - 1], n, i) IN IF i < 15 THEN AddThree(b) ELSE b
  IN  bcd[15]

\* What the digits say.
IsDecimal(b) == \A k \in 1..5 : b[k] <= 9
Value(b) == 10000 * b[1] + 1000 * b[2] + 100 * b[3] + 10 * b[4] + b[5]
===============================================================================
