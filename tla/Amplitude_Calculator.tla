-------------------------- MODULE Amplitude_Calculator --------------------------
(***************************************************************************)
(* The peak-to-peak amplitude of one channel: what lies between its two    *)
(* amplitude cursors, in volts with two decimals.  The distance is scaled, *)
(* divided by 2048 in floating point, and taken apart again: the integer   *)
(* by a converter that rounds to the nearest, the decimals by a table of   *)
(* eight extracted bits.                                                   *)
(*                                                                         *)
(* One step is a move of a cursor, or a throw of the switches of the       *)
(* scale, with all that follows up to the last pass of the bit extractor,  *)
(* some 600 edges of Main_CLK; the user's moves are 8000 and more apart.   *)
(* A move of a cursor is detected and restarts the measurement; a throw of *)
(* the switches is not, and only flows through.  The wizard's floating     *)
(* point blocks are external: their results are exact, or rounded to the   *)
(* nearest, ties to even.                                                  *)
(***************************************************************************)
EXTENDS BCD

CONSTANT AmplitudePlaces    \* where the cursors are

ASSUME AmplitudeAssumption == AmplitudePlaces \subseteq 12..229

VARIABLES
  Up_Amplitude_Cursor, Down_Amplitude_Cursor,
  Amplitude_Binary,                            \* the three switches
  EndBit,                                      \* CH1_EndBit
  rescaled                                     \* history: the switches were
                                               \* thrown since the last move

amplitudeVars ==
  <<Up_Amplitude_Cursor, Down_Amplitude_Cursor, Amplitude_Binary, EndBit, rescaled>>

\* What bit x of a word is worth.
Weight(x) == 2^x

\* A register of seven bits.
AmplitudeScale(binary) == Weight(binary) % 2^7

Gap(up, down) == IF up > down THEN up - down ELSE down - up
Numerator(up, down, binary) == AmplitudeScale(binary) * Gap(up, down) * 10
-----------------------------------------------------------------------------
(* The result, numerator / 2048, as a word of IEEE 754.                    *)

Log2(n) == CHOOSE x \in 0..30 : Weight(x) <= n /\ n < Weight(x + 1)
Exponent(n) == IF n = 0 THEN 0 ELSE 127 + Log2(n) - 11
Result(n) == IF n = 0 THEN 0 ELSE Exponent(n) * 2^23 + n * Weight(23 - Log2(n)) - 2^23

\* The converter to integers.
NearestEven(n) ==
  LET q == n \div 2048   r == n % 2048
  IN  IF r > 1024 \/ (r = 1024 /\ q % 2 = 1) THEN q + 1 ELSE q
-----------------------------------------------------------------------------
(* The fraction.                                                           *)

StartBit(e) == 23 - (e - 127) - 7

\* Above two it is held, but for the first edges of a measurement.
EndBitNext(e, moved) ==
  CASE e > 127 -> IF moved THEN 23 - (e - 127) ELSE EndBit
    [] e = 127 -> 16
    [] e < 127 -> 27

\* Above two bits are moved one by one, those from StartBit - 1 to EndBit - 1.
Extracted(n, end) ==
  LET e == Exponent(n)
  IN  CASE e > 127 -> (Result(n) \div Weight(StartBit(e) - 1)) % Weight(end - StartBit(e) + 1)
        [] e = 127 -> (Result(n) \div 2^15) % 2^8
        [] e < 127 -> (Result(n) \div 2^19) % 2^8

\* The table: 256ths as hundredths, none for 255.  Below one the eight bits are
\* the last four of the exponent and the first four of the mantissa.
Decimals(e, bits) ==
  IF e >= 127 THEN IF bits <= 254 THEN (100 * bits + 128) \div 256 ELSE 0
  ELSE (100 * (16 + (bits % 16)) * Weight(bits \div 16) + 2^18) \div 2^19

\* A mutant of IntegerResult: what was rounded up is not taken back.
IntegerResultRounded(n, decimals) == NearestEven(n)

\* The decimals tell whether the integer was rounded up.
IntegerResult(n, decimals) ==
  IF decimals \div 10 >= 5 /\ NearestEven(n) >= 1 THEN NearestEven(n) - 1 ELSE NearestEven(n)

\* Two digits and two decimals are drawn: hundredths of a volt.
Shown ==
  LET n == Numerator(Up_Amplitude_Cursor, Down_Amplitude_Cursor, Amplitude_Binary)
      decimals == Decimals(Exponent(n), Extracted(n, EndBit))
  IN  100 * (Value(ToBCD(IntegerResult(n, decimals))) % 100) + decimals
-----------------------------------------------------------------------------
Near(x) == {y \in AmplitudePlaces : y - x \in {-1, 1}}

AmplitudeInit ==
  /\ Up_Amplitude_Cursor \in AmplitudePlaces /\ Down_Amplitude_Cursor \in AmplitudePlaces
  /\ Amplitude_Binary = 0 /\ rescaled = FALSE
  /\ LET e == Exponent(Numerator(Up_Amplitude_Cursor, Down_Amplitude_Cursor, 0))
     IN  EndBit = CASE e > 127 -> 23 - (e - 127) [] e = 127 -> 16 [] e < 127 -> 27

\* Either cursor moves; the switches may be thrown in the same moment.
MoveAmplitudeCursor ==
  /\ \/ Up_Amplitude_Cursor' \in Near(Up_Amplitude_Cursor) /\ UNCHANGED Down_Amplitude_Cursor
     \/ Down_Amplitude_Cursor' \in Near(Down_Amplitude_Cursor) /\ UNCHANGED Up_Amplitude_Cursor
  /\ Amplitude_Binary' \in 0..7
  /\ EndBit' = EndBitNext(Exponent(Numerator(Up_Amplitude_Cursor', Down_Amplitude_Cursor',
                                             Amplitude_Binary')), TRUE)
  /\ rescaled' = FALSE

ThrowScale ==
  /\ Amplitude_Binary' \in 0..7 \ {Amplitude_Binary}
  /\ EndBit' = EndBitNext(Exponent(Numerator(Up_Amplitude_Cursor, Down_Amplitude_Cursor,
                                             Amplitude_Binary')), FALSE)
  /\ rescaled' = TRUE
  /\ UNCHANGED <<Up_Amplitude_Cursor, Down_Amplitude_Cursor>>

\* The decimals are a 256th below the half, or just on it with an even integer:
\* the table rounds to 50, the converter does not round up, and the integer is
\* reduced all the same (Amplitude_Calculator.v:173).
AtTheHalf(n) ==
  n >= 2048 /\ (n % 2048 \in 1016..1023 \/ (n % 2048 = 1024 /\ (n \div 2048) % 2 = 0))

\* The amplitude drawn is that between the cursors, to a hundredth of a volt,
\* below one volt to one part in sixteen, although the integer and the decimals
\* come along two ways that round apart.  It needs a cursor to move after the
\* scale was changed, since EndBit is held (line 217); a scale below 128, which
\* its register does not hold (GUI.v:55, 378); and a value not at the half.
AmplitudeIsShown ==
  LET n == Weight(Amplitude_Binary) * Gap(Up_Amplitude_Cursor, Down_Amplitude_Cursor) * 10
      error == IF n < 2048 THEN (100 * n) \div 16 + 2048 ELSE 2048
  IN  ~rescaled /\ Amplitude_Binary # 7 /\ ~AtTheHalf(n) =>
        Shown * 2048 - 100 * n \in -error..error
===============================================================================
