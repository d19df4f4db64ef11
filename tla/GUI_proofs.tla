--------------------------- MODULE GUI_proofs ---------------------------
(***************************************************************************)
(* Cursors and offsets stay in their fields, and a held button moves them  *)
(* at a bounded pace, for every limit and period.  What is drawn between   *)
(* the time cursors is their frequency, for all places of the cursors and  *)
(* scales: the loop that makes the digits is right for every value of      *)
(* sixteen bits.  What is drawn between the amplitude cursors is their     *)
(* distance to a hundredth of a volt: the word of the floating point       *)
(* result is followed for each place its first bit can have.               *)
(***************************************************************************)
EXTENDS GUI_Cursors, Measurements, TLAPS

\* Where the clock is between a move and the next, while a button is held.  It
\* is up at first, the counter having started from zero or gone on from its
\* half; after it fell, one more half period is ahead, or the rest of this one
\* and a half.
SpacingInv ==
  since < Wait =>
    \/ Update_CLK = 1 /\ (Updating_Counter <= since \/ Updating_Counter = HalfPeriod + 1 + since)
    \/ Update_CLK = 0 /\ HalfPeriod < Updating_Counter /\ Updating_Counter <= since
    \/ Update_CLK = 0 /\ HalfPeriod + 1 + Updating_Counter <= since

CursorInv == CursorTypeOK /\ SpacingInv

\* A held button is found by the counter, whatever else changes.
LEMMA HeldIsCounted ==
  ASSUME PixelClockEdge, pressed \cap pressed' # {}, Updating_Counter # Period
  PROVE  Updating_Counter' = Updating_Counter + 1
<1>1. PICK found \in MayFind : Updating_Counter' = Count(found)
  BY DEF PixelClockEdge
<1>2. found # {}
  BY DEF MayFind
<1> QED
  BY <1>1, <1>2 DEF Count

\* A step of a cursor or of the offset keeps to the range of its register.
LEMMA MovesStayInside ==
  /\ \A x \in (TimeLow - 1)..(TimeHigh + 1), right \in BOOLEAN :
       MoveTime(x, right) \in (TimeLow - 1)..(TimeHigh + 1)
  /\ \A x \in 0..(OffsetHigh + 1), up \in BOOLEAN : MoveOffset(x, up) \in 0..(OffsetHigh + 1)
  /\ \A x \in (AmpLow - 1)..(AmpLimit + 1), up \in BOOLEAN :
       MoveAmplitude(x, up) \in (AmpLow - 1)..(AmpLimit + 1)
<1>1. \A x \in (TimeLow - 1)..(TimeHigh + 1), right \in BOOLEAN :
        MoveTime(x, right) \in (TimeLow - 1)..(TimeHigh + 1)
  BY CursorAssumption DEF MoveTime
<1>2. \A x \in 0..(OffsetHigh + 1), up \in BOOLEAN : MoveOffset(x, up) \in 0..(OffsetHigh + 1)
  BY CursorAssumption DEF MoveOffset
<1>3. \A x \in (AmpLow - 1)..(AmpLimit + 1), up \in BOOLEAN :
        MoveAmplitude(x, up) \in (AmpLow - 1)..(AmpLimit + 1)
  BY CursorAssumption DEF MoveAmplitude
<1> QED
  BY <1>1, <1>2, <1>3

LEMMA TypeHolds == CursorInit => CursorTypeOK
  BY CursorAssumption DEF CursorInit, CursorTypeOK, Bit, Wait

LEMMA TypeKept ==
  ASSUME CursorTypeOK, [CursorNext]_cursorVars
  PROVE  CursorTypeOK'
<1> USE CursorAssumption DEF CursorTypeOK, Bit, Wait
<1>1. CASE PixelClockEdge
  <2>1. Updating_Counter' \in 0..Period /\ Update_CLK' \in Bit /\ pressed' \subseteq Button
    BY <1>1 DEF PixelClockEdge, Count, Toggle
  <2>2. since' \in 0..Wait /\ resets' \in 0..MaxResets
    <3>1. since' \in {Wait, 0, since} \/ (since < Wait /\ since' = since + 1)
      BY <1>1 DEF PixelClockEdge
    <3> QED
      BY <3>1, <1>1 DEF PixelClockEdge
  <2>3. Time_Cursor' \in [Side -> (TimeLow - 1)..(TimeHigh + 1)]
    <3>1. \/ UNCHANGED Time_Cursor
          \/ \E s \in Side, right \in BOOLEAN :
               Time_Cursor' = [Time_Cursor EXCEPT ![s] = MoveTime(@, right)]
      BY <1>1 DEF PixelClockEdge, Update, UpdateTime, positions
    <3> QED
      BY <3>1, MovesStayInside
  <2>4. Amplitude_Cursor' \in [End -> (AmpLow - 1)..(AmpLimit + 1)]
    <3>1. \/ UNCHANGED Amplitude_Cursor
          \/ \E e \in End, up \in BOOLEAN :
               Amplitude_Cursor' = [Amplitude_Cursor EXCEPT ![e] = MoveAmplitude(@, up)]
      BY <1>1 DEF PixelClockEdge, Update, UpdateAmplitude, positions
    <3> QED
      BY <3>1, MovesStayInside
  <2>5. Offset' \in 0..(OffsetHigh + 1)
    <3>1. UNCHANGED Offset \/ \E up \in BOOLEAN : Offset' = MoveOffset(Offset, up)
      BY <1>1 DEF PixelClockEdge, Update, UpdateOffset, positions
    <3> QED
      BY <3>1, MovesStayInside
  <2> QED
    BY <2>1, <2>2, <2>3, <2>4, <2>5
<1>2. CASE ResetPulse
  BY <1>2 DEF ResetPulse, positions
<1>3. CASE UNCHANGED cursorVars
  BY <1>3 DEF cursorVars, positions, updateClock
<1> QED
  BY <1>1, <1>2, <1>3 DEF CursorNext

\* Nothing moves before the wait is over: the clock cannot rise.
LEMMA MovesWait ==
  ASSUME CursorInv, [CursorNext]_cursorVars, positions' # positions
  PROVE  since = Wait /\ PixelClockEdge /\ Update_CLK' = 1
<1>1. PixelClockEdge /\ Update_CLK = 0 /\ Update_CLK' = 1
  BY DEF CursorNext, PixelClockEdge, ResetPulse, cursorVars, positions
<1>2. Updating_Counter \in {HalfPeriod, Period}
  BY <1>1 DEF PixelClockEdge, Toggle
<1> QED
  BY <1>1, <1>2, CursorAssumption DEF CursorInv, CursorTypeOK, SpacingInv, Wait, Bit

LEMMA SpacingKept ==
  ASSUME CursorInv, [CursorNext]_cursorVars
  PROVE  SpacingInv'
<1> USE CursorAssumption
<1>t. CursorTypeOK /\ CursorTypeOK'
  BY TypeKept DEF CursorInv
<1>1. CASE PixelClockEdge
  <2> SUFFICES ASSUME since' < Wait  PROVE SpacingInv'
    BY DEF SpacingInv, Wait
  <2>h. pressed \cap pressed' # {}
    BY <1>1, <1>t DEF PixelClockEdge, CursorTypeOK, Wait
  <2>c. IF Updating_Counter = Period THEN Updating_Counter' = 0
        ELSE Updating_Counter' = Updating_Counter + 1
    BY <1>1, <2>h, HeldIsCounted DEF PixelClockEdge, Count
  <2>1. CASE positions' # positions
    <3>1. Update_CLK' = 1 /\ Update_CLK # 1 /\ since' = 0
      BY <1>1, <2>1, <2>h DEF PixelClockEdge
    <3>2. Updating_Counter \in {HalfPeriod, Period}
      BY <1>1, <3>1 DEF PixelClockEdge, Toggle
    <3> QED
      BY <3>1, <3>2, <2>c DEF SpacingInv
  <2>2. CASE positions' = positions
    <3>1. since < Wait /\ since' = since + 1
      BY <1>1, <2>2, <2>h, <1>t DEF PixelClockEdge, CursorTypeOK, Wait
    <3>2. Toggle
      BY <1>1 DEF PixelClockEdge
    <3> QED
      BY <3>1, <3>2, <2>c, <1>t DEF CursorInv, SpacingInv, Toggle, CursorTypeOK, Wait, Bit
  <2> QED
    BY <2>1, <2>2
<1>2. CASE ResetPulse
  BY <1>2, <1>t DEF ResetPulse, CursorInv, SpacingInv, CursorTypeOK, Wait, Bit
<1>3. CASE UNCHANGED cursorVars
  BY <1>3 DEF cursorVars, updateClock, CursorInv, SpacingInv, Wait
<1> QED
  BY <1>1, <1>2, <1>3 DEF CursorNext
-----------------------------------------------------------------------------
LEMMA CursorInvariant == CursorSpec => []CursorInv
<1>1. CursorInit => CursorInv
  <2>1. CursorInit => SpacingInv
    BY CursorAssumption DEF CursorInit, SpacingInv, Wait
  <2> QED
    BY <2>1, TypeHolds DEF CursorInv
<1>2. CursorInv /\ [CursorNext]_cursorVars => CursorInv'
  BY TypeKept, SpacingKept DEF CursorInv
<1> QED
  BY <1>1, <1>2, PTL DEF CursorSpec

\* The ranges of the registers, whatever the fields and the periods: no cursor
\* goes further than one past its limit, and no unsigned register wraps.
THEOREM CursorTypeCorrect == CursorSpec => []CursorTypeOK
<1>1. CursorInv => CursorTypeOK
  BY DEF CursorInv
<1> QED
  BY <1>1, CursorInvariant, PTL

\* A held button moves something at most once in two half periods, for every
\* period, with any number of resets.
THEOREM MovesAreSpacedAlways == CursorSpec => MovesAreSpaced
<1>1. CursorInv /\ [CursorNext]_cursorVars => [positions' # positions => since = Wait]_cursorVars
  BY MovesWait
<1> QED
  BY <1>1, CursorInvariant, PTL DEF CursorSpec, MovesAreSpaced
-----------------------------------------------------------------------------
(* The digits.                                                             *)

\* A register that says v, or, with three added already, what is to be doubled.
Says(b, v) ==
  /\ b = <<b[1], b[2], b[3], b[4], b[5]>>
  /\ \A k \in 1..5 : b[k] \in Nat
  /\ IsDecimal(b)
  /\ Value(b) = v

ReadyToShift(b, v) == \E c : Says(c, v) /\ b = AddThree(c)

\* Adding three before the shift takes ten away after it, and carries one.
LEMMA DigitDoubles ==
  ASSUME NEW d \in Nat, d <= 9, NEW e \in Nat, e <= 9
  PROVE  Doubled(Adjust(d), Adjust(e)) =
           2 * d - (IF d > 4 THEN 10 ELSE 0) + (IF e > 4 THEN 1 ELSE 0)
BY SMT DEF Adjust, Doubled

\* One iteration takes a value below 50000 to its double and the next bit.
\* One iteration takes a value below 50000 to its double and the next bit.
LEMMA IterationDoubles ==
  ASSUME NEW b, NEW v \in Nat, v < 50000, NEW n, NEW i,
         BinaryBit(n, i) \in {0, 1}, ReadyToShift(b, v)
  PROVE  Says(Shift(b, n, i), 2 * v + BinaryBit(n, i))
<1> DEFINE bit == BinaryBit(n, i)
<1>1. PICK c : Says(c, v) /\ b = AddThree(c)
  BY DEF ReadyToShift
<1> DEFINE d1 == c[1]   d2 == c[2]   d3 == c[3]   d4 == c[4]   d5 == c[5]
           Carry(d) == IF d > 4 THEN 1 ELSE 0
           New(d, carry) == 2 * d - 10 * Carry(d) + carry
           e1 == New(d1, Carry(d2))
           e2 == New(d2, Carry(d3))
           e3 == New(d3, Carry(d4))
           e4 == New(d4, Carry(d5))
           e5 == New(d5, bit)
<1>2. /\ d1 \in Nat /\ d2 \in Nat /\ d3 \in Nat /\ d4 \in Nat /\ d5 \in Nat
      /\ d1 <= 9 /\ d2 <= 9 /\ d3 <= 9 /\ d4 <= 9 /\ d5 <= 9
  BY <1>1, SMT DEF Says, IsDecimal
<1>3. v = 10000 * d1 + 1000 * d2 + 100 * d3 + 10 * d4 + d5
  BY <1>1 DEF Says, Value
<1>4. b = <<Adjust(d1), Adjust(d2), Adjust(d3), Adjust(d4), Adjust(d5)>>
  BY <1>1 DEF AddThree
<1> HIDE DEF d1, d2, d3, d4, d5
<1>5. \A d, e \in Nat : d <= 9 /\ e <= 9 => Doubled(Adjust(d), Adjust(e)) = New(d, Carry(e))
  BY DEF Adjust, Doubled
<1>6. bit \in {0, 1}
  OBVIOUS
<1> HIDE DEF bit
<1>7. \A d \in Nat : d <= 9 => Doubled(Adjust(d), 8 * bit) = New(d, bit)
  BY <1>6 DEF Adjust, Doubled
<1>8. Shift(b, n, i) = <<e1, e2, e3, e4, e5>>
  <2>1. /\ Doubled(Adjust(d1), Adjust(d2)) = e1
        /\ Doubled(Adjust(d2), Adjust(d3)) = e2
        /\ Doubled(Adjust(d3), Adjust(d4)) = e3
        /\ Doubled(Adjust(d4), Adjust(d5)) = e4
        /\ Doubled(Adjust(d5), 8 * bit) = e5
    <3> HIDE DEF New, Carry
    <3> QED
      BY <1>2, <1>5, <1>7
  <2> HIDE DEF New, Carry, e1, e2, e3, e4, e5
  <2>2. b[1] = Adjust(d1) /\ b[2] = Adjust(d2) /\ b[3] = Adjust(d3)
          /\ b[4] = Adjust(d4) /\ b[5] = Adjust(d5)
    BY <1>4
  <2> QED
    BY <2>1, <2>2 DEF Shift, bit
<1>9. /\ e1 \in Nat /\ e2 \in Nat /\ e3 \in Nat /\ e4 \in Nat /\ e5 \in Nat
      /\ e1 <= 9 /\ e2 <= 9 /\ e3 <= 9 /\ e4 <= 9 /\ e5 <= 9
  <2>1. d1 <= 4
    BY <1>2, <1>3
  <2> QED
    BY <1>2, <1>6, <2>1
<1>10. 10000 * e1 + 1000 * e2 + 100 * e3 + 10 * e4 + e5 = 2 * v + bit
  <2>1. Carry(d1) = 0
    BY <1>2, <1>3
  <2>2. Carry(d2) \in Int /\ Carry(d3) \in Int /\ Carry(d4) \in Int /\ Carry(d5) \in Int
    OBVIOUS
  <2> HIDE DEF Carry
  <2> QED
    BY <1>2, <1>3, <1>6, <2>1, <2>2
<1> HIDE DEF New, Carry, e1, e2, e3, e4, e5
<1> QED
  BY <1>8, <1>9, <1>10, SMT DEF Says, IsDecimal, Value, bit

\* The digits of a value, the first one of those below 100000 first.
Digits(v) ==
  <<v \div 10000, (v \div 1000) % 10, (v \div 100) % 10, (v \div 10) % 10, v % 10>>

LEMMA DigitsSay ==
  ASSUME NEW v \in Nat, v < 100000
  PROVE  Says(Digits(v), v)
BY SMT DEF Says, IsDecimal, Value, Digits

LEMMA DigitsAreUnique ==
  ASSUME NEW v \in Nat, NEW b, Says(b, v)
  PROVE  b = Digits(v)
<1> DEFINE d1 == b[1]   d2 == b[2]   d3 == b[3]   d4 == b[4]   d5 == b[5]
<1>1. b = <<d1, d2, d3, d4, d5>>
  BY DEF Says
<1>2. /\ d1 \in Nat /\ d2 \in Nat /\ d3 \in Nat /\ d4 \in Nat /\ d5 \in Nat
      /\ d1 <= 9 /\ d2 <= 9 /\ d3 <= 9 /\ d4 <= 9 /\ d5 <= 9
  BY SMT DEF Says, IsDecimal
<1>3. v = 10000 * d1 + 1000 * d2 + 100 * d3 + 10 * d4 + d5
  BY DEF Says, Value
<1> HIDE DEF d1, d2, d3, d4, d5
<1>4. /\ v \div 10000 = d1 /\ (v \div 1000) % 10 = d2 /\ (v \div 100) % 10 = d3
      /\ (v \div 10) % 10 = d4 /\ v % 10 = d5
  BY <1>2, <1>3, SMT
<1> QED
  BY <1>1, <1>4 DEF Digits

\* What the first i + 1 bits of n say.
Prefix(n, i) == IF i = -1 THEN 0 ELSE n \div BitWorth[i + 1]

LEMMA PrefixGrows ==
  ASSUME NEW n \in Nat, n < 65536, NEW i \in 0..15
  PROVE  /\ Prefix(n, i) \in Nat
         /\ Prefix(n, i - 1) \in Nat /\ Prefix(n, i - 1) < 50000
         /\ BinaryBit(n, i) \in {0, 1}
         /\ Prefix(n, i) = 2 * Prefix(n, i - 1) + BinaryBit(n, i)
<1>0. CASE i = 0
  BY <1>0, SMT DEF Prefix, BinaryBit, BitWorth
<1>1. CASE i = 1
  BY <1>1, SMT DEF Prefix, BinaryBit, BitWorth
<1>2. CASE i = 2
  BY <1>2, SMT DEF Prefix, BinaryBit, BitWorth
<1>3. CASE i = 3
  BY <1>3, SMT DEF Prefix, BinaryBit, BitWorth
<1>4. CASE i = 4
  BY <1>4, SMT DEF Prefix, BinaryBit, BitWorth
<1>5. CASE i = 5
  BY <1>5, SMT DEF Prefix, BinaryBit, BitWorth
<1>6. CASE i = 6
  BY <1>6, SMT DEF Prefix, BinaryBit, BitWorth
<1>7. CASE i = 7
  BY <1>7, SMT DEF Prefix, BinaryBit, BitWorth
<1>8. CASE i = 8
  BY <1>8, SMT DEF Prefix, BinaryBit, BitWorth
<1>9. CASE i = 9
  BY <1>9, SMT DEF Prefix, BinaryBit, BitWorth
<1>10. CASE i = 10
  BY <1>10, SMT DEF Prefix, BinaryBit, BitWorth
<1>11. CASE i = 11
  BY <1>11, SMT DEF Prefix, BinaryBit, BitWorth
<1>12. CASE i = 12
  BY <1>12, SMT DEF Prefix, BinaryBit, BitWorth
<1>13. CASE i = 13
  BY <1>13, SMT DEF Prefix, BinaryBit, BitWorth
<1>14. CASE i = 14
  BY <1>14, SMT DEF Prefix, BinaryBit, BitWorth
<1>15. CASE i = 15
  BY <1>15, SMT DEF Prefix, BinaryBit, BitWorth
<1> QED
  BY <1>0, <1>1, <1>2, <1>3, <1>4, <1>5, <1>6, <1>7, <1>8, <1>9, <1>10, <1>11, <1>12, <1>13, <1>14, <1>15

\* The conversion is right for every value of sixteen bits.
THEOREM DigitsAreRight ==
  ASSUME NEW n \in Nat, n < 65536
  PROVE  IsDecimal(ToBCD(n)) /\ Value(ToBCD(n)) = n
<1> DEFINE Iteration(b, i) == LET s == Shift(b, n, i) IN IF i < 15 THEN AddThree(s) ELSE s
           IsBcd(f) == f = [i \in -1..15 |-> IF i = -1 THEN <<0, 0, 0, 0, 0>>
                                                     ELSE Iteration(f[i - 1], i)]
           digits(i) == Digits(Prefix(n, i))
           direct == [i \in -1..15 |-> IF i < 15 THEN AddThree(digits(i)) ELSE digits(i)]
<1>1. digits(-1) = <<0, 0, 0, 0, 0>> /\ AddThree(digits(-1)) = <<0, 0, 0, 0, 0>>
  BY SMT DEF Digits, Prefix, AddThree, Adjust
<1>2. ASSUME NEW i \in 0..15
      PROVE  Shift(AddThree(digits(i - 1)), n, i) = digits(i)
  <2>1. /\ Prefix(n, i) \in Nat
        /\ Prefix(n, i - 1) \in Nat /\ Prefix(n, i - 1) < 50000
        /\ BinaryBit(n, i) \in {0, 1}
        /\ Prefix(n, i) = 2 * Prefix(n, i - 1) + BinaryBit(n, i)
    BY PrefixGrows
  <2>2. Says(digits(i - 1), Prefix(n, i - 1))
    BY <2>1, DigitsSay, SMT
  <2> HIDE DEF digits
  <2>3. ReadyToShift(AddThree(digits(i - 1)), Prefix(n, i - 1))
    BY <2>2 DEF ReadyToShift
  <2>4. Says(Shift(AddThree(digits(i - 1)), n, i), Prefix(n, i))
    BY <2>1, <2>3, IterationDoubles
  <2> QED
    BY <2>1, <2>4, DigitsAreUnique DEF digits
<1> HIDE DEF digits
<1>3. IsBcd(direct)
  <2>1. ASSUME NEW i \in 0..15
        PROVE  direct[i] = Iteration(direct[i - 1], i)
    <3>1. i - 1 \in -1..15 /\ i - 1 < 15 /\ i \in -1..15
      BY SMT
    <3>2. direct[i - 1] = AddThree(digits(i - 1))
      BY <3>1, SMT
    <3>3. direct[i] = IF i < 15 THEN AddThree(digits(i)) ELSE digits(i)
      BY <3>1, SMT
    <3> QED
      BY <3>2, <3>3, <1>2
  <2>2. direct[-1] = <<0, 0, 0, 0, 0>>
    BY <1>1, SMT
  <2> HIDE DEF Iteration
  <2>3. ASSUME NEW i \in -1..15
        PROVE  direct[i] = IF i = -1 THEN <<0, 0, 0, 0, 0>> ELSE Iteration(direct[i - 1], i)
    <3>1. i = -1 \/ i \in 0..15
      BY SMT
    <3> HIDE DEF direct
    <3> QED
      BY <2>1, <2>2, <3>1, SMT
  <2> QED
    BY <2>3, SMT
<1>4. ASSUME NEW f, IsBcd(f)
      PROVE  f[15] = digits(15)
  <2>1. f[-1] = <<0, 0, 0, 0, 0>>
    BY <1>4
  <2>2. ASSUME NEW i \in 0..14, f[i - 1] = AddThree(digits(i - 1))
        PROVE  f[i] = AddThree(digits(i))
    <3>1. i \in -1..15 /\ i # -1 /\ i \in 0..15 /\ i < 15
      BY SMT
    <3>2. f[i] = Iteration(f[i - 1], i)
      <4> HIDE DEF Iteration
      <4> QED
        BY <1>4, <3>1, SMT
    <3> QED
      BY <1>2, <2>2, <3>1, <3>2
  <2>3. f[-1] = AddThree(digits(-1))
    BY <1>1, <2>1
  <2> HIDE DEF IsBcd
  <2>4. f[0] = AddThree(digits(0))
    BY <2>3, <2>2, SMT
  <2>5. f[1] = AddThree(digits(1))
    BY <2>4, <2>2, SMT
  <2>6. f[2] = AddThree(digits(2))
    BY <2>5, <2>2, SMT
  <2>7. f[3] = AddThree(digits(3))
    BY <2>6, <2>2, SMT
  <2>8. f[4] = AddThree(digits(4))
    BY <2>7, <2>2, SMT
  <2>9. f[5] = AddThree(digits(5))
    BY <2>8, <2>2, SMT
  <2>10. f[6] = AddThree(digits(6))
    BY <2>9, <2>2, SMT
  <2>11. f[7] = AddThree(digits(7))
    BY <2>10, <2>2, SMT
  <2>12. f[8] = AddThree(digits(8))
    BY <2>11, <2>2, SMT
  <2>13. f[9] = AddThree(digits(9))
    BY <2>12, <2>2, SMT
  <2>14. f[10] = AddThree(digits(10))
    BY <2>13, <2>2, SMT
  <2>15. f[11] = AddThree(digits(11))
    BY <2>14, <2>2, SMT
  <2>16. f[12] = AddThree(digits(12))
    BY <2>15, <2>2, SMT
  <2>17. f[13] = AddThree(digits(13))
    BY <2>16, <2>2, SMT
  <2>18. f[14] = AddThree(digits(14))
    BY <2>17, <2>2, SMT
  <2>19. f[15] = Iteration(f[14], 15)
    BY <1>4, SMT DEF IsBcd
  <2>20. Shift(AddThree(digits(14)), n, 15) = digits(15)
    BY <1>2, SMT
  <2> QED
    BY <2>18, <2>19, <2>20
<1>5. ToBCD(n) = (CHOOSE f : IsBcd(f))[15]
  BY DEF ToBCD
<1>6. IsBcd(CHOOSE f : IsBcd(f))
  <2> HIDE DEF IsBcd
  <2> QED
    BY <1>3, SMT
<1>7. ToBCD(n) = Digits(Prefix(n, 15))
  <2> HIDE DEF IsBcd
  <2> QED
    BY <1>4, <1>5, <1>6 DEF digits
<1>8. Prefix(n, 15) = n
  BY SMT DEF Prefix, BitWorth
<1> QED
  BY <1>7, <1>8, DigitsSay DEF Says
-----------------------------------------------------------------------------
(* The frequency.                                                          *)

\* What was registered at the last edge is the quotient of what is still there.
FrequencyInv ==
  /\ Right_Time_Cursor \in TimePlaces /\ Left_Time_Cursor \in TimePlaces
  /\ TimeScale_Counter \in 0..5
  /\ steady => CH1_Binary \in Quotient(Samples)

\* 23 samples are enough for a quotient of sixteen bits.
LEMMA QuotientFits ==
  ASSUME NEW n \in Nat, n >= 23
  PROVE  /\ SampleRate \div n \in Nat /\ SampleRate \div n < 65536
         /\ Quotient(n) = {SampleRate \div n}
<1> DEFINE q == SampleRate \div n
           r == SampleRate % n
<1>1. SampleRate = 1474560
  BY SMT DEF SampleRate
<1>2. q \in Int /\ r \in 0..(n - 1) /\ SampleRate = n * q + r
  BY <1>1, SMT
<1> HIDE DEF q, r
<1>3. q >= 0
  <2>1. CASE q <= -1
    <3>1. n * q <= -n
      BY <1>2, <2>1, SMT
    <3> QED
      BY <1>1, <1>2, <3>1, SMT
  <2> QED
    BY <1>2, <2>1, SMT
<1>4. q < 65536
  <2>1. CASE q >= 65536
    <3>1. n * q >= 23 * q
      BY <1>2, <2>1, SMT
    <3> QED
      BY <1>1, <1>2, <2>1, <3>1, SMT
  <2> QED
    BY <1>2, <2>1, SMT
<1>5. q % 65536 = q
  BY <1>2, <1>3, <1>4, SMT
<1> QED
  BY <1>2, <1>3, <1>4, <1>5, SMT DEF Quotient, q

LEMMA SamplesAreCounted ==
  ASSUME FrequencyInv
  PROVE  Samples \in Nat
<1>1. TimeScale \in Nat
  BY SMT DEF FrequencyInv, TimeScale
<1>2. Distance(Right_Time_Cursor, Left_Time_Cursor) \in Nat
  BY TimeAssumption, SMT DEF FrequencyInv, Distance
<1> HIDE DEF TimeScale, Distance
<1> QED
  BY <1>1, <1>2, SMT DEF Samples

\* The frequency drawn is that between the cursors, wherever they are and
\* whatever the scale, once they have stood still for an edge, if the quotient
\* fits its register.
THEOREM FrequencyIsDrawn == MeasurementsSpec => []FrequencyIsShown
<1>1. MeasurementsInit => FrequencyInv
  BY SMT DEF MeasurementsInit, FrequencyInit, FrequencyInv
<1>2. FrequencyInv /\ [MeasurementsNext]_measurementVars => FrequencyInv'
  <2> SUFFICES ASSUME FrequencyInv, [MeasurementsNext]_measurementVars
               PROVE  FrequencyInv'
    OBVIOUS
  <2>1. CASE FrequencyEdge
    <3>1. /\ Right_Time_Cursor' \in TimePlaces /\ Left_Time_Cursor' \in TimePlaces
          /\ TimeScale_Counter' \in 0..5
      BY <2>1 DEF FrequencyEdge, TimeInputs, TimeNear, FrequencyInv
    <3>2. ASSUME steady'
          PROVE  CH1_Binary' \in Quotient(Samples')
      <4>1. UNCHANGED <<Right_Time_Cursor, Left_Time_Cursor, TimeScale_Counter>>
        BY <2>1, <3>2, Zenon DEF FrequencyEdge
      <4>2. Samples' = Samples
        BY <4>1 DEF Samples, TimeScale, Distance
      <4> QED
        BY <2>1, <4>2, Zenon DEF FrequencyEdge, Measure
    <3> QED
      BY <3>1, <3>2, Zenon DEF FrequencyInv
  <2>2. CASE UNCHANGED frequencyVars
    BY <2>2 DEF frequencyVars, FrequencyInv, Samples, TimeScale, Distance
  <2> QED
    BY <2>1, <2>2, Zenon DEF MeasurementsNext, measurementVars
<1>3. FrequencyInv => FrequencyIsShown
  <2> SUFFICES ASSUME FrequencyInv, steady, Samples >= 23
               PROVE  IsDecimal(ToBCD(CH1_Binary))
                        /\ Value(ToBCD(CH1_Binary)) = SampleRate \div Samples
    BY Zenon DEF FrequencyIsShown
  <2>1. Samples \in Nat
    BY SamplesAreCounted
  <2>2. CH1_Binary \in Quotient(Samples)
    BY DEF FrequencyInv
  <2> HIDE DEF Samples, SampleRate, Quotient
  <2>3. CH1_Binary \in Nat /\ CH1_Binary < 65536 /\ CH1_Binary = SampleRate \div Samples
    BY <2>1, <2>2, QuotientFits, SMT
  <2> QED
    BY <2>3, DigitsAreRight, SMT
<1> QED
  BY <1>1, <1>2, <1>3, PTL DEF MeasurementsSpec
-----------------------------------------------------------------------------
(* What is drawn between the amplitude cursors.                            *)

LEMMA Weights ==
  /\ Weight(0) = 1 /\ Weight(1) = 2 /\ Weight(2) = 4 /\ Weight(3) = 8 /\ Weight(4) = 16
  /\ Weight(5) = 32 /\ Weight(6) = 64 /\ Weight(7) = 128 /\ Weight(8) = 256
  /\ Weight(9) = 512 /\ Weight(10) = 1024 /\ Weight(11) = 2048 /\ Weight(12) = 4096
  /\ Weight(13) = 8192 /\ Weight(14) = 16384 /\ Weight(15) = 32768 /\ Weight(16) = 65536
  /\ Weight(17) = 131072 /\ Weight(18) = 262144 /\ Weight(19) = 524288
  /\ Weight(20) = 1048576 /\ Weight(21) = 2097152 /\ Weight(22) = 4194304
  /\ Weight(23) = 8388608 /\ Weight(24) = 16777216 /\ Weight(25) = 33554432
  /\ Weight(26) = 67108864 /\ Weight(27) = 134217728 /\ Weight(28) = 268435456
  /\ Weight(29) = 536870912 /\ Weight(30) = 1073741824 /\ Weight(31) = 2147483648
BY SMT DEF Weight

\* The place of the first bit, of any distance at any scale.
LEMMA FirstBit ==
  ASSUME NEW n \in Nat, 0 < n, n < 262144
  PROVE  Log2(n) \in 0..17 /\ Weight(Log2(n)) <= n /\ n < Weight(Log2(n) + 1)
<1> DEFINE First(x) == Weight(x) <= n /\ n < Weight(x + 1)
<1>1. \E x \in 0..30 : First(x)
  <2>1. \/ First(0) \/ First(1) \/ First(2) \/ First(3) \/ First(4) \/ First(5) \/ First(6)
        \/ First(7) \/ First(8) \/ First(9) \/ First(10) \/ First(11) \/ First(12)
        \/ First(13) \/ First(14) \/ First(15) \/ First(16) \/ First(17)
    BY Weights, SMT
  <2> QED
    BY <2>1, SMT
<1>2. Log2(n) \in 0..30 /\ First(Log2(n))
  BY <1>1, SMT DEF Log2
<1>3. ASSUME NEW x \in 18..30, Weight(x) <= n PROVE FALSE
  BY <1>3, Weights, SMT
<1> QED
  BY <1>2, <1>3, SMT

LEMMA Eighths ==
  ASSUME NEW r \in Nat, r < 2048
  PROVE  r \div 8 \in 0..255 /\ 8 * (r \div 8) <= r /\ r < 8 * (r \div 8) + 8
<1>1. PICK b \in Int : b = r \div 8 /\ 8 * b <= r /\ r < 8 * b + 8
  BY SMT
<1> QED
  BY <1>1, SMT

\* From one volt on the eight bits are the 256ths, wherever the first bit is.
LEMMA BitsFromOne ==
  ASSUME NEW n \in Nat, 2048 <= n, n < 262144, NEW end \in Int,
         Exponent(n) > 127 => end = 150 - Exponent(n)
  PROVE  Exponent(n) >= 127 /\ Extracted(n, end) = (n % 2048) \div 8
<1>1. Log2(n) \in 0..17 /\ Weight(Log2(n)) <= n /\ n < Weight(Log2(n) + 1)
  BY FirstBit, SMT
<1>2. PICK q \in Nat, r \in 0..2047 : q = n \div 2048 /\ r = n % 2048
  BY SMT
<1>3. PICK b \in 0..255 : b = r \div 8 /\ 8 * b <= r /\ r < 8 * b + 8
  BY Eighths, SMT
<1>4. PICK s \in 0..7 : r = 8 * b + s
  BY <1>3, SMT
<1>5. n = 2048 * q + 8 * b + s /\ (n % 2048) \div 8 = b
  BY <1>2, <1>3, <1>4, SMT
<1>6. Log2(n) \in 11..17
  BY <1>1, Weights, SMT
<1>7. CASE Log2(n) = 11
  <2>1. Exponent(n) = 127
    BY <1>7, SMT DEF Exponent
  <2>2. Result(n) = 32768 * (126 * 256 + 256 * q + b) + 4096 * s
    BY <1>5, <1>7, <2>1, Weights, SMT DEF Result
  <2>3. Result(n) \div 32768 = 126 * 256 + 256 * q + b
    BY <2>2, SMT
  <2>4. Extracted(n, end) = (Result(n) \div 32768) % 256
    BY <2>1, SMT DEF Extracted
  <2> QED
    BY <1>5, <2>1, <2>3, <2>4, SMT
<1>8. CASE Log2(n) = 12
  <2>1. Exponent(n) = 128
    BY <1>8, SMT DEF Exponent
  <2>2. Result(n) = 16384 * (127 * 512 + 256 * q + b) + 2048 * s
    BY <1>5, <1>8, <2>1, Weights, SMT DEF Result
  <2>3. Result(n) \div 16384 = 127 * 512 + 256 * q + b
    BY <2>2, SMT
  <2>4. end = 22 /\ Weight(StartBit(128) - 1) = 16384 /\ Weight(end - StartBit(128) + 1) = 256
    BY <2>1, Weights, SMT DEF StartBit
  <2>5. Extracted(n, end) = (Result(n) \div 16384) % 256
    BY <2>1, <2>4, SMT DEF Extracted
  <2> QED
    BY <1>5, <2>1, <2>3, <2>5, SMT
<1>9. CASE Log2(n) = 13
  <2>1. Exponent(n) = 129
    BY <1>9, SMT DEF Exponent
  <2>2. Result(n) = 8192 * (128 * 1024 + 256 * q + b) + 1024 * s
    BY <1>5, <1>9, <2>1, Weights, SMT DEF Result
  <2>3. Result(n) \div 8192 = 128 * 1024 + 256 * q + b
    BY <2>2, SMT
  <2>4. end = 21 /\ Weight(StartBit(129) - 1) = 8192 /\ Weight(end - StartBit(129) + 1) = 256
    BY <2>1, Weights, SMT DEF StartBit
  <2>5. Extracted(n, end) = (Result(n) \div 8192) % 256
    BY <2>1, <2>4, SMT DEF Extracted
  <2> QED
    BY <1>5, <2>1, <2>3, <2>5, SMT
<1>10. CASE Log2(n) = 14
  <2>1. Exponent(n) = 130
    BY <1>10, SMT DEF Exponent
  <2>2. Result(n) = 4096 * (129 * 2048 + 256 * q + b) + 512 * s
    BY <1>5, <1>10, <2>1, Weights, SMT DEF Result
  <2>3. Result(n) \div 4096 = 129 * 2048 + 256 * q + b
    BY <2>2, SMT
  <2>4. end = 20 /\ Weight(StartBit(130) - 1) = 4096 /\ Weight(end - StartBit(130) + 1) = 256
    BY <2>1, Weights, SMT DEF StartBit
  <2>5. Extracted(n, end) = (Result(n) \div 4096) % 256
    BY <2>1, <2>4, SMT DEF Extracted
  <2> QED
    BY <1>5, <2>1, <2>3, <2>5, SMT
<1>11. CASE Log2(n) = 15
  <2>1. Exponent(n) = 131
    BY <1>11, SMT DEF Exponent
  <2>2. Result(n) = 2048 * (130 * 4096 + 256 * q + b) + 256 * s
    BY <1>5, <1>11, <2>1, Weights, SMT DEF Result
  <2>3. Result(n) \div 2048 = 130 * 4096 + 256 * q + b
    BY <2>2, SMT
  <2>4. end = 19 /\ Weight(StartBit(131) - 1) = 2048 /\ Weight(end - StartBit(131) + 1) = 256
    BY <2>1, Weights, SMT DEF StartBit
  <2>5. Extracted(n, end) = (Result(n) \div 2048) % 256
    BY <2>1, <2>4, SMT DEF Extracted
  <2> QED
    BY <1>5, <2>1, <2>3, <2>5, SMT
<1>12. CASE Log2(n) = 16
  <2>1. Exponent(n) = 132
    BY <1>12, SMT DEF Exponent
  <2>2. Result(n) = 1024 * (131 * 8192 + 256 * q + b) + 128 * s
    BY <1>5, <1>12, <2>1, Weights, SMT DEF Result
  <2>3. Result(n) \div 1024 = 131 * 8192 + 256 * q + b
    BY <2>2, SMT
  <2>4. end = 18 /\ Weight(StartBit(132) - 1) = 1024 /\ Weight(end - StartBit(132) + 1) = 256
    BY <2>1, Weights, SMT DEF StartBit
  <2>5. Extracted(n, end) = (Result(n) \div 1024) % 256
    BY <2>1, <2>4, SMT DEF Extracted
  <2> QED
    BY <1>5, <2>1, <2>3, <2>5, SMT
<1>13. CASE Log2(n) = 17
  <2>1. Exponent(n) = 133
    BY <1>13, SMT DEF Exponent
  <2>2. Result(n) = 512 * (132 * 16384 + 256 * q + b) + 64 * s
    BY <1>5, <1>13, <2>1, Weights, SMT DEF Result
  <2>3. Result(n) \div 512 = 132 * 16384 + 256 * q + b
    BY <2>2, SMT
  <2>4. end = 17 /\ Weight(StartBit(133) - 1) = 512 /\ Weight(end - StartBit(133) + 1) = 256
    BY <2>1, Weights, SMT DEF StartBit
  <2>5. Extracted(n, end) = (Result(n) \div 512) % 256
    BY <2>1, <2>4, SMT DEF Extracted
  <2> QED
    BY <1>5, <2>1, <2>3, <2>5, SMT
<1> QED
  BY <1>6, <1>7, <1>8, <1>9, <1>10, <1>11, <1>12, <1>13, SMT

\* Below one volt they are the first bit's place and the four bits after it.
LEMMA BitsBelowOne ==
  ASSUME NEW n \in Nat, 0 < n, n < 2048, NEW end, NEW d, d = Decimals(Exponent(n), Extracted(n, end))
  PROVE  /\ Exponent(n) < 127 /\ d \in Nat /\ (n > 1024 => d >= 50)
         /\ 32768 * d <= 1600 * n + 16384 /\ 1500 * n <= 32768 * d + 16384
<1>1. Log2(n) \in 0..17 /\ Weight(Log2(n)) <= n /\ n < Weight(Log2(n) + 1)
  BY FirstBit, SMT
<1>2. Log2(n) \in 0..10
  BY <1>1, Weights, SMT
<1>3. CASE Log2(n) = 0
  <2>1. Exponent(n) = 116 /\ 1 <= n /\ n < 2
    BY <1>1, <1>3, Weights, SMT DEF Exponent
  <2>2. Result(n) = 116 * 8388608 + 8388608 * (n - 1)
    BY <1>3, <2>1, Weights, SMT DEF Result
  <2>3. PICK m \in 0..15 : m = (n - 1) * 16
    BY <2>1, SMT
  <2>4. Result(n) \div 524288 = 1856 + m
    BY <2>1, <2>2, <2>3, SMT
  <2>5. Extracted(n, end) = (Result(n) \div 524288) % 256
    BY <2>1, SMT DEF Extracted
  <2>6. Extracted(n, end) = 64 + m
    BY <2>4, <2>5, SMT
  <2>7. d = (100 * (16 + m) * 16 + 262144) \div 524288
    BY <2>1, <2>6, Weights, SMT DEF Decimals
  <2> QED
    BY <2>1, <2>3, <2>7, SMT
<1>4. CASE Log2(n) = 1
  <2>1. Exponent(n) = 117 /\ 2 <= n /\ n < 4
    BY <1>1, <1>4, Weights, SMT DEF Exponent
  <2>2. Result(n) = 117 * 8388608 + 4194304 * (n - 2)
    BY <1>4, <2>1, Weights, SMT DEF Result
  <2>3. PICK m \in 0..15 : m = (n - 2) * 8
    BY <2>1, SMT
  <2>4. Result(n) \div 524288 = 1872 + m
    BY <2>1, <2>2, <2>3, SMT
  <2>5. Extracted(n, end) = (Result(n) \div 524288) % 256
    BY <2>1, SMT DEF Extracted
  <2>6. Extracted(n, end) = 80 + m
    BY <2>4, <2>5, SMT
  <2>7. d = (100 * (16 + m) * 32 + 262144) \div 524288
    BY <2>1, <2>6, Weights, SMT DEF Decimals
  <2> QED
    BY <2>1, <2>3, <2>7, SMT
<1>5. CASE Log2(n) = 2
  <2>1. Exponent(n) = 118 /\ 4 <= n /\ n < 8
    BY <1>1, <1>5, Weights, SMT DEF Exponent
  <2>2. Result(n) = 118 * 8388608 + 2097152 * (n - 4)
    BY <1>5, <2>1, Weights, SMT DEF Result
  <2>3. PICK m \in 0..15 : m = (n - 4) * 4
    BY <2>1, SMT
  <2>4. Result(n) \div 524288 = 1888 + m
    BY <2>1, <2>2, <2>3, SMT
  <2>5. Extracted(n, end) = (Result(n) \div 524288) % 256
    BY <2>1, SMT DEF Extracted
  <2>6. Extracted(n, end) = 96 + m
    BY <2>4, <2>5, SMT
  <2>7. d = (100 * (16 + m) * 64 + 262144) \div 524288
    BY <2>1, <2>6, Weights, SMT DEF Decimals
  <2> QED
    BY <2>1, <2>3, <2>7, SMT
<1>6. CASE Log2(n) = 3
  <2>1. Exponent(n) = 119 /\ 8 <= n /\ n < 16
    BY <1>1, <1>6, Weights, SMT DEF Exponent
  <2>2. Result(n) = 119 * 8388608 + 1048576 * (n - 8)
    BY <1>6, <2>1, Weights, SMT DEF Result
  <2>3. PICK m \in 0..15 : m = (n - 8) * 2
    BY <2>1, SMT
  <2>4. Result(n) \div 524288 = 1904 + m
    BY <2>1, <2>2, <2>3, SMT
  <2>5. Extracted(n, end) = (Result(n) \div 524288) % 256
    BY <2>1, SMT DEF Extracted
  <2>6. Extracted(n, end) = 112 + m
    BY <2>4, <2>5, SMT
  <2>7. d = (100 * (16 + m) * 128 + 262144) \div 524288
    BY <2>1, <2>6, Weights, SMT DEF Decimals
  <2> QED
    BY <2>1, <2>3, <2>7, SMT
<1>7. CASE Log2(n) = 4
  <2>1. Exponent(n) = 120 /\ 16 <= n /\ n < 32
    BY <1>1, <1>7, Weights, SMT DEF Exponent
  <2>2. Result(n) = 120 * 8388608 + 524288 * (n - 16)
    BY <1>7, <2>1, Weights, SMT DEF Result
  <2>3. PICK m \in 0..15 : m = (n - 16) * 1
    BY <2>1, SMT
  <2>4. Result(n) \div 524288 = 1920 + m
    BY <2>1, <2>2, <2>3, SMT
  <2>5. Extracted(n, end) = (Result(n) \div 524288) % 256
    BY <2>1, SMT DEF Extracted
  <2>6. Extracted(n, end) = 128 + m
    BY <2>4, <2>5, SMT
  <2>7. d = (100 * (16 + m) * 256 + 262144) \div 524288
    BY <2>1, <2>6, Weights, SMT DEF Decimals
  <2> QED
    BY <2>1, <2>3, <2>7, SMT
<1>8. CASE Log2(n) = 5
  <2>1. Exponent(n) = 121 /\ 32 <= n /\ n < 64
    BY <1>1, <1>8, Weights, SMT DEF Exponent
  <2>2. Result(n) = 121 * 8388608 + 262144 * (n - 32)
    BY <1>8, <2>1, Weights, SMT DEF Result
  <2>3. PICK m \in 0..15 : m = (n - 32) \div 2
    BY <2>1, SMT
  <2>4. Result(n) \div 524288 = 1936 + m
    BY <2>1, <2>2, <2>3, SMT
  <2>5. Extracted(n, end) = (Result(n) \div 524288) % 256
    BY <2>1, SMT DEF Extracted
  <2>6. Extracted(n, end) = 144 + m
    BY <2>4, <2>5, SMT
  <2>7. d = (100 * (16 + m) * 512 + 262144) \div 524288
    BY <2>1, <2>6, Weights, SMT DEF Decimals
  <2> QED
    BY <2>1, <2>3, <2>7, SMT
<1>9. CASE Log2(n) = 6
  <2>1. Exponent(n) = 122 /\ 64 <= n /\ n < 128
    BY <1>1, <1>9, Weights, SMT DEF Exponent
  <2>2. Result(n) = 122 * 8388608 + 131072 * (n - 64)
    BY <1>9, <2>1, Weights, SMT DEF Result
  <2>3. PICK m \in 0..15 : m = (n - 64) \div 4
    BY <2>1, SMT
  <2>4. Result(n) \div 524288 = 1952 + m
    BY <2>1, <2>2, <2>3, SMT
  <2>5. Extracted(n, end) = (Result(n) \div 524288) % 256
    BY <2>1, SMT DEF Extracted
  <2>6. Extracted(n, end) = 160 + m
    BY <2>4, <2>5, SMT
  <2>7. d = (100 * (16 + m) * 1024 + 262144) \div 524288
    BY <2>1, <2>6, Weights, SMT DEF Decimals
  <2> QED
    BY <2>1, <2>3, <2>7, SMT
<1>10. CASE Log2(n) = 7
  <2>1. Exponent(n) = 123 /\ 128 <= n /\ n < 256
    BY <1>1, <1>10, Weights, SMT DEF Exponent
  <2>2. Result(n) = 123 * 8388608 + 65536 * (n - 128)
    BY <1>10, <2>1, Weights, SMT DEF Result
  <2>3. PICK m \in 0..15 : m = (n - 128) \div 8
    BY <2>1, SMT
  <2>4. Result(n) \div 524288 = 1968 + m
    BY <2>1, <2>2, <2>3, SMT
  <2>5. Extracted(n, end) = (Result(n) \div 524288) % 256
    BY <2>1, SMT DEF Extracted
  <2>6. Extracted(n, end) = 176 + m
    BY <2>4, <2>5, SMT
  <2>7. d = (100 * (16 + m) * 2048 + 262144) \div 524288
    BY <2>1, <2>6, Weights, SMT DEF Decimals
  <2> QED
    BY <2>1, <2>3, <2>7, SMT
<1>11. CASE Log2(n) = 8
  <2>1. Exponent(n) = 124 /\ 256 <= n /\ n < 512
    BY <1>1, <1>11, Weights, SMT DEF Exponent
  <2>2. Result(n) = 124 * 8388608 + 32768 * (n - 256)
    BY <1>11, <2>1, Weights, SMT DEF Result
  <2>3. PICK m \in 0..15 : m = (n - 256) \div 16
    BY <2>1, SMT
  <2>4. Result(n) \div 524288 = 1984 + m
    BY <2>1, <2>2, <2>3, SMT
  <2>5. Extracted(n, end) = (Result(n) \div 524288) % 256
    BY <2>1, SMT DEF Extracted
  <2>6. Extracted(n, end) = 192 + m
    BY <2>4, <2>5, SMT
  <2>7. d = (100 * (16 + m) * 4096 + 262144) \div 524288
    BY <2>1, <2>6, Weights, SMT DEF Decimals
  <2> QED
    BY <2>1, <2>3, <2>7, SMT
<1>12. CASE Log2(n) = 9
  <2>1. Exponent(n) = 125 /\ 512 <= n /\ n < 1024
    BY <1>1, <1>12, Weights, SMT DEF Exponent
  <2>2. Result(n) = 125 * 8388608 + 16384 * (n - 512)
    BY <1>12, <2>1, Weights, SMT DEF Result
  <2>3. PICK m \in 0..15 : m = (n - 512) \div 32
    BY <2>1, SMT
  <2>4. Result(n) \div 524288 = 2000 + m
    BY <2>1, <2>2, <2>3, SMT
  <2>5. Extracted(n, end) = (Result(n) \div 524288) % 256
    BY <2>1, SMT DEF Extracted
  <2>6. Extracted(n, end) = 208 + m
    BY <2>4, <2>5, SMT
  <2>7. d = (100 * (16 + m) * 8192 + 262144) \div 524288
    BY <2>1, <2>6, Weights, SMT DEF Decimals
  <2> QED
    BY <2>1, <2>3, <2>7, SMT
<1>13. CASE Log2(n) = 10
  <2>1. Exponent(n) = 126 /\ 1024 <= n /\ n < 2048
    BY <1>1, <1>13, Weights, SMT DEF Exponent
  <2>2. Result(n) = 126 * 8388608 + 8192 * (n - 1024)
    BY <1>13, <2>1, Weights, SMT DEF Result
  <2>3. PICK m \in 0..15 : m = (n - 1024) \div 64
    BY <2>1, SMT
  <2>4. Result(n) \div 524288 = 2016 + m
    BY <2>1, <2>2, <2>3, SMT
  <2>5. Extracted(n, end) = (Result(n) \div 524288) % 256
    BY <2>1, SMT DEF Extracted
  <2>6. Extracted(n, end) = 224 + m
    BY <2>4, <2>5, SMT
  <2>7. d = (100 * (16 + m) * 16384 + 262144) \div 524288
    BY <2>1, <2>6, Weights, SMT DEF Decimals
  <2> QED
    BY <2>1, <2>3, <2>7, SMT
<1> QED
  BY <1>2, <1>3, <1>4, <1>5, <1>6, <1>7, <1>8, <1>9, <1>10, <1>11, <1>12, <1>13, SMT

\* The integer, from the converter's rounding and the decimals: it is the number
\* of whole volts, or one more where the table has no decimals for the rest.
LEMMA IntegerFromOne ==
  ASSUME NEW n \in Nat, 2048 <= n, ~AtTheHalf(n), NEW b, b = (n % 2048) \div 8,
         NEW d \in Nat, b <= 254 => d = (100 * b + 128) \div 256, ~(b <= 254) => d = 0
  PROVE  IntegerResult(n, d) = IF b <= 254 THEN n \div 2048 ELSE n \div 2048 + 1
<1>1. PICK q \in Nat, r \in 0..2047 : q = n \div 2048 /\ r = n % 2048
  BY SMT
<1>2. n \div 2048 = q /\ n % 2048 = r /\ n = 2048 * q + r /\ q > 0 /\ b = r \div 8
  BY <1>1, SMT
<1>3. NearestEven(n) = IF r > 1024 \/ (r = 1024 /\ q % 2 = 1) THEN q + 1 ELSE q
  BY <1>2, SMT DEF NearestEven
<1>4. ~(r \in 1016..1023) /\ ~(r = 1024 /\ q % 2 = 0)
  BY <1>2, SMT DEF AtTheHalf
<1>5. CASE r < 1016
  <2>1. b <= 126 /\ d < 50
    BY <1>2, <1>5, SMT
  <2> QED
    BY <1>2, <1>3, <1>5, <2>1, SMT DEF IntegerResult
<1>6. CASE 1024 <= r /\ r < 2040
  <2>1. b <= 254 /\ 128 <= b
    BY <1>2, <1>6, SMT
  <2>2. d >= 50
    BY <2>1, SMT
  <2>3. NearestEven(n) = q + 1
    BY <1>3, <1>4, <1>6, SMT
  <2> QED
    BY <1>2, <2>1, <2>2, <2>3, SMT DEF IntegerResult
<1>7. CASE 2040 <= r
  <2>1. b = 255 /\ d = 0
    BY <1>2, <1>7, SMT
  <2> QED
    BY <1>2, <1>3, <1>7, <2>1, SMT DEF IntegerResult
<1> QED
  BY <1>2, <1>4, <1>5, <1>6, <1>7, SMT

\* Both ways together, for every value below 99 volts.
LEMMA HundredthsOfAVolt ==
  ASSUME NEW n \in Nat, n < 202752, ~AtTheHalf(n),
         NEW end \in Int, Exponent(n) > 127 => end = 150 - Exponent(n),
         NEW d, d = Decimals(Exponent(n), Extracted(n, end)),
         NEW v, v = Value(ToBCD(IntegerResult(n, d))) % 100
  PROVE  /\ d \in Nat /\ v \in Nat
         /\ n >= 2048 => LET e == 2048 * (100 * v + d) - 100 * n IN -2048 <= e /\ e <= 2048
         /\ n < 2048 => /\ 2048 * (100 * v + d) - 100 * n <= (100 * n) \div 16 + 2048
                        /\ 100 * n - 2048 * (100 * v + d) <= (100 * n) \div 16 + 2048
<1>1. ASSUME NEW i \in 0..99, IntegerResult(n, d) = i
      PROVE  v = i
  BY <1>1, DigitsAreRight, SMT
<1>2. CASE n >= 2048
  <2>1. PICK q \in Nat, r \in 0..2047 : q = n \div 2048 /\ r = n % 2048
    BY SMT
  <2>2. n = 2048 * q + r /\ 0 < q /\ q < 99
    BY <1>2, <2>1, SMT
  <2>3. PICK b \in 0..255 : b = r \div 8
    BY Eighths, SMT
  <2>4. Exponent(n) >= 127 /\ Extracted(n, end) = b
    BY <1>2, <2>1, <2>3, BitsFromOne, SMT
  <2>5. /\ b <= 254 => d = (100 * b + 128) \div 256
        /\ ~(b <= 254) => d = 0
    BY <2>4, SMT DEF Decimals
  <2>6. d \in Nat
    BY <2>3, <2>5, SMT
  <2>7. IntegerResult(n, d) = IF b <= 254 THEN q ELSE q + 1
    BY <1>2, <2>1, <2>3, <2>5, <2>6, IntegerFromOne, SMT
  <2>8. CASE b <= 254
    <3>1. v = q
      BY <1>1, <2>2, <2>7, <2>8, SMT
    <3> QED
      BY <1>2, <2>2, <2>3, <2>5, <2>6, <2>8, <3>1, SMT
  <2>9. CASE ~(b <= 254)
    <3>1. r >= 2040 /\ d = 0
      BY <2>3, <2>5, <2>9, SMT
    <3>2. v = q + 1
      BY <1>1, <2>2, <2>7, <2>9, SMT
    <3> QED
      BY <1>2, <2>2, <2>6, <3>1, <3>2, SMT
  <2> QED
    BY <2>8, <2>9
<1>3. CASE 0 < n /\ n < 2048
  <2>1. /\ Exponent(n) < 127 /\ d \in Nat /\ (n > 1024 => d >= 50)
        /\ 32768 * d <= 1600 * n + 16384 /\ 1500 * n <= 32768 * d + 16384
    BY <1>3, BitsBelowOne, SMT
  <2>2. NearestEven(n) = IF n > 1024 THEN 1 ELSE 0
    BY <1>3, SMT DEF NearestEven
  <2>3. IntegerResult(n, d) = 0
    BY <1>3, <2>1, <2>2, SMT DEF IntegerResult
  <2>4. v = 0
    BY <1>1, <2>3, SMT
  <2> QED
    BY <1>3, <2>1, <2>4, SMT
<1>4. CASE n = 0
  <2>1. Exponent(n) = 0 /\ Extracted(n, end) = 0
    BY <1>4, SMT DEF Exponent, Extracted, Result
  <2>2. d = 0
    BY <2>1, Weights, SMT DEF Decimals
  <2>3. IntegerResult(n, d) = 0
    BY <1>4, <2>2, SMT DEF IntegerResult, NearestEven
  <2>4. v = 0
    BY <1>1, <2>3, SMT
  <2> QED
    BY <1>4, <2>2, <2>4, SMT
<1> QED
  BY <1>2, <1>3, <1>4, SMT

\* Once a cursor has moved after the last throw, the end of the bits is right.
AmplitudeInv ==
  /\ Up_Amplitude_Cursor \in AmplitudePlaces /\ Down_Amplitude_Cursor \in AmplitudePlaces
  /\ Amplitude_Binary \in 0..7 /\ EndBit \in Int /\ rescaled \in BOOLEAN
  /\ LET e == Exponent(Numerator(Up_Amplitude_Cursor, Down_Amplitude_Cursor, Amplitude_Binary))
     IN  ~rescaled /\ e > 127 => EndBit = 150 - e

\* The scaled distance, as it would be and as it is in the register.
LEMMA ScaledDistance ==
  ASSUME NEW up \in AmplitudePlaces, NEW down \in AmplitudePlaces, NEW binary \in 0..7
  PROVE  LET n == Numerator(up, down, binary)
         IN  /\ n \in Nat /\ n < 202752
             /\ binary # 7 => n = Weight(binary) * Gap(up, down) * 10
<1>1. up \in 12..229 /\ down \in 12..229
  BY AmplitudeAssumption, SMT
<1>2. PICK gap \in 0..217 : gap = Gap(up, down)
  BY <1>1, SMT DEF Gap
<1>3. CASE binary = 7
  <2>1. AmplitudeScale(binary) = 0
    BY <1>3, Weights, SMT DEF AmplitudeScale
  <2> QED
    BY <1>2, <1>3, <2>1, SMT DEF Numerator
<1>4. ASSUME NEW w \in {1, 2, 4, 8, 16, 32, 64}, Weight(binary) = w
      PROVE  LET n == Numerator(up, down, binary)
             IN  n \in Nat /\ n < 202752 /\ n = Weight(binary) * Gap(up, down) * 10
  <2>1. AmplitudeScale(binary) = w
    BY <1>4, SMT DEF AmplitudeScale
  <2>2. Numerator(up, down, binary) = w * gap * 10
    BY <1>2, <2>1, SMT DEF Numerator
  <2>3. w * gap * 10 \in Nat /\ w * gap * 10 < 202752
    BY SMT
  <2> QED
    BY <1>2, <1>4, <2>2, <2>3, SMT
<1> QED
  BY <1>3, <1>4, Weights, SMT

LEMMA ExponentIsInteger ==
  ASSUME NEW n \in Nat, n < 202752
  PROVE  Exponent(n) \in Int
BY FirstBit, SMT DEF Exponent

\* The place of the end bit that a move of a cursor, or power-up, leaves.
LEMMA EndBitIsRight ==
  ASSUME NEW e \in Int, NEW end,
         end = CASE e > 127 -> 23 - (e - 127) [] e = 127 -> 16 [] e < 127 -> 27
  PROVE  end \in Int /\ (e > 127 => end = 150 - e)
BY SMT

\* The digits and the decimals are those of the distance.
LEMMA AmplitudeIsRight ==
  ASSUME AmplitudeInv
  PROVE  AmplitudeIsShown
<1> DEFINE n == Weight(Amplitude_Binary) * Gap(Up_Amplitude_Cursor, Down_Amplitude_Cursor) * 10
           m == Numerator(Up_Amplitude_Cursor, Down_Amplitude_Cursor, Amplitude_Binary)
<1>1. SUFFICES ASSUME ~rescaled, Amplitude_Binary # 7, ~AtTheHalf(n)
               PROVE  LET error == IF n < 2048 THEN (100 * n) \div 16 + 2048 ELSE 2048
                      IN  Shown * 2048 - 100 * n \in -error..error
  BY DEF AmplitudeIsShown
<1>2. m \in Nat /\ m < 202752 /\ m = n
  BY <1>1, ScaledDistance DEF AmplitudeInv
<1>3. EndBit \in Int /\ (Exponent(m) > 127 => EndBit = 150 - Exponent(m))
  BY <1>1 DEF AmplitudeInv
<1>4. PICK d : d = Decimals(Exponent(m), Extracted(m, EndBit))
  OBVIOUS
<1>5. PICK v : v = Value(ToBCD(IntegerResult(m, d))) % 100
  OBVIOUS
<1>6. Shown = 100 * v + d
  BY <1>4, <1>5 DEF Shown
<1> HIDE DEF n, m
<1>7. PICK k \in Nat : k = n /\ k = m /\ k < 202752 /\ ~AtTheHalf(k)
  BY <1>1, <1>2
<1>8. /\ d \in Nat /\ v \in Nat
      /\ k >= 2048 => LET e == 2048 * (100 * v + d) - 100 * k IN -2048 <= e /\ e <= 2048
      /\ k < 2048 => /\ 2048 * (100 * v + d) - 100 * k <= (100 * k) \div 16 + 2048
                     /\ 100 * k - 2048 * (100 * v + d) <= (100 * k) \div 16 + 2048
  BY <1>3, <1>4, <1>5, <1>7, HundredthsOfAVolt, SMT
<1>9. LET error == IF k < 2048 THEN (100 * k) \div 16 + 2048 ELSE 2048
      IN  (100 * v + d) * 2048 - 100 * k \in -error..error
  BY <1>8, SMT
<1> QED
  BY <1>6, <1>7, <1>9, SMT

\* The digits drawn are the amplitude between the cursors, for all places of the
\* cursors and every scale, within what AmplitudeIsShown leaves out.
THEOREM AmplitudeIsDrawn == MeasurementsSpec => []AmplitudeIsShown
<1>1. MeasurementsInit => AmplitudeInv
  <2> SUFFICES ASSUME AmplitudeInit PROVE AmplitudeInv
    BY DEF MeasurementsInit
  <2>1. /\ Up_Amplitude_Cursor \in AmplitudePlaces /\ Down_Amplitude_Cursor \in AmplitudePlaces
        /\ Amplitude_Binary = 0 /\ rescaled = FALSE
    BY DEF AmplitudeInit
  <2>2. PICK e \in Int : e = Exponent(Numerator(Up_Amplitude_Cursor, Down_Amplitude_Cursor, 0))
    BY <2>1, ScaledDistance, ExponentIsInteger
  <2>3. EndBit = CASE e > 127 -> 23 - (e - 127) [] e = 127 -> 16 [] e < 127 -> 27
    BY <2>1, <2>2 DEF AmplitudeInit
  <2>4. EndBit \in Int /\ (e > 127 => EndBit = 150 - e)
    BY <2>3, EndBitIsRight
  <2>5. Amplitude_Binary \in 0..7 /\ rescaled \in BOOLEAN
    <3>1. Amplitude_Binary = 0 => Amplitude_Binary \in 0..7
      BY SMT
    <3>2. rescaled = FALSE => rescaled \in BOOLEAN
      OBVIOUS
    <3> QED
      BY <2>1, <3>1, <3>2
  <2>6. e = Exponent(Numerator(Up_Amplitude_Cursor, Down_Amplitude_Cursor, Amplitude_Binary))
    BY <2>1, <2>2
  <2> QED
    BY <2>1, <2>4, <2>5, <2>6 DEF AmplitudeInv
<1>2. AmplitudeInv /\ [MeasurementsNext]_measurementVars => AmplitudeInv'
  <2> SUFFICES ASSUME AmplitudeInv, [MeasurementsNext]_measurementVars PROVE AmplitudeInv'
    OBVIOUS
  <2>1. CASE UNCHANGED amplitudeVars
    BY <2>1 DEF amplitudeVars, AmplitudeInv, Numerator, Gap
  <2>2. CASE MoveAmplitudeCursor
    <3>1. /\ Up_Amplitude_Cursor' \in AmplitudePlaces
          /\ Down_Amplitude_Cursor' \in AmplitudePlaces
          /\ Amplitude_Binary' \in 0..7 /\ rescaled' \in BOOLEAN
      BY <2>2 DEF MoveAmplitudeCursor, Near, AmplitudeInv
    <3>2. PICK e \in Int : e = Exponent(Numerator(Up_Amplitude_Cursor', Down_Amplitude_Cursor',
                                                Amplitude_Binary'))
      BY <3>1, ScaledDistance, ExponentIsInteger
    <3>3. EndBit' = CASE e > 127 -> 23 - (e - 127) [] e = 127 -> 16 [] e < 127 -> 27
      BY <2>2, <3>2 DEF MoveAmplitudeCursor, EndBitNext
    <3>4. EndBit' \in Int /\ (e > 127 => EndBit' = 150 - e)
      BY <3>3, EndBitIsRight
    <3> QED
      BY <3>1, <3>2, <3>4 DEF AmplitudeInv
  <2>3. CASE ThrowScale
    <3>1. /\ Up_Amplitude_Cursor' \in AmplitudePlaces
          /\ Down_Amplitude_Cursor' \in AmplitudePlaces
          /\ Amplitude_Binary' \in 0..7 /\ rescaled' = TRUE
      BY <2>3 DEF ThrowScale, AmplitudeInv
    <3>2. PICK e \in Int : e = Exponent(Numerator(Up_Amplitude_Cursor, Down_Amplitude_Cursor,
                                                Amplitude_Binary'))
      BY <3>1, ScaledDistance, ExponentIsInteger DEF AmplitudeInv
    <3>3. EndBit' \in Int
      BY <2>3, <3>2, SMT DEF ThrowScale, EndBitNext, AmplitudeInv
    <3> QED
      BY <3>1, <3>3 DEF AmplitudeInv
  <2> QED
    BY <2>1, <2>2, <2>3 DEF MeasurementsNext, measurementVars
<1>3. AmplitudeInv => AmplitudeIsShown
  BY AmplitudeIsRight
<1> QED
  BY <1>1, <1>2, <1>3, PTL DEF MeasurementsSpec
================================================================================
