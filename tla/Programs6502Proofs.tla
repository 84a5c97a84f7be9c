-------------------------- MODULE Programs6502Proofs --------------------------
(***************************************************************************)
(* What the operators of Alu6502 compute, for bytes of every size; and     *)
(* what the programs of Programs6502 make of them, for every operand.      *)
(***************************************************************************)
EXTENDS Programs6502, FiniteSetTheorems, TLAPS

(* The top bit of a byte tells its upper half, the bit above it a sum that  *)
(* left the byte.                                                           *)
LEMMA TopBits ==
  ASSUME NEW r \in 0 .. 2 * Size - 1
  PROVE  /\ Bit(r, Half) = IF r < Half THEN 0 ELSE IF r < Size THEN 1
                           ELSE IF r < Size + Half THEN 0 ELSE 1
         /\ Bit(r, Size) = IF r < Size THEN 0 ELSE 1
         /\ r % Size = IF r < Size THEN r ELSE r - Size
<1> USE HalfAssumption
<1>0. Size \in Nat /\ Size > 0 /\ Size = 2 * Half
  BY DEF Size
<1>1. r < Half => r \div Half = 0
  BY <1>0
<1>2. r >= Half /\ r < Size => r \div Half = 1
  BY <1>0
<1>3. r >= Size /\ r < Size + Half => r \div Half = 2
  BY <1>0
<1>4. r >= Size + Half => r \div Half = 3
  BY <1>0
<1>5. r \div Size = IF r < Size THEN 0 ELSE 1
  BY <1>0
<1>6. r % Size = IF r < Size THEN r ELSE r - Size
  BY <1>0, <1>5
<1>7. QED
  BY <1>0, <1>1, <1>2, <1>3, <1>4, <1>5, <1>6 DEF Bit

LEMMA ByteBits ==
  ASSUME NEW r \in Byte
  PROVE  Bit(r, Half) = IF r < Half THEN 0 ELSE 1
<1>1. Size \in Nat /\ Size = 2 * Half /\ r \in Nat /\ r < Size /\ r \in 0 .. 2 * Size - 1
  BY HalfAssumption DEF Size, Byte
<1>2. QED
  BY <1>1, TopBits, HalfAssumption

(* The same of a difference that went below zero, in two's complement.      *)
LEMMA TopBitsBelowZero ==
  ASSUME NEW r \in -Size .. -1
  PROVE  /\ Bit(r, Half) = IF r < -Half THEN 0 ELSE 1
         /\ Bit(r, Size) = 1
         /\ r % Size = r + Size
<1> USE HalfAssumption
<1>0. Size \in Nat /\ Size > 0 /\ Size = 2 * Half
  BY DEF Size
<1>1. r >= -Half => r \div Half = -1
  BY <1>0
<1>2. r < -Half => r \div Half = -2
  BY <1>0
<1>3. r \div Size = -1
  BY <1>0
<1>4. r % Size = r + Size
  BY <1>0, <1>3
<1>5. QED
  BY <1>0, <1>1, <1>2, <1>3, <1>4 DEF Bit

-----------------------------------------------------------------------------
LEMMA SignedByte ==
  ASSUME NEW r \in Byte
  PROVE  /\ Signed(r) \in -Half .. Half - 1
         /\ Signed(r) = IF Bit(r, Half) = 0 THEN r ELSE r - Size
         /\ Signed(r) < 0 <=> Bit(r, Half) = 1
         /\ Signed(r) < 0 <=> r > Half - 1
<1>1. Size \in Nat /\ Size = 2 * Half /\ r \in 0 .. Size - 1
  BY HalfAssumption DEF Size, Byte
<1>2. Bit(r, Half) = IF r < Half THEN 0 ELSE 1
  BY ByteBits
<1>3. CASE r < Half
  BY <1>1, <1>2, <1>3, HalfAssumption DEF Signed
<1>4. CASE ~(r < Half)
  BY <1>1, <1>2, <1>4, HalfAssumption DEF Signed
<1>5. QED
  BY <1>3, <1>4

(* When two bytes with a carry, or a borrow, leave the signed range: which  *)
(* quarter of the sums and differences the exact result is in.              *)
LEMMA SumLeavesRange ==
  ASSUME NEW a \in Byte, NEW b \in Byte, NEW c \in {0, 1}
  PROVE  OutOfRange(Signed(a) + Signed(b) + c)
           <=> \/ a < Half /\ b < Half /\ a + b + c >= Half
               \/ a >= Half /\ b >= Half /\ a + b + c < Size + Half
<1>1. Size \in Nat /\ Size = 2 * Half /\ a \in 0 .. Size - 1 /\ b \in 0 .. Size - 1
  BY HalfAssumption DEF Size, Byte
<1>2. CASE a < Half /\ b < Half
  BY <1>1, <1>2, HalfAssumption DEF Signed, OutOfRange
<1>3. CASE a < Half /\ b >= Half
  BY <1>1, <1>3, HalfAssumption DEF Signed, OutOfRange
<1>4. CASE a >= Half /\ b < Half
  BY <1>1, <1>4, HalfAssumption DEF Signed, OutOfRange
<1>5. CASE a >= Half /\ b >= Half
  BY <1>1, <1>5, HalfAssumption DEF Signed, OutOfRange
<1>6. QED
  BY <1>1, <1>2, <1>3, <1>4, <1>5, HalfAssumption

LEMMA DifferenceLeavesRange ==
  ASSUME NEW a \in Byte, NEW b \in Byte, NEW c \in {0, 1}
  PROVE  OutOfRange(Signed(a) - Signed(b) - (1 - c))
           <=> \/ a < Half /\ b >= Half /\ a - b - (1 - c) >= -Half
               \/ a >= Half /\ b < Half /\ a - b - (1 - c) < Half
<1>1. Size \in Nat /\ Size = 2 * Half /\ a \in 0 .. Size - 1 /\ b \in 0 .. Size - 1
  BY HalfAssumption DEF Size, Byte
<1>2. CASE a < Half /\ b < Half
  BY <1>1, <1>2, HalfAssumption DEF Signed, OutOfRange
<1>3. CASE a < Half /\ b >= Half
  BY <1>1, <1>3, HalfAssumption DEF Signed, OutOfRange
<1>4. CASE a >= Half /\ b < Half
  BY <1>1, <1>4, HalfAssumption DEF Signed, OutOfRange
<1>5. CASE a >= Half /\ b >= Half
  BY <1>1, <1>5, HalfAssumption DEF Signed, OutOfRange
<1>6. QED
  BY <1>1, <1>2, <1>3, <1>4, <1>5, HalfAssumption

(* ADC: the byte and the carry are the sum, V says that it is no signed     *)
(* byte, N is its sign.                                                     *)
LEMMA AddedExact ==
  ASSUME NEW f \in Flags, NEW a \in Byte, NEW value \in Byte
  PROVE  LET r == Added(f, a, value)
         IN  /\ r.a \in Byte /\ r.f \in Flags
             /\ r.a + Size * r.f.c = a + value + f.c
             /\ r.f.v = 1 <=> OutOfRange(Signed(a) + Signed(value) + f.c)
             /\ r.f.n = 1 <=> Signed(r.a) < 0
<1> USE HalfAssumption
<1> DEFINE res == a + value + f.c
           r == Added(f, a, value)
<1>0. /\ Size \in Nat /\ Size = 2 * Half /\ Byte = 0 .. Size - 1
      /\ f.c \in {0, 1} /\ res \in 0 .. 2 * Size - 1
  BY DEF Size, Byte, Flags
<1>1. /\ Bit(a, Half) = IF a < Half THEN 0 ELSE 1
      /\ Bit(value, Half) = IF value < Half THEN 0 ELSE 1
  BY <1>0, ByteBits
<1>2. /\ Bit(res, Half) = IF res < Half THEN 0 ELSE IF res < Size THEN 1
                           ELSE IF res < Size + Half THEN 0 ELSE 1
      /\ Bit(res, Size) = IF res < Size THEN 0 ELSE 1
      /\ res % Size = IF res < Size THEN res ELSE res - Size
  BY <1>0, TopBits
<1>3. /\ r.a = res % Size
      /\ r.f \in Flags
      /\ r.f.c = IF Bit(res, Size) # 0 THEN 1 ELSE 0
      /\ r.f.v = IF /\ Bit(a, Half) = Bit(value, Half)
                    /\ Bit(a, Half) # Bit(res, Half) THEN 1 ELSE 0
      /\ r.f.n = IF res % Size > Half - 1 THEN 1 ELSE 0
  BY DEF Added, ZN, Flags, Flag
<1>4. res = a + value + f.c
  OBVIOUS
<1> HIDE DEF r, res
<1>5. r.a \in Byte /\ r.a + Size * r.f.c = res
  <2>1. CASE res < Size
    BY <1>0, <1>2, <1>3, <2>1
  <2>2. CASE res >= Size
    BY <1>0, <1>2, <1>3, <2>2
  <2>3. QED
    BY <1>0, <2>1, <2>2
<1>6. r.f.v = 1 <=> OutOfRange(Signed(a) + Signed(value) + f.c)
  <2>1. OutOfRange(Signed(a) + Signed(value) + f.c)
          <=> \/ a < Half /\ value < Half /\ res >= Half
              \/ a >= Half /\ value >= Half /\ res < Size + Half
    BY <1>0, <1>4, SumLeavesRange
  <2>2. r.f.v = 1
          <=> \/ a < Half /\ value < Half /\ res >= Half
              \/ a >= Half /\ value >= Half /\ res < Size + Half
    <3>1. CASE a < Half /\ value < Half
      <4>1. res < Size
        BY <1>0, <1>4, <3>1
      <4>2. QED
        BY <1>0, <1>1, <1>2, <1>3, <3>1, <4>1
    <3>2. CASE a < Half /\ value >= Half
      <4>1. res >= Half /\ res < Size + Half
        BY <1>0, <1>4, <3>2
      <4>2. QED
        BY <1>0, <1>1, <1>2, <1>3, <3>2, <4>1
    <3>3. CASE a >= Half /\ value < Half
      <4>1. res >= Half /\ res < Size + Half
        BY <1>0, <1>4, <3>3
      <4>2. QED
        BY <1>0, <1>1, <1>2, <1>3, <3>3, <4>1
    <3>4. CASE a >= Half /\ value >= Half
      <4>1. res >= Size
        BY <1>0, <1>4, <3>4
      <4>2. QED
        BY <1>0, <1>1, <1>2, <1>3, <3>4, <4>1
    <3>5. QED
      BY <1>0, <3>1, <3>2, <3>3, <3>4
  <2>3. QED
    BY <2>1, <2>2
<1>7. r.f.n = 1 <=> Signed(r.a) < 0
  BY <1>3, <1>5, SignedByte
<1>8. QED
  BY <1>3, <1>4, <1>5, <1>6, <1>7 DEF r

(* SBC: the byte less the borrow, a clear carry, is the difference.         *)
LEMMA SubtractedExact ==
  ASSUME NEW f \in Flags, NEW a \in Byte, NEW value \in Byte
  PROVE  LET r == Subtracted(f, a, value)
         IN  /\ r.a \in Byte /\ r.f \in Flags
             /\ r.a - Size * (1 - r.f.c) = a - value - (1 - f.c)
             /\ r.f.v = 1 <=> OutOfRange(Signed(a) - Signed(value) - (1 - f.c))
             /\ r.f.n = 1 <=> Signed(r.a) < 0
<1> USE HalfAssumption
<1> DEFINE res == a - value - Flag(f.c # 1)
           r == Subtracted(f, a, value)
<1>0. /\ Size \in Nat /\ Size = 2 * Half /\ Byte = 0 .. Size - 1
      /\ f.c \in {0, 1} /\ Flag(f.c # 1) = 1 - f.c
      /\ res \in -Size .. Size - 1
  BY DEF Size, Byte, Flags, Flag
<1>1. /\ Bit(a, Half) = IF a < Half THEN 0 ELSE 1
      /\ Bit(value, Half) = IF value < Half THEN 0 ELSE 1
  BY <1>0, ByteBits
<1>2. /\ Bit(res, Half) = IF res < -Half \/ (res >= 0 /\ res < Half) THEN 0 ELSE 1
      /\ Bit(res, Size) = IF res < 0 THEN 1 ELSE 0
      /\ res % Size = IF res < 0 THEN res + Size ELSE res
  <2>1. CASE res < 0
    <3>1. res \in -Size .. -1
      BY <1>0, <2>1
    <3>2. QED
      BY <1>0, <2>1, <3>1, TopBitsBelowZero
  <2>2. CASE res >= 0
    <3>1. res \in 0 .. 2 * Size - 1 /\ res < Size
      BY <1>0, <2>2
    <3> HIDE DEF res
    <3>2. /\ Bit(res, Half) = IF res < Half THEN 0 ELSE 1
          /\ Bit(res, Size) = 0
          /\ res % Size = res
      BY <1>0, <3>1, TopBits
    <3>3. QED
      BY <1>0, <2>2, <3>1, <3>2
  <2>3. QED
    BY <1>0, <2>1, <2>2
<1>3. /\ r.a = res % Size
      /\ r.f \in Flags
      /\ r.f.c = IF Bit(res, Size) = 0 THEN 1 ELSE 0
      /\ r.f.v = IF /\ Bit(a, Half) # Bit(value, Half)
                    /\ Bit(a, Half) # Bit(res, Half) THEN 1 ELSE 0
      /\ r.f.n = IF res % Size > Half - 1 THEN 1 ELSE 0
  BY DEF Subtracted, ZN, Flags, Flag
<1>4. res = a - value - (1 - f.c)
  BY <1>0
<1> HIDE DEF r, res
<1>5. r.a \in Byte /\ r.a - Size * (1 - r.f.c) = res
  <2>1. CASE res < 0
    BY <1>0, <1>2, <1>3, <2>1
  <2>2. CASE res >= 0
    BY <1>0, <1>2, <1>3, <2>2
  <2>3. QED
    BY <1>0, <2>1, <2>2
<1>6. r.f.v = 1 <=> OutOfRange(Signed(a) - Signed(value) - (1 - f.c))
  <2>1. OutOfRange(Signed(a) - Signed(value) - (1 - f.c))
          <=> \/ a < Half /\ value >= Half /\ res >= -Half
              \/ a >= Half /\ value < Half /\ res < Half
    BY <1>0, <1>4, DifferenceLeavesRange
  <2>2. r.f.v = 1
          <=> \/ a < Half /\ value >= Half /\ res >= -Half
              \/ a >= Half /\ value < Half /\ res < Half
    <3>1. CASE a < Half /\ value < Half
      <4>1. res >= -Half /\ res < Half
        BY <1>0, <1>4, <3>1
      <4>2. QED
        BY <1>0, <1>1, <1>2, <1>3, <3>1, <4>1
    <3>2. CASE a < Half /\ value >= Half
      <4>1. res < 0
        BY <1>0, <1>4, <3>2
      <4>2. QED
        BY <1>0, <1>1, <1>2, <1>3, <3>2, <4>1
    <3>3. CASE a >= Half /\ value < Half
      <4>1. res >= 0
        BY <1>0, <1>4, <3>3
      <4>2. QED
        BY <1>0, <1>1, <1>2, <1>3, <3>3, <4>1
    <3>4. CASE a >= Half /\ value >= Half
      <4>1. res >= -Half /\ res < Half
        BY <1>0, <1>4, <3>4
      <4>2. QED
        BY <1>0, <1>1, <1>2, <1>3, <3>4, <4>1
    <3>5. QED
      BY <1>0, <3>1, <3>2, <3>3, <3>4
  <2>3. QED
    BY <2>1, <2>2
<1>7. r.f.n = 1 <=> Signed(r.a) < 0
  BY <1>3, <1>5, SignedByte
<1>8. QED
  BY <1>3, <1>4, <1>5, <1>6, <1>7 DEF r

-----------------------------------------------------------------------------
(* CMP and CPX order the bytes, and agree with a subtraction without borrow.*)
LEMMA ComparedExact ==
  ASSUME NEW f \in Flags, NEW r \in Byte, NEW value \in Byte
  PROVE  LET g == Compared(f, r, value)
             u == Subtracted([f EXCEPT !.c = 1], r, value).f
         IN  /\ g \in Flags
             /\ g.c = 1 <=> r >= value
             /\ g.z = 1 <=> r = value
             /\ g.v = f.v
             /\ g.c = u.c /\ g.n = u.n
<1> USE HalfAssumption
<1> DEFINE gap == r - value
           g == Compared(f, r, value)
           u == Subtracted([f EXCEPT !.c = 1], r, value).f
<1>0. /\ Size \in Nat /\ Size = 2 * Half /\ r \in 0 .. Size - 1 /\ value \in 0 .. Size - 1
      /\ gap \in -Size .. Size - 1
  BY DEF Size, Byte
<1>1. /\ Bit(gap, Half) = IF gap < -Half THEN 0 ELSE IF gap < 0 THEN 1
                         ELSE IF gap < Half THEN 0 ELSE 1
      /\ Bit(gap, Size) = IF gap < 0 THEN 1 ELSE 0
      /\ gap % Size = IF gap < 0 THEN gap + Size ELSE gap
  <2> HIDE DEF gap
  <2>1. CASE gap < 0
    <3>1. gap \in -Size .. -1
      BY <1>0, <2>1
    <3>2. QED
      BY <1>0, <2>1, <3>1, TopBitsBelowZero
  <2>2. CASE gap >= 0
    <3>1. gap \in 0 .. 2 * Size - 1 /\ gap < Size
      BY <1>0, <2>2
    <3>2. QED
      BY <1>0, <2>2, <3>1, TopBits
  <2>3. QED
    BY <1>0, <2>1, <2>2
<1>2. /\ g.c = IF gap >= 0 THEN 1 ELSE 0
      /\ g.z = IF gap = 0 THEN 1 ELSE 0
      /\ g.v = f.v /\ g.n = Bit(gap, Half)
      /\ g = [f EXCEPT !.c = Flag(gap >= 0), !.z = Flag(gap = 0), !.n = Bit(gap, Half)]
  BY DEF Compared, Flags, Flag
<1>3. gap - Flag(1 # 1) = gap
  BY <1>0 DEF Flag
<1>4. /\ u.c = IF Bit(gap, Size) = 0 THEN 1 ELSE 0
      /\ u.n = IF gap % Size > Half - 1 THEN 1 ELSE 0
  <2>1. [f EXCEPT !.c = 1].c = 1
    BY DEF Flags
  <2>2. QED
    BY <1>0, <1>3, <2>1 DEF Subtracted, ZN, Flags, Flag
<1>5. g \in Flags
  <2>1. Bit(gap, Half) \in {0, 1}
    BY <1>1
  <2>2. QED
    BY <1>2, <2>1 DEF Flags, Flag
<1>6. (gap >= 0 <=> r >= value) /\ (gap = 0 <=> r = value)
  BY <1>0
<1> HIDE DEF gap, g, u
<1>7. g.c = u.c /\ g.n = u.n
  <2>1. gap \in Int /\ gap >= -Size /\ gap < Size
    BY <1>0
  <2>2. CASE gap < -Half
    BY <1>0, <1>1, <1>2, <1>4, <2>1, <2>2
  <2>3. CASE gap >= -Half /\ gap < 0
    BY <1>0, <1>1, <1>2, <1>4, <2>1, <2>3
  <2>4. CASE gap >= 0
    BY <1>0, <1>1, <1>2, <1>4, <2>1, <2>4
  <2>5. QED
    BY <2>1, <2>2, <2>3, <2>4
<1>8. QED
  BY <1>2, <1>5, <1>6, <1>7 DEF g, u

(* The shifts and rotations move the bits of the byte and the carry, all    *)
(* but the one ROL the code gets wrong.                                     *)
LEMMA ShiftsExact ==
  ASSUME NEW f \in Flags, NEW r \in Byte
  PROVE  /\ LET u == ShiftedLeft(f, r)
            IN  u.r \in Byte /\ u.f \in Flags /\ u.r + Size * u.f.c = 2 * r
         /\ LET u == ShiftedRight(f, r)
            IN  u.r \in Byte /\ u.f \in Flags /\ 2 * u.r + u.f.c = r
         /\ LET u == RotatedLeft(f, r)
            IN  /\ u.r \in Byte /\ u.f \in Flags
                /\ u.r + Size * u.f.c
                     = 2 * r + f.c + (IF r = Half - 1 /\ f.c = 1 THEN Size ELSE 0)
         /\ LET u == RotatedRight(f, r)
            IN  u.r \in Byte /\ u.f \in Flags /\ 2 * u.r + u.f.c = r + Size * f.c
<1> USE HalfAssumption
<1>0. Size \in Nat /\ Size = 2 * Half /\ Byte = 0 .. Size - 1 /\ f.c \in {0, 1}
  BY DEF Size, Byte, Flags
<1>1. /\ 2 * r \in 0 .. 2 * Size - 1 /\ 2 * r + f.c \in 0 .. 2 * Size - 1
      /\ r \div 2 \in 0 .. Half - 1 /\ r % 2 \in {0, 1} /\ 2 * (r \div 2) + (r % 2) = r
  BY <1>0
<1>2. Bit(r, Half) = IF r < Half THEN 0 ELSE 1
  BY ByteBits
<1>3. Bit(r, 1) = r % 2
  BY <1>0 DEF Bit
<1>4. ASSUME NEW u, u = ShiftedLeft(f, r)
      PROVE  u.r \in Byte /\ u.f \in Flags /\ u.r + Size * u.f.c = 2 * r
  <2>1. u.r = (2 * r) % Size /\ u.f.c = Bit(r, Half)
    BY <1>4 DEF ShiftedLeft, ZN, Flags
  <2>2. (2 * r) % Size = IF 2 * r < Size THEN 2 * r ELSE 2 * r - Size
    BY <1>0, <1>1, TopBits
  <2>3. Bit(r, Half) \in {0, 1}
    BY <1>2
  <2>4. u.f \in Flags
    BY <1>4, <2>3 DEF ShiftedLeft, ZN, Flags, Flag
  <2>5. QED
    BY <1>0, <1>2, <2>1, <2>2, <2>4
<1>5. ASSUME NEW u, u = ShiftedRight(f, r)
      PROVE  u.r \in Byte /\ u.f \in Flags /\ 2 * u.r + u.f.c = r
  <2>1. u.r = r \div 2 /\ u.f.c = r % 2
    BY <1>3, <1>5 DEF ShiftedRight, ZN, Flags
  <2>2. u.f \in Flags
    BY <1>1, <1>3, <1>5 DEF ShiftedRight, ZN, Flags, Flag
  <2>3. QED
    BY <1>0, <1>1, <2>1, <2>2
<1>6. ASSUME NEW u, u = RotatedLeft(f, r)
      PROVE  /\ u.r \in Byte /\ u.f \in Flags
             /\ u.r + Size * u.f.c
                  = 2 * r + f.c + (IF r = Half - 1 /\ f.c = 1 THEN Size ELSE 0)
  <2> DEFINE res == 2 * r + f.c
  <2>1. /\ u.r = res % Size
        /\ u.f.c = IF res >= Size - 1 THEN 1 ELSE 0
    BY <1>6 DEF RotatedLeft, ZN, Flags, Flag
  <2>2. res % Size = IF res < Size THEN res ELSE res - Size
    BY <1>0, <1>1, TopBits
  <2>3. u.f \in Flags
    BY <1>6 DEF RotatedLeft, ZN, Flags, Flag
  <2>4. res = Size - 1 <=> r = Half - 1 /\ f.c = 1
    BY <1>0
  <2>5. res \in 0 .. 2 * Size - 1
    BY <1>1
  <2> HIDE DEF res
  <2>6. u.r \in Byte /\ u.r + Size * u.f.c = res + (IF res = Size - 1 THEN Size ELSE 0)
    BY <1>0, <2>1, <2>2, <2>5
  <2>7. QED
    BY <2>3, <2>4, <2>6 DEF res
<1>7. ASSUME NEW u, u = RotatedRight(f, r)
      PROVE  u.r \in Byte /\ u.f \in Flags /\ 2 * u.r + u.f.c = r + Size * f.c
  <2>1. u.r = (r \div 2) + Half * f.c /\ u.f.c = r % 2
    BY <1>3, <1>7 DEF RotatedRight, Flags
  <2>2. u.f \in Flags
    BY <1>0, <1>1, <1>3, <1>7 DEF RotatedRight, Flags, Flag
  <2>3. CASE f.c = 0
    <3>1. Half * f.c = 0 /\ Size * f.c = 0
      BY <1>0, <2>3
    <3>2. u.r = r \div 2 /\ u.f.c = r % 2
      BY <1>1, <2>1, <3>1
    <3>3. QED
      BY <1>0, <1>1, <2>2, <3>1, <3>2
  <2>4. CASE f.c = 1
    <3>1. Half * f.c = Half /\ Size * f.c = Size
      BY <1>0, <2>4
    <3>2. u.r = (r \div 2) + Half /\ u.f.c = r % 2
      BY <1>1, <2>1, <3>1
    <3>3. u.r \in Byte
      <4> DEFINE h == r \div 2
      <4>1. h \in 0 .. Half - 1 /\ u.r = h + Half
        BY <1>1, <3>2
      <4> HIDE DEF h
      <4> QED BY <1>0, <4>1
    <3>4. 2 * u.r + u.f.c = r + Size
      <4> DEFINE h == r \div 2
                 b == r % 2
      <4>1. h \in Nat /\ b \in Nat /\ 2 * h + b = r /\ u.r = h + Half /\ u.f.c = b
        BY <1>1, <3>2
      <4> HIDE DEF h, b
      <4> QED BY <1>0, <4>1
    <3>5. QED
      BY <2>2, <3>1, <3>3, <3>4
  <2>5. QED
    BY <1>0, <2>3, <2>4
<1>8. QED
  BY <1>4, <1>5, <1>6, <1>7

-----------------------------------------------------------------------------
(* One step of each instruction, for the type and for the properties.       *)
LEMMA CountsInType ==
  ASSUME NEW f \in Flags, NEW r \in Byte
  PROVE  /\ Incremented(f, r).r \in Byte /\ Incremented(f, r).f \in Flags
         /\ Decremented(f, r).r \in Byte /\ Decremented(f, r).f \in Flags
<1>1. Size \in Nat /\ Size = 2 * Half /\ Byte = 0 .. Size - 1
  BY HalfAssumption DEF Size, Byte
<1>2. Incremented(f, r).r \in Byte /\ Decremented(f, r).r \in Byte
  BY <1>1, HalfAssumption DEF Incremented, Decremented
<1>3. Incremented(f, r).f \in Flags /\ Decremented(f, r).f \in Flags
  BY DEF Incremented, Decremented, ZN, Flags, Flag
<1>4. QED
  BY <1>2, <1>3

LEMMA FlagsInType ==
  ASSUME NEW f \in Flags, NEW r
  PROVE  /\ ZN(f, r) \in Flags
         /\ \A a, value \in Byte : BitTested(f, a, value) \in Flags
<1>1. ZN(f, r) \in Flags
  BY DEF ZN, Flags, Flag
<1>2. ASSUME NEW a \in Byte, NEW value \in Byte
      PROVE  BitTested(f, a, value) \in Flags
  <2>1. value \in Int /\ Half \div 2 \in Nat /\ Half \div 2 > 0
    BY HalfAssumption DEF Byte, Size
  <2>2. Bit(value, Half) \in {0, 1}
    BY ByteBits
  <2>3. value \div (Half \div 2) \in Int
    BY <2>1
  <2>4. Bit(value, Half \div 2) \in {0, 1}
    BY <2>3 DEF Bit
  <2>5. QED
    BY <2>2, <2>4 DEF BitTested, Flags, Flag
<1>3. QED
  BY <1>1, <1>2

LEMMA TypeKept ==
  ASSUME TypeOK, [Next]_vars
  PROVE  TypeOK'
<1> USE DEF TypeOK
<1>1. ASSUME NEW value \in Byte, SetA(value)
      PROVE  TypeOK'
  BY <1>1, FlagsInType DEF SetA
<1>2. ASSUME NEW value \in Byte,
             ADC(value) \/ SBC(value) \/ CMP(value) \/ CPX(value) \/ BIT(value)
             \/ INS(value)
      PROVE  TypeOK'
  <2>1. CASE ADC(value)
    BY <2>1, AddedExact DEF ADC
  <2>2. CASE SBC(value) \/ INS(value)
    BY <2>2, SubtractedExact DEF SBC, INS
  <2>3. CASE CMP(value)
    BY <2>3, ComparedExact DEF CMP
  <2>4. CASE CPX(value)
    BY <2>4, ComparedExact DEF CPX
  <2>5. CASE BIT(value)
    BY <2>5, FlagsInType DEF BIT
  <2>6. QED
    BY <1>2, <2>1, <2>2, <2>3, <2>4, <2>5
<1>3. ASSUME NEW value \in Byte,
             AND(value) \/ ORA(value) \/ EOR(value) \/ LDA(value)
      PROVE  TypeOK'
  BY <1>1, <1>3 DEF AND, ORA, EOR, EachBit, LDA
<1>4. ASSUME NEW value \in Byte, LDX(value)
      PROVE  TypeOK'
  BY <1>4, FlagsInType DEF LDX
<1>5. CASE TXA \/ TAX \/ STA \/ STX
  BY <1>1, <1>4, <1>5 DEF TXA, TAX, STA, STX
<1>6. CASE ASL \/ LSR \/ ROL \/ ROR
  BY <1>6, ShiftsExact DEF ASL, LSR, ROL, ROR, OnA, OnM
<1>7. CASE INC \/ DEC \/ INX \/ DEX
  BY <1>7, CountsInType DEF INC, DEC, INX, DEX, OnM, OnX
<1>8. CASE CLC \/ SEC \/ CLV
  BY <1>8 DEF CLC, SEC, CLV, Flags
<1>9. CASE UNCHANGED vars
  BY <1>9 DEF vars
<1>10. QED
  BY <1>2, <1>3, <1>4, <1>5, <1>6, <1>7, <1>8, <1>9 DEF Next

(* The registers and the memory cell hold bytes: TypeOK.                    *)
THEOREM TypeCorrect == Spec => []TypeOK
<1>1. Init => TypeOK
  BY HalfAssumption DEF Init, TypeOK, Flags, Byte, Size
<1>2. TypeOK /\ [Next]_vars => TypeOK'
  BY TypeKept
<1>3. QED
  BY <1>1, <1>2, PTL DEF Spec

(* ADC and SBC flag exactly the results that are not signed bytes.          *)
THEOREM OverflowTold == Spec => SignedOverflow
<1>1. TypeOK =>
        \A value \in Byte :
          /\ ADC(value) =>
               /\ flags'.v = 1 <=> OutOfRange(Signed(A) + Signed(value) + flags.c)
               /\ flags'.n = 1 <=> Signed(A') < 0
          /\ SBC(value) =>
               /\ flags'.v = 1 <=>
                    OutOfRange(Signed(A) - Signed(value) - (1 - flags.c))
               /\ flags'.n = 1 <=> Signed(A') < 0
  <2> SUFFICES ASSUME TypeOK, NEW value \in Byte
               PROVE  /\ ADC(value) =>
                           /\ flags'.v = 1 <=>
                                OutOfRange(Signed(A) + Signed(value) + flags.c)
                           /\ flags'.n = 1 <=> Signed(A') < 0
                      /\ SBC(value) =>
                           /\ flags'.v = 1 <=>
                                OutOfRange(Signed(A) - Signed(value) - (1 - flags.c))
                           /\ flags'.n = 1 <=> Signed(A') < 0
    OBVIOUS
  <2>1. flags \in Flags /\ A \in Byte
    BY DEF TypeOK
  <2>2. ASSUME ADC(value)
        PROVE  /\ flags'.v = 1 <=> OutOfRange(Signed(A) + Signed(value) + flags.c)
               /\ flags'.n = 1 <=> Signed(A') < 0
    BY <2>1, <2>2, AddedExact DEF ADC
  <2>3. ASSUME SBC(value)
        PROVE  /\ flags'.v = 1 <=> OutOfRange(Signed(A) - Signed(value) - (1 - flags.c))
               /\ flags'.n = 1 <=> Signed(A') < 0
    BY <2>1, <2>3, SubtractedExact DEF SBC
  <2>4. QED
    BY <2>2, <2>3
<1>2. QED
  BY <1>1, TypeCorrect, PTL DEF SignedOverflow

(* CMP and CPX order the registers and their operand as unsigned bytes.     *)
THEOREM CompareTells == Spec => CompareOrders
<1>1. TypeOK =>
        \A value \in Byte :
          /\ CMP(value) =>
               /\ flags'.c = 1 <=> A >= value
               /\ flags'.z = 1 <=> A = value
               /\ flags'.c = Subtracted([flags EXCEPT !.c = 1], A, value).f.c
               /\ flags'.n = Subtracted([flags EXCEPT !.c = 1], A, value).f.n
               /\ flags'.v = flags.v
          /\ CPX(value) => flags'.c = 1 <=> X >= value
  BY ComparedExact DEF TypeOK, CMP, CPX
<1>2. QED
  BY <1>1, TypeCorrect, PTL DEF CompareOrders

(* Shifts and rotations keep every bit, but for the one ROL.                *)
THEOREM BitsKept == Spec => RotationsLoseNothing
<1>1. TypeOK =>
        /\ OnA(RotatedLeft) =>
             A' + Size * flags'.c =
               2 * A + flags.c + (IF A = Half - 1 /\ flags.c = 1 THEN Size ELSE 0)
        /\ OnA(RotatedRight) => 2 * A' + flags'.c = A + Size * flags.c
        /\ OnM(ShiftedLeft) => M' + Size * flags'.c = 2 * M
        /\ OnM(ShiftedRight) => 2 * M' + flags'.c = M
  BY ShiftsExact DEF TypeOK, OnA, OnM
<1>2. QED
  BY <1>1, TypeCorrect, PTL DEF RotationsLoseNothing

-----------------------------------------------------------------------------
(* The comparisons                                                          *)

(* The sign of what a subtraction leaves tells the order of signed bytes,   *)
(* the other way round when it overflowed.                                  *)
LEMMA SignTellsOrder ==
  ASSUME NEW a \in Byte, NEW b \in Byte, NEW r \in Byte, NEW c \in {0, 1},
         r - Size * (1 - c) = a - b
  PROVE  IF OutOfRange(Signed(a) - Signed(b))
         THEN Signed(r) >= 0 <=> Signed(a) < Signed(b)
         ELSE Signed(r) < 0 <=> Signed(a) < Signed(b)
<1> USE HalfAssumption
<1>1. /\ Size \in Nat /\ Size = 2 * Half /\ a \in 0 .. Size - 1 /\ b \in 0 .. Size - 1
      /\ r \in 0 .. Size - 1
  BY DEF Size, Byte
<1>2. r = a - b \/ r = a - b + Size
  BY <1>1
<1>3. CASE a < Half /\ b < Half
  BY <1>1, <1>2, <1>3 DEF Signed, OutOfRange
<1>4. CASE a < Half /\ b >= Half
  BY <1>1, <1>2, <1>4 DEF Signed, OutOfRange
<1>5. CASE a >= Half /\ b < Half
  BY <1>1, <1>2, <1>5 DEF Signed, OutOfRange
<1>6. CASE a >= Half /\ b >= Half
  BY <1>1, <1>2, <1>6 DEF Signed, OutOfRange
<1>7. QED
  BY <1>1, <1>3, <1>4, <1>5, <1>6

(* What a comparison has in A and in the flags before each instruction.     *)
SignLeft ==
  /\ A \in Byte /\ A - Size * (1 - flags.c) = left - right
  /\ flags.n = 1 <=> Signed(A) < 0
  /\ flags.v = 1 <=> OutOfRange(Signed(left) - Signed(right))

Decided ==
  IF program \in SignedBranch
  THEN flags.n = 1 <=> Signed(left) < Signed(right)
  ELSE (flags.c = 1 <=> left >= right) /\ (flags.z = 1 <=> left = right)

Comparing ==
  program \in Comparisons =>
    /\ left \in Byte /\ right \in Byte /\ flags \in Flags
    /\ at \in {"sec", "sbc", "cmp"} => A = left
    /\ at = "cmp" => program \in UnsignedBranch
    /\ at \in {"sec", "sbc", "bvc", "eor"} => program \in SignedBranch
    /\ at = "sbc" => flags.c = 1
    /\ at \in {"bvc", "eor"} => SignLeft
    /\ at = "eor" => flags.v = 1
    /\ at = "decide" => Decided

(* EOR with the sign bit turns the sign of A over.                          *)
LEMMA SignFlipped ==
  ASSUME A \in Byte, flags \in Flags, EOR(Half)
  PROVE  flags' \in Flags /\ (flags'.n = 1 <=> Signed(A) >= 0)
<1> USE HalfAssumption
<1>1. /\ Half \in Weights /\ Bit(Half, Half) = 1
      /\ Size = 2 * Half /\ A \in 0 .. Size - 1
  BY DEF Weights, Bit, Byte, Size
<1>2. PICK r \in Byte :
        /\ Bit(r, Half) = 1 <=> ((Bit(A, Half) = 1) # (Bit(Half, Half) = 1))
        /\ SetA(r)
  BY <1>1 DEF EOR, EachBit
<1>3. Bit(r, Half) = 1 <=> ~(Bit(A, Half) = 1)
  BY <1>1, <1>2, Zenon
<1>4. flags' = ZN(flags, r)
  BY <1>2 DEF SetA
<1>5. flags' \in Flags
  BY <1>4, FlagsInType
<1>6. flags'.n = 1 <=> r > Half - 1
  BY <1>4 DEF ZN, Flags, Flag
<1>7. Bit(r, Half) = 1 <=> r > Half - 1
  <2>1. r \in 0 .. Size - 1
    BY <1>2 DEF Byte
  <2>2. Bit(r, Half) = IF r < Half THEN 0 ELSE 1
    BY <1>2, ByteBits
  <2>3. QED
    BY <2>1, <2>2
<1>8. Signed(A) \in Int /\ (Signed(A) < 0 <=> Bit(A, Half) = 1)
  <2>1. -Half .. Half - 1 \subseteq Int
    OBVIOUS
  <2>2. QED
    BY <2>1, SignedByte
<1>9. QED
  BY <1>3, <1>5, <1>6, <1>7, <1>8

LEMMA ComparingStarts == ProgramsInit => Comparing /\ BranchesOrder
<1> SUFFICES ASSUME ProgramsInit, program \in Comparisons
             PROVE  Comparing /\ BranchesOrder
  BY DEF Comparing, BranchesOrder, Comparisons, SignedBranch, UnsignedBranch
<1>1. CompareInit
  BY DEF ProgramsInit, SumInit, LoopInit, Start, Sums, Loops, Fills, Comparisons,
         SignedBranch, UnsignedBranch
<1>2. flags \in Flags
  BY DEF ProgramsInit, Init, Flags
<1>3. at = "load" /\ left \in Byte /\ right \in Byte
  BY <1>1 DEF CompareInit, Start
<1>4. QED
  BY <1>2, <1>3 DEF Comparing, BranchesOrder

LEMMA ComparingGoesOn ==
  ASSUME Comparing, CompareNext
  PROVE  Comparing' /\ BranchesOrder'
<1> USE HalfAssumption
<1>1. program \in Comparisons /\ left \in Byte /\ right \in Byte /\ flags \in Flags
  BY DEF CompareNext, Comparing
<1>2. (program \in SignedBranch) # (program \in UnsignedBranch)
  BY <1>1 DEF Comparisons, SignedBranch, UnsignedBranch
<1>3. program' = program /\ left' = left /\ right' = right
  BY DEF CompareNext, LoadLeft, Compare, FlipSign, Decide, Go, GoIf
<1>4. CASE LoadLeft
  <2>1. A' = left /\ flags' = ZN(flags, left)
    BY <1>4 DEF LoadLeft, LDA, SetA
  <2>2. flags' \in Flags
    BY <1>1, <2>1, FlagsInType
  <2>3. at' = IF program \in SignedBranch THEN "sec" ELSE "cmp"
    BY <1>4 DEF LoadLeft, Go
  <2>4. QED
    BY <1>1, <1>2, <1>3, <2>1, <2>2, <2>3 DEF Comparing, BranchesOrder, Comparisons
<1>5. CASE Go("cmp", "decide") /\ CMP(right)
  <2>1. at = "cmp" /\ at' = "decide" /\ A = left /\ program \in UnsignedBranch
    BY <1>1, <1>5 DEF Go, Comparing
  <2>2. flags' = Compared(flags, left, right)
    BY <1>5, <2>1 DEF CMP
  <2>3. flags' \in Flags /\ (flags'.c = 1 <=> left >= right) /\ (flags'.z = 1 <=> left = right)
    BY <1>1, <2>2, ComparedExact
  <2>4. QED
    BY <1>1, <1>2, <1>3, <2>1, <2>3 DEF Comparing, Decided, BranchesOrder
<1>6. CASE Go("sec", "sbc") /\ SEC
  <2>1. at = "sec" /\ at' = "sbc" /\ A' = left /\ program \in SignedBranch
    BY <1>1, <1>6 DEF Go, Comparing, SEC
  <2>2. flags' \in Flags /\ flags'.c = 1
    BY <1>1, <1>6 DEF SEC, Flags
  <2>3. QED
    BY <1>1, <1>3, <2>1, <2>2 DEF Comparing, BranchesOrder
<1>7. CASE Go("sbc", "bvc") /\ SBC(right)
  <2>1. at = "sbc" /\ at' = "bvc" /\ A = left /\ flags.c = 1 /\ program \in SignedBranch
    BY <1>1, <1>7 DEF Go, Comparing
  <2> DEFINE u == Subtracted(flags, left, right)
  <2>2. A' = u.a /\ flags' = u.f
    BY <1>7, <2>1 DEF SBC
  <2>3. /\ u.a \in Byte /\ u.f \in Flags
        /\ u.a - Size * (1 - u.f.c) = left - right - (1 - flags.c)
        /\ u.f.v = 1 <=> OutOfRange(Signed(left) - Signed(right) - (1 - flags.c))
        /\ u.f.n = 1 <=> Signed(u.a) < 0
    BY <1>1, SubtractedExact
  <2>4. left - right - (1 - flags.c) = left - right
    BY <1>1, <2>1 DEF Byte, Size
  <2>5. Signed(left) - Signed(right) - (1 - flags.c) = Signed(left) - Signed(right)
    BY <1>1, <2>1 DEF Byte, Size, Signed
  <2> HIDE DEF u
  <2>6. /\ u.a - Size * (1 - u.f.c) = left - right
        /\ u.f.v = 1 <=> OutOfRange(Signed(left) - Signed(right))
    BY <2>3, <2>4, <2>5
  <2>7. SignLeft'
    BY <1>3, <2>2, <2>3, <2>6 DEF SignLeft, Signed, OutOfRange, Size, Byte
  <2>8. QED
    BY <1>1, <1>3, <2>1, <2>2, <2>3, <2>7 DEF Comparing, BranchesOrder
<1>8. CASE GoIf("bvc", "BVC", "decide", "eor")
  <2>1. at = "bvc" /\ program \in SignedBranch /\ SignLeft /\ A' = A /\ flags' = flags
    BY <1>1, <1>8 DEF GoIf, Go, Comparing, vars
  <2>2. SignLeft'
    BY <1>3, <2>1 DEF SignLeft, Signed, OutOfRange, Size, Byte
  <2>3. at' = IF flags.v = 0 THEN "decide" ELSE "eor"
    BY <1>8 DEF GoIf, Go, Taken
  <2>4. CASE flags.v = 0
    <3>1. Signed(A) < 0 <=> Signed(left) < Signed(right)
      BY <1>1, <2>1, <2>4, SignTellsOrder DEF SignLeft, Flags
    <3>2. Decided'
      BY <1>3, <2>1, <3>1 DEF SignLeft, Decided, Signed, Size
    <3>3. QED
      BY <1>1, <1>3, <2>1, <2>2, <2>3, <2>4, <3>2 DEF Comparing, BranchesOrder
  <2>5. CASE flags.v # 0
    <3>1. flags.v = 1
      BY <1>1, <2>5 DEF Flags
    <3>2. QED
      BY <1>1, <1>3, <2>1, <2>2, <2>3, <3>1 DEF Comparing, BranchesOrder
  <2>6. QED
    BY <2>4, <2>5
<1>9. CASE Go("eor", "decide") /\ EOR(Half)
  <2>1. at = "eor" /\ at' = "decide" /\ program \in SignedBranch /\ SignLeft /\ flags.v = 1
    BY <1>1, <1>9 DEF Go, Comparing
  <2>2. flags' \in Flags /\ (flags'.n = 1 <=> Signed(A) >= 0)
    BY <1>1, <1>9, <2>1, SignFlipped DEF SignLeft
  <2>3. Signed(A) >= 0 <=> Signed(left) < Signed(right)
    BY <1>1, <2>1, SignTellsOrder DEF SignLeft, Flags
  <2>4. Decided'
    BY <1>3, <2>1, <2>2, <2>3 DEF Decided, Signed, Size
  <2>5. QED
    BY <1>1, <1>3, <2>1, <2>2, <2>4 DEF Comparing, BranchesOrder
<1>10. CASE Decide
  <2>1. at = "decide" /\ Decided /\ flags' = flags
    BY <1>1, <1>10 DEF Decide, GoIf, Go, Comparing, vars
  <2>2. at' = IF Taken(program, flags) THEN "yes" ELSE "no"
    BY <1>10 DEF Decide, GoIf, Go
  <2>3. left \in Int /\ right \in Int /\ Signed(left) \in Int /\ Signed(right) \in Int
    BY <1>1 DEF Signed, Byte, Size
  <2>4. flags.c \in {0, 1} /\ flags.z \in {0, 1} /\ flags.n \in {0, 1}
    BY <1>1 DEF Flags
  <2>5. Comparing'
    BY <1>1, <1>3, <2>1, <2>2 DEF Comparing
  <2>6. BranchesOrder'
    <3>1. CASE program \in UnsignedBranch
      <4>1. (flags.c = 1 <=> left >= right) /\ (flags.z = 1 <=> left = right)
        BY <1>2, <2>1, <3>1 DEF Decided
      <4>2. QED
        BY <1>3, <2>2, <2>3, <2>4, <3>1, <4>1 DEF BranchesOrder, Yes, Taken, UnsignedBranch
    <3>2. CASE program \in SignedBranch
      <4>1. flags.n = 1 <=> Signed(left) < Signed(right)
        BY <2>1, <3>2 DEF Decided
      <4>2. Signed(left)' = Signed(left) /\ Signed(right)' = Signed(right)
        BY <1>3 DEF Signed, Size
      <4>3. QED
        BY <1>3, <2>2, <2>3, <2>4, <3>2, <4>1, <4>2
           DEF BranchesOrder, Yes, Taken, SignedBranch
    <3>3. QED
      BY <1>1, <3>1, <3>2 DEF Comparisons
  <2>7. QED
    BY <2>5, <2>6
<1>11. QED
  BY <1>4, <1>5, <1>6, <1>7, <1>8, <1>9, <1>10 DEF CompareNext, Compare, FlipSign

LEMMA ComparingKept ==
  ASSUME Comparing, BranchesOrder, [ProgramsNext]_allVars
  PROVE  Comparing' /\ BranchesOrder'
<1>1. CASE CompareNext
  BY <1>1, ComparingGoesOn
<1>2. CASE program \notin Comparisons /\ program' = program
  BY <1>2 DEF Comparing, BranchesOrder, Comparisons, SignedBranch, UnsignedBranch
<1>3. CASE UNCHANGED allVars
  BY <1>3 DEF allVars, vars, Comparing, BranchesOrder, SignLeft, Decided, Signed,
              OutOfRange, Yes, Byte, Size
<1>4. SumNext \/ LoopNext \/ program \in {"opcodes", "any"}
        => program \notin Comparisons
  BY DEF SumNext, LoopNext, Sums, Loops, Fills, Comparisons, SignedBranch, UnsignedBranch
<1>5. (SumNext \/ LoopNext) => program' = program
  BY DEF SumNext, SetCarry, LoadLength, LoadByte, Operate, StoreByte, CountDown,
         LoopNext, ClearIndex, Fetch, StoreIndexed, CountUp, LoadHalf, StoreHalf, JMP,
         Go, GoIf
<1>6. QED
  BY <1>1, <1>2, <1>3, <1>4, <1>5 DEF ProgramsNext

(* Whatever the bytes, and whatever their size, a comparison branches as    *)
(* they are ordered: BranchesOrder.                                         *)
THEOREM OrderTold == ProgramsSpec => []BranchesOrder
<1>1. ProgramsInit => Comparing /\ BranchesOrder
  BY ComparingStarts
<1>2. Comparing /\ BranchesOrder /\ [ProgramsNext]_allVars => Comparing' /\ BranchesOrder'
  BY ComparingKept
<1>3. QED
  BY <1>1, <1>2, PTL DEF ProgramsSpec

-----------------------------------------------------------------------------
(* Words and cells                                                          *)

LEMMA Grows ==
  ASSUME NEW a \in Nat, NEW b \in Nat, NEW c \in Nat, a <= b
  PROVE  c * a <= c * b
<1>1. PICK e \in Nat : b = a + e
  <2>1. b - a \in Nat /\ b = a + (b - a)
    OBVIOUS
  <2> QED BY <2>1
<1>2. c * b = c * a + c * e /\ c * e \in Nat /\ c * a \in Nat
  BY <1>1
<1> QED BY <1>2

LEMMA Divided ==
  ASSUME NEW n \in Nat, n > 0, NEW q \in Nat, NEW r \in 0 .. n - 1
  PROVE  (n * q + r) \div n = q /\ (n * q + r) % n = r
  OBVIOUS

(* A word is its two bytes, and a byte, or a word, its quotient and rest.   *)
LEMMA Words ==
  /\ Size \in Nat /\ Size > 3 /\ Byte = 0 .. Size - 1 /\ Space \in Nat /\ Space = Size * Size
  /\ \A low, high \in Byte :
       /\ Word(low, high) \in 0 .. Space - 1
       /\ Word(low, high) % Size = low
       /\ Word(low, high) \div Size = high
  /\ \A w \in 0 .. Space - 1 :
       /\ w % Size \in Byte /\ w \div Size \in Byte
       /\ Word(w % Size, w \div Size) = w
<1>1. /\ Size \in Nat /\ Size > 3 /\ Byte = 0 .. Size - 1 /\ Space \in Nat /\ Space = Size * Size
  BY HalfAssumption DEF Size, Byte, Space
<1>2. ASSUME NEW low \in Byte, NEW high \in Byte
      PROVE  /\ Word(low, high) \in 0 .. Space - 1
             /\ Word(low, high) % Size = low
             /\ Word(low, high) \div Size = high
  <2> HIDE DEF Size, Byte, Space
  <2>1. low \in 0 .. Size - 1 /\ high \in Nat /\ high <= Size - 1 /\ Size - 1 \in Nat
    BY <1>1
  <2>2. Size * high <= Size * (Size - 1) /\ Size * (Size - 1) = Size * Size - Size
    BY <1>1, <2>1, Grows
  <2>3. Word(low, high) = Size * high + low /\ Size * high \in Nat
    BY <1>1, <2>1 DEF Word
  <2>4. Word(low, high) \in 0 .. Space - 1
    BY <1>1, <2>1, <2>2, <2>3
  <2> QED BY <1>1, <2>1, <2>3, <2>4, Divided
<1>3. ASSUME NEW w \in 0 .. Space - 1
      PROVE  /\ w % Size \in Byte /\ w \div Size \in Byte
             /\ Word(w % Size, w \div Size) = w
  <2> DEFINE q == w \div Size
             r == w % Size
  <2>1. r \in 0 .. Size - 1 /\ q \in Nat /\ w = Size * q + r
    BY <1>1
  <2> HIDE DEF q, r
  <2>2. q < Size
    <3> SUFFICES ASSUME Size <= q PROVE FALSE
      BY <1>1, <2>1
    <3>1. Size * Size <= Size * q
      BY <1>1, <2>1, Grows
    <3> QED BY <1>1, <2>1, <3>1
  <2> QED BY <1>1, <2>1, <2>2 DEF q, r, Word
<1> QED BY <1>1, <1>2, <1>3

LEMMA CellsOfWords ==
  /\ Addresses = 0 .. Space - 1 /\ Cells = 0 .. Space + Size - 2
  /\ Byte \subseteq Addresses /\ Addresses \subseteq Cells /\ Cells \subseteq Nat
  /\ Space >= Size * 3
<1>1. Size \in Nat /\ Size > 3 /\ Byte = 0 .. Size - 1 /\ Space \in Nat /\ Space = Size * Size
  BY Words
<1>2. Size * 3 <= Size * Size
  BY <1>1, Grows
<1> QED
  BY <1>1, <1>2 DEF Addresses, Cells

LEMMA SizeFacts ==
  /\ Size \in Nat /\ Size > 3 /\ Space \in Nat /\ Space > 0
  /\ Byte = 0 .. Size - 1 /\ 0 \in Byte
  /\ Addresses = 0 .. Space - 1 /\ 0 \in Addresses /\ Byte \subseteq Addresses
<1>1. Size \in Nat /\ Size > 3 /\ Byte = 0 .. Size - 1 /\ Space \in Nat
  BY Words
<1>2. Space > 0
  BY <1>1, CellsOfWords
<1> QED
  BY <1>1, <1>2, CellsOfWords

-----------------------------------------------------------------------------
(* The programs are made of instructions                                    *)

(* What the loops hold: the numbers are of bytes, the index is one of the   *)
(* number's until the loop ends, and memory holds bytes.                    *)
SumTyped ==
  program \in Sums =>
    /\ left \in Number /\ right \in Number /\ out \in Number
    /\ at \in {"load", "operate", "store", "next"} => X \in 1 .. N
    /\ at = "branch" => X \in 0 .. N - 1 /\ (flags.z = 1 <=> X = 0)

LoopTyped ==
  program \in Loops =>
    /\ mem \in [Cells -> Byte] /\ start \in [Cells -> Byte]
    /\ s \in Byte /\ d \in Addresses /\ from \in Addresses /\ to \in Addresses

Typed == TypeOK /\ SumTyped /\ LoopTyped /\ Comparing

LEMMA ListingsApart ==
  /\ program \in Comparisons => program \notin Sums \cup Loops \cup {"opcodes", "any"}
  /\ program \in Sums => program \notin Comparisons \cup Loops \cup {"opcodes", "any"}
  /\ program \in Loops => program \notin Sums \cup Comparisons \cup {"opcodes", "any"}
  /\ program \in {"opcodes", "any"} => program \notin Sums \cup Comparisons \cup Loops
BY DEF Sums, Loops, Fills, Comparisons, SignedBranch, UnsignedBranch

LEMMA SumTypedStep ==
  ASSUME TypeOK, SumTyped, SumNext
  PROVE  [Next]_vars /\ SumTyped'
<1>1. /\ program \in Sums /\ left \in Number /\ right \in Number /\ out \in Number
      /\ N \in Nat /\ N > 0 /\ N < Size /\ N \in Byte /\ Size \in Nat
  BY NAssumption, HalfAssumption DEF SumNext, SumTyped, Byte, Size
<1>2. program' = program /\ left' = left /\ right' = right
  BY DEF SumNext, SetCarry, LoadLength, LoadByte, Operate, StoreByte, CountDown, Go, GoIf
<1>3. ASSUME X \in 1 .. N PROVE Turn \in 0 .. N - 1
  BY <1>1, <1>3 DEF Turn
<1>4. CASE SetCarry
  BY <1>1, <1>2, <1>4 DEF SetCarry, Go, CLC, SEC, SumTyped, Next
<1>5. CASE LoadLength
  <2>1. X' = N /\ LDX(N) /\ out' = out /\ at' = "load"
    BY <1>5 DEF LoadLength, LDX, Go
  <2> QED
    BY <1>1, <1>2, <2>1 DEF SumTyped, Next
<1>6. CASE LoadByte
  <2>1. at = "load" /\ X \in 1 .. N
    BY <1>1, <1>6 DEF LoadByte, Go, SumTyped
  <2>2. left[Turn] \in Byte
    BY <1>1, <1>3, <2>1 DEF Number
  <2>3. X' = X /\ LDA(left[Turn]) /\ out' = out /\ at' = "operate"
    BY <1>6 DEF LoadByte, LDA, SetA, Go
  <2> QED
    BY <1>1, <1>2, <2>1, <2>2, <2>3 DEF SumTyped, Next
<1>7. CASE Operate
  <2>1. at = "operate" /\ X \in 1 .. N /\ out' = out /\ at' = "store"
    BY <1>1, <1>7 DEF Operate, Go, SumTyped
  <2>2. right[Turn] \in Byte
    BY <1>1, <1>3, <2>1 DEF Number
  <2>3. ADC(right[Turn]) \/ SBC(right[Turn]) \/ OnA(RotatedRight)
    BY <1>7 DEF Operate
  <2>4. X' = X
    BY <2>3 DEF ADC, SBC, OnA
  <2>5. Next
    BY <2>2, <2>3 DEF Next, ROR
  <2> QED
    BY <1>1, <1>2, <2>1, <2>4, <2>5 DEF SumTyped
<1>8. CASE StoreByte
  <2>1. at = "store" /\ X \in 1 .. N /\ at' = "next" /\ out' = [out EXCEPT ![Turn] = M']
    BY <1>1, <1>8 DEF StoreByte, Go, SumTyped
  <2>2. STA /\ M' = A /\ X' = X
    BY <1>8 DEF StoreByte, STA
  <2>3. out' \in Number
    BY <1>1, <2>1, <2>2 DEF TypeOK, Number
  <2> QED
    BY <1>1, <1>2, <2>1, <2>2, <2>3 DEF SumTyped, Next
<1>9. CASE Go("next", "branch") /\ DEX /\ UNCHANGED out
  <2>1. at = "next" /\ X \in 1 .. N /\ at' = "branch"
    BY <1>1, <1>9 DEF Go, SumTyped
  <2>2. X' = Decremented(flags, X).r /\ flags' = Decremented(flags, X).f
    BY <1>9 DEF DEX, OnX
  <2>3. X # 0 /\ X - 1 \in 0 .. N - 1
    BY <1>1, <2>1
  <2>4. X' = X - 1 /\ flags' = ZN(flags, X - 1)
    BY <2>2, <2>3 DEF Decremented
  <2>5. flags'.z = 1 <=> X - 1 = 0
    BY <2>4 DEF ZN, Flag, TypeOK, Flags
  <2> QED
    BY <1>1, <1>2, <1>9, <2>1, <2>3, <2>4, <2>5 DEF SumTyped, Next
<1>10. CASE GoIf("branch", "BNE", "load", "done") /\ UNCHANGED out
  <2>1. at = "branch" /\ X \in 0 .. N - 1 /\ (flags.z = 1 <=> X = 0) /\ UNCHANGED vars
    BY <1>1, <1>10 DEF GoIf, Go, SumTyped
  <2>2. at' = IF flags.z = 0 THEN "load" ELSE "done"
    BY <1>10 DEF GoIf, Go, Taken
  <2>3. flags.z = 0 => X \in 1 .. N
    BY <1>1, <2>1
  <2> QED
    BY <1>1, <1>2, <1>10, <2>1, <2>2, <2>3 DEF SumTyped, vars
<1> QED
  BY <1>4, <1>5, <1>6, <1>7, <1>8, <1>9, <1>10 DEF SumNext, CountDown

LEMMA CompareTypedStep ==
  ASSUME Comparing, CompareNext
  PROVE  [Next]_vars
<1>1. left \in Byte /\ right \in Byte /\ Half \in Byte
  BY HalfAssumption DEF Comparing, CompareNext, Byte, Size
<1> QED
  BY <1>1 DEF CompareNext, LoadLeft, Compare, FlipSign, Decide, GoIf, Go, Next

(* Where the loops on memory read and store there is a cell.                *)
LEMMA CellsFound ==
  ASSUME TypeOK, LoopTyped, program \in Loops
  PROVE  /\ mem[IndirectY(mem, s, X)] \in Byte /\ mem[IndirectX(mem, s, X)] \in Byte
         /\ to % Size \in Byte /\ to \div Size \in Byte
<1>1. /\ mem \in [Cells -> Byte] /\ s \in Byte /\ X \in Byte /\ to \in Addresses
      /\ Size \in Nat /\ Size > 3 /\ Byte = 0 .. Size - 1 /\ Space \in Nat /\ Space > 0
      /\ \A i \in Byte : i \in Nat
  <2>1. Size \in Nat /\ Size > 3 /\ Byte = 0 .. Size - 1 /\ Space \in Nat
    BY Words
  <2>2. Space > 0
    BY <2>1, CellsOfWords
  <2>3. mem \in [Cells -> Byte] /\ s \in Byte /\ X \in Byte /\ to \in Addresses
    BY DEF LoopTyped, TypeOK
  <2> QED
    BY <2>1, <2>2, <2>3
<1>2. Byte \subseteq Cells /\ 0 .. Space - 1 \subseteq Cells /\ Addresses = 0 .. Space - 1
  BY CellsOfWords
<1>3. \A i \in Nat : i % Size \in Byte
  BY <1>1
<1>4. /\ mem[s] \in Byte /\ mem[(s + 1) % Size] \in Byte
      /\ mem[(s + X) % Size] \in Byte /\ mem[(s + 1 + X) % Size] \in Byte
  <2>1. s + 1 \in Nat /\ s + X \in Nat /\ s + 1 + X \in Nat
    BY <1>1
  <2> QED
    BY <1>1, <1>2, <1>3, <2>1
<1>5. IndirectX(mem, s, X) \in Cells
  BY <1>2, <1>4, Words DEF IndirectX
<1>6. IndirectY(mem, s, X) \in Cells
  <2> DEFINE w == Word(mem[s], mem[(s + 1) % Size]) + X
  <2>1. w \in Nat
    <3>1. Word(mem[s], mem[(s + 1) % Size]) \in 0 .. Space - 1
      BY <1>4, Words
    <3> QED
      BY <1>1, <3>1
  <2> HIDE DEF w
  <2>2. w % Space \in 0 .. Space - 1
    BY <1>1, <2>1
  <2> QED
    BY <1>2, <2>2 DEF w, IndirectY
<1> QED
  BY <1>1, <1>2, <1>5, <1>6, Words

LEMMA LoopTypedStep ==
  ASSUME TypeOK, LoopTyped, LoopNext
  PROVE  [Next]_vars /\ LoopTyped'
<1>1. program \in Loops /\ program' = program
  BY DEF LoopNext, ClearIndex, Fetch, StoreIndexed, CountUp, LoadHalf, StoreHalf, JMP, Go, GoIf
<1>2. ASSUME UNCHANGED memoryVars PROVE LoopTyped'
  BY <1>1, <1>2 DEF memoryVars, operands, LoopTyped
<1>3. ASSUME NEW a, StoreAt(a), UNCHANGED <<operands, landed>>
      PROVE  Next /\ LoopTyped'
  <2>1. STA /\ M' = A /\ mem' = [mem EXCEPT ![a] = A]
    BY <1>3 DEF StoreAt, STA
  <2>2. mem' \in [Cells -> Byte]
    BY <1>1, <2>1 DEF LoopTyped, TypeOK
  <2> QED
    BY <1>1, <1>3, <2>1, <2>2 DEF LoopTyped, operands, Next
<1>4. 0 \in Byte /\ Filler \in Byte
  BY Words DEF Filler
<1>5. CASE ClearIndex
  BY <1>2, <1>4, <1>5 DEF ClearIndex, Next
<1>6. CASE Fetch
  <2>1. UNCHANGED memoryVars /\ \E value \in Byte : LDA(value)
    <3>1. mem[IndirectY(mem, s, X)] \in Byte /\ mem[IndirectX(mem, s, X)] \in Byte
      BY <1>1, CellsFound
    <3> QED
      BY <1>4, <1>6, <3>1 DEF Fetch
  <2> QED
    BY <1>2, <2>1 DEF Next
<1>7. CASE StoreIndexed
  BY <1>3, <1>7 DEF StoreIndexed
<1>8. CASE CountUp
  BY <1>2, <1>8 DEF CountUp, GoIf, Next
<1>9. CASE LoadHalf
  <2>1. to % Size \in Byte /\ to \div Size \in Byte
    BY <1>1, CellsFound
  <2> QED
    BY <1>2, <1>9, <2>1 DEF LoadHalf, Next
<1>10. CASE StoreHalf
  BY <1>3, <1>10 DEF StoreHalf
<1>11. CASE JMP
  BY <1>1, <1>11 DEF JMP, vars, operands, LoopTyped
<1> QED
  BY <1>5, <1>6, <1>7, <1>8, <1>9, <1>10, <1>11 DEF LoopNext

LEMMA TypedStarts == ProgramsInit => Typed /\ BranchesOrder
<1> SUFFICES ASSUME ProgramsInit PROVE Typed /\ BranchesOrder
  OBVIOUS
<1>1. TypeOK /\ Init
  BY HalfAssumption DEF ProgramsInit, Init, TypeOK, Flags, Byte, Size
<1>2. SumTyped
  <2> SUFFICES ASSUME program \in Sums PROVE SumTyped
    BY DEF SumTyped
  <2>1. SumInit
    BY ListingsApart DEF ProgramsInit, CompareInit, LoopInit, Start
  <2>2. 0 \in Byte
    BY Words
  <2>3. left \in Number /\ right \in Number /\ at = "carry"
    BY <2>1 DEF SumInit, Start
  <2>4. out \in Number
    BY <2>1, <2>2 DEF SumInit, Number
  <2> QED
    BY <2>3, <2>4 DEF SumTyped
<1>3. LoopTyped
  <2> SUFFICES ASSUME program \in Loops PROVE LoopTyped
    BY DEF LoopTyped
  <2>1. LoopInit
    BY ListingsApart DEF ProgramsInit, CompareInit, SumInit, Start
  <2>2. /\ Size \in Nat /\ Size > 3 /\ Byte = 0 .. Size - 1 /\ 0 \in Byte /\ 0 \in Addresses
        /\ Addresses = 0 .. Space - 1 /\ Byte \subseteq Addresses
    BY SizeFacts
  <2>3. from \in Addresses /\ to \in Addresses
    BY <2>1, <2>2 DEF LoopInit
  <2>4. \A w \in Addresses : w % Size \in Byte /\ w \div Size \in Byte
    BY <2>2, Words
  <2>5. ASSUME NEW m \in [Cells -> Byte], NEW n \in Byte, NEW w \in Addresses
        PROVE  WithPointer(m, n, w) \in [Cells -> Byte]
    BY <2>4 DEF WithPointer
  <2>6. \A p \in Pointers : p.s \in Byte /\ p.d \in Byte
    BY ImageAssumption
  <2>7. s \in Byte /\ d \in Addresses
    <3>1. Size .. Space - 1 \subseteq Addresses
      BY <2>2
    <3> QED
      BY <2>1, <2>2, <2>6, <3>1 DEF LoopInit
  <2>8. start \in [Cells -> Byte] /\ mem = start
    <3>1. CASE program = "copy"
      <4>1. d \in Byte
        BY <2>1, <2>6, <3>1 DEF LoopInit
      <4>2. WithPointer(Image, s, from) \in [Cells -> Byte]
        BY <2>3, <2>5, <2>7, ImageAssumption
      <4>3. WithPointer(WithPointer(Image, s, from), d, to) \in [Cells -> Byte]
        BY <2>3, <2>5, <4>1, <4>2
      <4> QED
        BY <2>1, <3>1, <4>3 DEF LoopInit
    <3>2. CASE program # "copy"
      BY <2>1, <3>2, ImageAssumption DEF LoopInit
    <3> QED
      BY <3>1, <3>2
  <2> QED
    BY <2>3, <2>7, <2>8 DEF LoopTyped
<1> QED
  BY <1>1, <1>2, <1>3, ComparingStarts DEF Typed

LEMMA TypedStep ==
  ASSUME Typed, BranchesOrder, [ProgramsNext]_allVars
  PROVE  [Next]_vars /\ Typed' /\ BranchesOrder'
<1> USE DEF Typed
<1>1. Comparing' /\ BranchesOrder'
  BY ComparingKept
<1>2. ASSUME program' = program, program \notin Sums PROVE SumTyped'
  BY <1>2 DEF SumTyped
<1>3. ASSUME program' = program, program \notin Loops PROVE LoopTyped'
  BY <1>3 DEF LoopTyped
<1>4. CASE SumNext
  <2>1. program \in Sums /\ program' = program
    BY <1>4 DEF SumNext, SetCarry, LoadLength, LoadByte, Operate, StoreByte, CountDown,
                Go, GoIf
  <2> QED
    BY <1>1, <1>3, <1>4, <2>1, ListingsApart, SumTypedStep, TypeKept
<1>5. CASE LoopNext
  <2>1. program \in Loops /\ program' = program
    BY <1>5 DEF LoopNext, ClearIndex, Fetch, StoreIndexed, CountUp, LoadHalf, StoreHalf,
                JMP, Go, GoIf
  <2> QED
    BY <1>1, <1>2, <1>5, <2>1, ListingsApart, LoopTypedStep, TypeKept
<1>6. CASE CompareNext
  <2>1. program \in Comparisons /\ program' = program
    BY <1>6 DEF CompareNext, LoadLeft, Compare, FlipSign, Decide, Go, GoIf
  <2> QED
    BY <1>1, <1>2, <1>3, <1>6, <2>1, ListingsApart, CompareTypedStep, TypeKept
<1>7. CASE /\ program \in {"opcodes", "any"} /\ program' = program
           /\ [Next]_vars
  BY <1>1, <1>2, <1>3, <1>7, ListingsApart, TypeKept
<1>8. CASE UNCHANGED allVars
  <2>1. UNCHANGED <<vars, program, at, left, right, out, memoryVars>>
    BY <1>8 DEF allVars
  <2>2. SumTyped' /\ LoopTyped'
    BY <2>1 DEF SumTyped, LoopTyped, vars, memoryVars, operands
  <2> QED
    BY <1>1, <2>1, <2>2, TypeKept
<1> QED
  BY <1>4, <1>5, <1>6, <1>7, <1>8 DEF ProgramsNext

LEMMA TypedInvariance == ProgramsSpec => [](Typed /\ BranchesOrder)
<1>1. ProgramsInit => Typed /\ BranchesOrder
  BY TypedStarts
<1>2. Typed /\ BranchesOrder /\ [ProgramsNext]_allVars => (Typed /\ BranchesOrder)'
  BY TypedStep
<1> QED
  BY <1>1, <1>2, PTL DEF ProgramsSpec

(* Each step of a program, whichever, is one of the instructions of         *)
(* translate.c on bytes, or a branch that leaves the registers alone: what  *)
(* is proved of the instructions is proved of the programs.                 *)
THEOREM RunsInstructions == ProgramsSpec => Spec
<1>1. ProgramsInit => Init
  BY DEF ProgramsInit
<1>2. Typed /\ BranchesOrder /\ [ProgramsNext]_allVars => [Next]_vars
  BY TypedStep
<1> QED
  BY <1>1, <1>2, TypedInvariance, PTL DEF ProgramsSpec, Spec

-----------------------------------------------------------------------------
(* The jump                                                                 *)

(* What of the pointer the program has written, and what is in A.           *)
JumpKnows ==
  program = "jump" =>
    /\ at \in {"low", "storelow", "high", "storehigh", "jump", "done"}
    /\ at = "storelow" => A = to % Size
    /\ at \in {"high", "storehigh", "jump"} => mem[d] = to % Size
    /\ at = "storehigh" => A = to \div Size
    /\ at = "jump" => mem[(d + 1) % Space] = to \div Size

LEMMA NextCell ==
  ASSUME NEW w \in Addresses
  PROVE  /\ (w + 1) % Space \in Addresses /\ (w + 1) % Space # w
         /\ w % Size # Size - 1 => (w + 1) % Space = w + 1
<1>1. Size \in Nat /\ Size > 3 /\ Space \in Nat /\ w \in Nat /\ w < Space
  BY SizeFacts
<1>2. Space > 3
  <2>1. Space >= Size * 3
    BY CellsOfWords
  <2> QED
    BY <1>1, <2>1
<1> DEFINE y == w + 1
<1>3. y \in 1 .. Space
  BY <1>1
<1>4. y % Space = IF y < Space THEN y ELSE 0
  <2> HIDE DEF y
  <2>1. CASE y < Space
    <3>1. y = Space * 0 + y /\ y \in 0 .. Space - 1
      BY <1>1, <1>3, <2>1
    <3> QED
      BY <1>1, <2>1, <3>1, Divided
  <2>2. CASE y = Space
    <3>1. y = Space * 1 + 0 /\ 0 \in 0 .. Space - 1
      BY <1>1, <1>3, <2>2
    <3> QED
      BY <1>1, <2>2, <3>1, Divided
  <2> QED
    BY <1>1, <1>3, <2>1, <2>2
<1>5. w % Size # Size - 1 => y < Space
  <2> SUFFICES ASSUME y >= Space PROVE w % Size = Size - 1
    BY <1>1
  <2> DEFINE q == Size * (Size - 1)
  <2>1. q \in Nat /\ Space = q + Size
    <3>1. q = Size * Size - Size /\ Space = Size * Size
      BY <1>1, Words
    <3> QED
      BY <1>1, <3>1
  <2>2. w = q + (Size - 1) /\ Size - 1 \in 0 .. Size - 1 /\ Size - 1 \in Nat
    <3> HIDE DEF q
    <3> QED
      BY <1>1, <2>1
  <2> QED
    BY <1>1, <2>2, Divided
<1> HIDE DEF y
<1>6. y % Space \in Addresses /\ y % Space # w /\ (w % Size # Size - 1 => y % Space = y)
  <2>1. y = w + 1
    BY DEF y
  <2> QED
    BY <1>1, <1>2, <1>3, <1>4, <1>5, <2>1, SizeFacts
<1> QED
  BY <1>6 DEF y

(* The steps of the other programs leave those of memory alone.             *)
LEMMA LoopsApart ==
  ASSUME [ProgramsNext]_allVars
  PROVE  /\ program' = program
         /\ program \in Loops => LoopNext \/ UNCHANGED allVars
<1>1. SumNext => program' = program /\ program \in Sums
  BY DEF SumNext, SetCarry, LoadLength, LoadByte, Operate, StoreByte, CountDown, Go, GoIf
<1>2. CompareNext => program' = program /\ program \in Comparisons
  BY DEF CompareNext, LoadLeft, Compare, FlipSign, Decide, Go, GoIf
<1>3. LoopNext => program' = program
  BY DEF LoopNext, ClearIndex, Fetch, StoreIndexed, CountUp, LoadHalf, StoreHalf, JMP, Go, GoIf
<1> QED
  BY <1>1, <1>2, <1>3, ListingsApart DEF ProgramsNext, allVars

LEMMA OperandsKept ==
  ASSUME LoopNext
  PROVE  UNCHANGED operands /\ UNCHANGED program
BY DEF LoopNext, ClearIndex, Fetch, StoreIndexed, CountUp, LoadHalf, StoreHalf, JMP,
       Go, GoIf, memoryVars

LEMMA JumpStep ==
  ASSUME Typed, JumpKnows, LoopNext, program = "jump"
  PROVE  JumpKnows' /\ JumpLands'
<1> DEFINE lo == to % Size
           hi == to \div Size
           e == (d + 1) % Space
<1>1. /\ mem \in [Cells -> Byte] /\ d \in Cells /\ e \in Cells /\ e # d
      /\ program' = program /\ d' = d /\ to' = to
      /\ d % Size # Size - 1 => e = d + 1
  <2>1. mem \in [Cells -> Byte] /\ d \in Addresses
    BY DEF Typed, LoopTyped, Loops
  <2> QED
    BY <2>1, OperandsKept, NextCell, CellsOfWords DEF operands
<1>2. Word(lo, hi) = to
  BY Words, CellsOfWords DEF Typed, LoopTyped, Loops
<1>3. /\ (to % Size)' = lo /\ (to \div Size)' = hi /\ ((d + 1) % Space)' = e
      /\ (d % Size)' = d % Size /\ Size' = Size
  BY <1>1 DEF Size, Space
<1> HIDE DEF lo, hi, e
<1>4. /\ at \in {"low", "storelow", "high", "storehigh", "jump", "done"}
      /\ at = "storelow" => A = lo
      /\ at \in {"high", "storehigh", "jump"} => mem[d] = lo
      /\ at = "storehigh" => A = hi
      /\ at = "jump" => mem[e] = hi
  BY DEF JumpKnows, lo, hi, e
<1>5. SUFFICES /\ at' \in {"low", "storelow", "high", "storehigh", "jump", "done"}
               /\ at' = "storelow" => A' = lo
               /\ at' \in {"high", "storehigh", "jump"} => mem'[d] = lo
               /\ at' = "storehigh" => A' = hi
               /\ at' = "jump" => mem'[e] = hi
               /\ at' = "done" /\ d % Size # Size - 1 => landed' = to
  BY <1>1, <1>3 DEF JumpKnows, JumpLands
<1>6. CASE ClearIndex \/ Fetch \/ StoreIndexed \/ CountUp
  BY <1>4, <1>6 DEF ClearIndex, Fetch, StoreIndexed, CountUp, Go, GoIf
<1>7. CASE LoadHalf
  BY <1>4, <1>7 DEF LoadHalf, Go, LDA, SetA, memoryVars, lo, hi
<1>8. CASE Go("storelow", "high") /\ StoreAt(d)
  BY <1>1, <1>4, <1>8 DEF Go, StoreAt, STA
<1>9. CASE Go("storehigh", "jump") /\ StoreAt((d + 1) % Space)
  <2>1. mem' = [mem EXCEPT ![e] = A] /\ at = "storehigh" /\ at' = "jump"
    BY <1>9 DEF Go, StoreAt, STA, e
  <2> QED
    BY <1>1, <1>4, <2>1
<1>10. CASE JMP
  <2>1. at = "jump" /\ at' = "done" /\ landed' \in Indirect(mem, d)
    BY <1>10 DEF JMP, Go
  <2>2. d % Size # Size - 1 => landed' = Word(mem[d], mem[e])
    BY <1>1, <2>1 DEF Indirect
  <2> QED
    BY <1>2, <1>4, <2>1, <2>2
<1> QED
  BY <1>6, <1>7, <1>8, <1>9, <1>10 DEF LoopNext, StoreHalf

(* For every pointer but one that straddles two pages, and every cell a     *)
(* program writes one in, the jump through it lands where it points.        *)
THEOREM JumpsLand == ProgramsSpec => []JumpLands
<1>1. ProgramsInit => JumpKnows /\ JumpLands
  <2> SUFFICES ASSUME ProgramsInit, program = "jump" PROVE JumpKnows /\ JumpLands
    BY DEF JumpKnows, JumpLands
  <2>1. LoopInit
    BY ListingsApart DEF ProgramsInit, CompareInit, SumInit, Start, Loops
  <2> QED
    BY <2>1 DEF LoopInit, Start, JumpKnows, JumpLands
<1>2. Typed /\ JumpKnows /\ JumpLands /\ [ProgramsNext]_allVars => (JumpKnows /\ JumpLands)'
  <2> SUFFICES ASSUME Typed, JumpKnows, JumpLands, [ProgramsNext]_allVars
               PROVE  JumpKnows' /\ JumpLands'
    OBVIOUS
  <2>1. CASE program # "jump"
    BY <2>1, LoopsApart DEF JumpKnows, JumpLands
  <2>2. CASE program = "jump" /\ LoopNext
    BY <2>2, JumpStep
  <2>3. CASE UNCHANGED allVars
    BY <2>3 DEF allVars, vars, memoryVars, operands, JumpKnows, JumpLands, Size, Space
  <2> QED
    BY <2>1, <2>2, <2>3, LoopsApart DEF Loops
<1> QED
  BY <1>1, <1>2, TypedInvariance, PTL DEF ProgramsSpec

-----------------------------------------------------------------------------
(* Induction and recursion over the numbers, with sets in the place of      *)
(* predicates                                                               *)

LEMMA LeastNatural ==
  ASSUME NEW T, T \subseteq Nat, T # {}
  PROVE  \E x \in T : \A y \in T : x <= y
<1> DEFINE Below == {0 .. n : n \in T}
           R == StrictSubsetOrdering(Nat)
<1>1. \A n \in T : n \in Nat /\ 0 .. n \subseteq Nat /\ IsFiniteSet(0 .. n)
  BY FS_Interval
<1>2. Below \subseteq FiniteSubsetsOf(Nat) /\ Below # {}
  BY <1>1 DEF FiniteSubsetsOf
<1>3. IsWellFoundedOn(R, FiniteSubsetsOf(Nat))
  BY FS_StrictSubsetOrderingWellFounded
<1>4. PICK I \in Below : \A J \in Below : ~(<<J, I>> \in R)
  <2> HIDE DEF Below, R
  <2> QED
    BY <1>2, <1>3, WFMin
<1>5. PICK x \in T : I = 0 .. x
  OBVIOUS
<1>6. ASSUME NEW y \in T, ~(x <= y) PROVE FALSE
  <2>1. y \in Nat /\ x \in Nat /\ y < x
    BY <1>6
  <2>2. 0 .. y \in Below /\ 0 .. y \subseteq 0 .. x /\ x \in 0 .. x /\ x \notin 0 .. y
    BY <2>1
  <2>3. <<0 .. y, 0 .. x>> \in R
    BY <2>1, <2>2 DEF StrictSubsetOrdering
  <2> QED
    BY <1>4, <1>5, <2>2, <2>3
<1> QED
  BY <1>6

LEMMA SetInduction ==
  ASSUME NEW T, 0 \in T, \A n \in Nat : n \in T => n + 1 \in T
  PROVE  Nat \subseteq T
<1> SUFFICES ASSUME ~(Nat \subseteq T) PROVE FALSE
  OBVIOUS
<1>1. Nat \ T \subseteq Nat /\ Nat \ T # {}
  OBVIOUS
<1>2. PICK x \in Nat \ T : \A y \in Nat \ T : x <= y
  BY <1>1, LeastNatural
<1>3. x # 0 /\ x - 1 \in Nat /\ ~(x <= x - 1) /\ (x - 1) + 1 = x
  BY <1>2
<1> QED
  BY <1>2, <1>3

(* A function that takes each of its values from the one before exists.     *)
Unfolds(f, v, G, k) == f[0] = v /\ \A n \in 1 .. k : f[n] = G[<<n, f[n - 1]>>]

LEMMA Recursion ==
  ASSUME NEW S, NEW v \in S, NEW G, G \in [Nat \X S -> S], NEW k \in Nat
  PROVE  \E f \in [0 .. k -> S] : Unfolds(f, v, G, k)
<1> DEFINE Good(j, f) == f[0] = v /\ \A n \in 1 .. j : f[n] = G[<<n, f[n - 1]>>]
           T == {j \in Nat : \E f \in [0 .. j -> S] : Good(j, f)}
<1>1. 0 \in T
  <2> DEFINE f == [n \in 0 .. 0 |-> v]
  <2>1. f \in [0 .. 0 -> S] /\ Good(0, f)
    OBVIOUS
  <2> QED
    BY <2>1
<1>2. ASSUME NEW j \in Nat, j \in T PROVE j + 1 \in T
  <2>1. PICK f \in [0 .. j -> S] : Good(j, f)
    BY <1>2
  <2> DEFINE g == [n \in 0 .. j + 1 |-> IF n = j + 1 THEN G[<<n, f[j]>>] ELSE f[n]]
  <2>2. f[j] \in S /\ G[<<j + 1, f[j]>>] \in S
    OBVIOUS
  <2>3. g \in [0 .. j + 1 -> S]
    BY <2>2
  <2>4. g[0] = v
    BY <2>1
  <2>5. ASSUME NEW n \in 1 .. j + 1 PROVE g[n] = G[<<n, g[n - 1]>>]
    <3>1. CASE n = j + 1
      <4>1. g[n] = G[<<n, f[j]>>] /\ g[n - 1] = f[j] /\ n - 1 = j
        BY <3>1
      <4> QED
        BY <4>1
    <3>2. CASE n # j + 1
      <4>1. n \in 1 .. j /\ g[n] = f[n] /\ g[n - 1] = f[n - 1]
        BY <3>2
      <4> QED
        BY <2>1, <4>1
    <3> QED
      BY <3>1, <3>2
  <2>6. Good(j + 1, g)
    BY <2>4, <2>5
  <2> HIDE DEF g, Good
  <2> QED
    BY <2>3, <2>6
<1>3. k \in T
  <2> HIDE DEF T
  <2> QED
    BY <1>1, <1>2, SetInduction
<1> QED
  BY <1>3 DEF Unfolds

-----------------------------------------------------------------------------
(* The loops on memory                                                      *)

MoveTurn(m, n) ==
  IF program = "gather" /\ n % 2 = 0 THEN m
  ELSE [m EXCEPT ![Target(n - 1)] = m[Source(n - 1)]]

LEMMA MovedSteps ==
  ASSUME start \in [Cells -> Byte], \A i \in Byte : Source(i) \in Cells
  PROVE  /\ Moved[0] = start
         /\ \A n \in 1 .. Size : Moved[n] = MoveTurn(Moved[n - 1], n)
<1> DEFINE S == [Cells -> Byte]
           Is(f) == f = [n \in 0 .. Size |->
                           IF n = 0 THEN start
                           ELSE IF program = "gather" /\ n % 2 = 0 THEN f[n - 1]
                           ELSE [f[n - 1] EXCEPT ![Target(n - 1)] = f[n - 1][Source(n - 1)]]]
           G == [p \in Nat \X S |-> IF p[1] \in 1 .. Size THEN MoveTurn(p[2], p[1]) ELSE p[2]]
<1>1. Size \in Nat /\ Byte = 0 .. Size - 1
  BY SizeFacts
<1>2. ASSUME NEW n \in 1 .. Size, NEW m \in S
      PROVE  MoveTurn(m, n) \in S
  <2>1. n - 1 \in Byte
    BY <1>1
  <2>2. m[Source(n - 1)] \in Byte
    BY <2>1
  <2> QED
    BY <2>2 DEF MoveTurn
<1>3. G \in [Nat \X S -> S]
  <2> HIDE DEF S
  <2> QED
    BY <1>2
<1>4. start \in S
  OBVIOUS
<1>5. PICK f \in [0 .. Size -> S] : Unfolds(f, start, G, Size)
  <2> HIDE DEF S, G
  <2> QED
    BY <1>1, <1>3, <1>4, Recursion
<1>6. \A n \in 1 .. Size : f[n] = MoveTurn(f[n - 1], n)
  <2> HIDE DEF S
  <2>1. \A n \in 1 .. Size : n \in Nat /\ n - 1 \in 0 .. Size /\ f[n - 1] \in S
    BY <1>1
  <2> QED
    BY <1>5, <2>1 DEF Unfolds
<1>7. Is(f)
  <2>1. f = [n \in 0 .. Size |-> f[n]]
    OBVIOUS
  <2>2. \A n \in 0 .. Size :
          f[n] = IF n = 0 THEN start
                 ELSE IF program = "gather" /\ n % 2 = 0 THEN f[n - 1]
                 ELSE [f[n - 1] EXCEPT ![Target(n - 1)] = f[n - 1][Source(n - 1)]]
    <3>1. \A n \in 0 .. Size : n = 0 \/ n \in 1 .. Size
      BY <1>1
    <3> QED
      BY <1>5, <1>6, <3>1 DEF MoveTurn, Unfolds
  <2> QED
    BY <2>1, <2>2
<1>8. Is(Moved)
  <2>1. Moved = CHOOSE g : Is(g)
    BY DEF Moved
  <2> HIDE DEF Is
  <2> QED
    BY <1>7, <2>1
<1>9. \A n \in 0 .. Size :
        Moved[n] = IF n = 0 THEN start
                   ELSE IF program = "gather" /\ n % 2 = 0 THEN Moved[n - 1]
                   ELSE [Moved[n - 1] EXCEPT ![Target(n - 1)] = Moved[n - 1][Source(n - 1)]]
  <2> DEFINE E(n) == IF n = 0 THEN start
                     ELSE IF program = "gather" /\ n % 2 = 0 THEN Moved[n - 1]
                     ELSE [Moved[n - 1] EXCEPT ![Target(n - 1)] = Moved[n - 1][Source(n - 1)]]
  <2>1. Moved = [n \in 0 .. Size |-> E(n)]
    BY <1>8
  <2> HIDE DEF E
  <2>2. \A n \in 0 .. Size : Moved[n] = E(n)
    BY <2>1, Zenon
  <2> QED
    BY <2>2 DEF E
<1> QED
  <2>1. 0 \in 0 .. Size /\ \A n \in 1 .. Size : n \in 0 .. Size /\ n # 0
    BY <1>1
  <2> QED
    BY <1>9, <2>1 DEF MoveTurn

(* The loop's terms are of its operands, which its steps leave alone.       *)
LEMMA TurnsKept ==
  ASSUME program' = program, UNCHANGED operands
  PROVE  /\ Moved' = Moved
         /\ \A i \in Nat : Source(i)' = Source(i) /\ Target(i)' = Target(i)
<1>1. s' = s /\ d' = d /\ from' = from /\ to' = to /\ start' = start
  BY DEF operands
<1>2. \A i \in Nat : Source(i)' = Source(i) /\ Target(i)' = Target(i)
  BY <1>1 DEF Source, Target, Entry, Word, Space, Size
<1>3. Moved' = Moved
  BY <1>1 DEF Moved, Source, Target, Entry, Word, Space, Size
<1> QED
  BY <1>2, <1>3

(* Turns of the loop that have stored their byte.                           *)
Gone ==
  CASE at = "count" -> 0
    [] at \in {"load", "store"} -> X
    [] at \in {"skip", "next"} -> X + 1
    [] at = "branch" -> IF X = 0 THEN Size ELSE X
    [] at = "done" -> Size

FillTarget(i) ==
  CASE program = "fillz" -> (d + i) % Size
    [] program = "filly" -> (d + i) % Space
    [] program = "fillx" -> d + i

Filled(n) == [a \in Cells |-> IF a \in {FillTarget(i) : i \in 0 .. n - 1}
                              THEN Filler ELSE start[a]]

(* Where the pointers of a copy are, and that its page is apart from them.  *)
Laying ==
  /\ program = "copy" =>
       /\ d \in Byte
       /\ PageAt(to) \cap (PointerAt(s) \cup PointerAt(d)) = {}
       /\ start[s] = from % Size /\ start[(s + 1) % Size] = from \div Size
       /\ start[d] = to % Size /\ start[(d + 1) % Size] = to \div Size
  /\ program = "gather" => d \in Size .. Space - 1

(* Pointers and tables are as they were before the loop.                    *)
PointersKept ==
  /\ program = "copy" => \A c \in PointerAt(s) \cup PointerAt(d) : mem[c] = start[c]
  /\ program = "gather" => \A c \in Byte : mem[c] = start[c]

MoveKnows ==
  program \in Loops \ {"jump"} =>
    /\ Laying /\ PointersKept
    /\ at \in {"count", "load", "store", "skip", "next", "branch", "done"}
    /\ at = "skip" => program = "gather"
    /\ at = "branch" => (flags.z = 1 <=> X = 0)
    /\ program = "gather" /\ at \notin {"count", "done"} => X % 2 = IF at = "next" THEN 1 ELSE 0
    /\ at = "store" => A = IF program \in Fills THEN Filler ELSE Moved[X][Source(X)]
    /\ IF program \in Fills THEN mem = Filled(Gone) ELSE mem = Moved[Gone]

(* Where the turn now finds its byte and where it puts it.                  *)
LEMMA CopyPointers ==
  ASSUME Typed, Laying, PointersKept, program = "copy"
  PROVE  /\ IndirectY(mem, s, X) = Source(X) /\ IndirectY(mem, d, X) = Target(X)
         /\ Target(X) \in PageAt(to)
<1>1. mem[s] = from % Size /\ mem[(s + 1) % Size] = from \div Size
  BY DEF Laying, PointersKept, PointerAt
<1>2. mem[d] = to % Size /\ mem[(d + 1) % Size] = to \div Size
  BY DEF Laying, PointersKept, PointerAt
<1>3. from \in 0 .. Space - 1 /\ to \in 0 .. Space - 1 /\ X \in Byte
  BY DEF Typed, TypeOK, LoopTyped, Loops, Addresses
<1>4. Word(from % Size, from \div Size) = from /\ Word(to % Size, to \div Size) = to
  BY <1>3, Words
<1> QED
  BY <1>1, <1>2, <1>3, <1>4 DEF IndirectY, Source, Target, PageAt

LEMMA GatherEntry ==
  ASSUME Typed, PointersKept, program = "gather"
  PROVE  IndirectX(mem, s, X) = Source(X) /\ AbsoluteX(d, X) = Target(X)
<1>1. s \in Nat /\ X \in Nat /\ Size \in Nat /\ Size > 0 /\ Byte = 0 .. Size - 1
  BY SizeFacts DEF Typed, TypeOK, LoopTyped, Loops
<1>2. s + 1 + X = s + X + 1 /\ s + X \in Nat /\ s + X + 1 \in Nat
  BY <1>1
<1>3. \A i \in Nat : i % Size \in Byte
  BY <1>1
<1>4. /\ mem[(s + X) % Size] = start[(s + X) % Size]
      /\ mem[(s + X + 1) % Size] = start[(s + X + 1) % Size]
  BY <1>2, <1>3 DEF PointersKept
<1> QED
  BY <1>2, <1>4 DEF IndirectX, Source, Entry, AbsoluteX, Target

LEMMA SourcesAreCells ==
  ASSUME Typed, program \in Loops
  PROVE  /\ start \in [Cells -> Byte]
         /\ \A i \in Byte : Source(i) \in Cells
<1>1. /\ Size \in Nat /\ Size > 3 /\ Byte = 0 .. Size - 1 /\ Space \in Nat /\ Space > 0
      /\ s \in Nat /\ from \in Nat /\ start \in [Cells -> Byte]
      /\ Byte \subseteq Cells /\ 0 .. Space - 1 \subseteq Cells
  <2>1. Byte \subseteq Cells /\ 0 .. Space - 1 \subseteq Cells
    BY CellsOfWords
  <2>2. /\ Size \in Nat /\ Size > 3 /\ Byte = 0 .. Size - 1 /\ Space \in Nat /\ Space > 0
        /\ Addresses = 0 .. Space - 1
    BY SizeFacts
  <2>3. s \in Byte /\ from \in Addresses /\ start \in [Cells -> Byte]
    BY DEF Typed, LoopTyped
  <2> QED
    BY <2>1, <2>2, <2>3
<1>2. ASSUME NEW i \in Byte PROVE Source(i) \in Cells
  <2>1. s + i \in Nat /\ s + i + 1 \in Nat /\ from + i \in Nat
    BY <1>1
  <2>2. \A k \in Nat : k % Size \in Byte /\ k % Space \in Cells
    BY <1>1
  <2>3. Entry(i) \in Cells
    <3>1. start[(s + i) % Size] \in Byte /\ start[(s + i + 1) % Size] \in Byte
      BY <1>1, <2>1, <2>2
    <3> QED
      BY <1>1, <3>1, Words DEF Entry
  <2> QED
    BY <2>1, <2>2, <2>3 DEF Source
<1> QED
  BY <1>1, <1>2

LEMMA FilledNext ==
  ASSUME NEW n \in Nat, start \in [Cells -> Byte]
  PROVE  Filled(n + 1) = [Filled(n) EXCEPT ![FillTarget(n)] = Filler]
<1> DEFINE before == {FillTarget(i) : i \in 0 .. n - 1}
           after == {FillTarget(i) : i \in 0 .. (n + 1) - 1}
<1>1. after = before \cup {FillTarget(n)}
  <2>1. 0 .. (n + 1) - 1 = (0 .. n - 1) \cup {n}
    OBVIOUS
  <2> QED
    BY <2>1
<1>2. Filled(n + 1) = [a \in Cells |-> IF a \in after THEN Filler ELSE start[a]]
  BY DEF Filled
<1>3. Filled(n) = [a \in Cells |-> IF a \in before THEN Filler ELSE start[a]]
  BY DEF Filled
<1> HIDE DEF before, after
<1> QED
  BY <1>1, <1>2, <1>3

(* The store of a turn, and the cells it leaves.                            *)
LEMMA StoreTurn ==
  ASSUME Typed, MoveKnows, program \in Loops \ {"jump"}, StoreIndexed
  PROVE  /\ program \in Fills => mem' = Filled(X + 1)
         /\ program \notin Fills => mem' = Moved[X + 1]
         /\ program = "copy" => \A c \in PointerAt(s) \cup PointerAt(d) : mem'[c] = start[c]
         /\ program = "gather" => \A c \in Byte : mem'[c] = start[c]
<1> DEFINE t == CASE program = "copy" -> IndirectY(mem, d, X)
                  [] program = "filly" -> AbsoluteY(d, X)
                  [] program = "fillz" -> ZeroPageX(d, X)
                  [] OTHER -> AbsoluteX(d, X)
<1>1. mem' = [mem EXCEPT ![t] = A] /\ at = "store"
  BY DEF StoreIndexed, StoreAt, STA, Go
<1>2. /\ Laying /\ PointersKept
      /\ A = IF program \in Fills THEN Filler ELSE Moved[X][Source(X)]
      /\ IF program \in Fills THEN mem = Filled(X) ELSE mem = Moved[X]
      /\ program = "gather" => X % 2 = 0
  BY <1>1 DEF MoveKnows, Gone
<1>3. X \in Nat /\ X < Size /\ Size \in Nat /\ X + 1 \in 1 .. Size /\ (X + 1) - 1 = X
  BY SizeFacts DEF Typed, TypeOK
<1>4. mem \in [Cells -> Byte] /\ start \in [Cells -> Byte]
  BY DEF Typed, LoopTyped
<1>5. CASE program \in Fills
  <2>1. t = FillTarget(X)
    BY <1>5 DEF t, FillTarget, Fills, AbsoluteX, AbsoluteY, ZeroPageX
  <2>2. Filled(X + 1) = [Filled(X) EXCEPT ![FillTarget(X)] = Filler]
    BY <1>3, <1>4, FilledNext
  <2> QED
    BY <1>1, <1>2, <1>5, <2>1, <2>2 DEF Fills
<1>6. CASE program \in {"copy", "gather"}
  <2>1. t = Target(X)
    BY <1>2, <1>6, CopyPointers, GatherEntry DEF t
  <2>2. Moved[X + 1] = MoveTurn(Moved[X], X + 1)
    <3>1. \A i \in Byte : Source(i) \in Cells
      BY SourcesAreCells
    <3>2. \A n \in 1 .. Size : Moved[n] = MoveTurn(Moved[n - 1], n)
      BY <1>4, <3>1, MovedSteps
    <3> QED
      BY <1>3, <3>2
  <2>3. program = "gather" => (X + 1) % 2 # 0
    BY <1>2, <1>3
  <2>4. mem' = Moved[X + 1]
    BY <1>1, <1>2, <1>3, <1>6, <2>1, <2>2, <2>3 DEF MoveTurn, Fills
  <2>5. ASSUME program = "copy", NEW c \in PointerAt(s) \cup PointerAt(d)
        PROVE  mem'[c] = start[c]
    <3>1. t # c
      BY <1>2, <2>1, <2>5, CopyPointers DEF Laying
    <3>2. c \in Cells
      <4>1. s \in Byte /\ d \in Byte
        BY <1>2, <2>5 DEF Typed, LoopTyped, Loops, Laying
      <4>2. \A n \in Byte : n \in Byte /\ (n + 1) % Size \in Byte
        <5>1. Size \in Nat /\ Size > 0 /\ Byte = 0 .. Size - 1
          BY SizeFacts
        <5> QED
          BY <5>1
      <4> QED
        BY <2>5, <4>1, <4>2, CellsOfWords DEF PointerAt
    <3> QED
      BY <1>1, <1>2, <1>4, <2>5, <3>1, <3>2 DEF PointersKept
  <2>6. ASSUME program = "gather", NEW c \in Byte
        PROVE  mem'[c] = start[c]
    <3>1. Target(X) = d + X /\ d \in Nat /\ d >= Size
      BY <1>2, <1>3, <2>6 DEF Laying, Target
    <3>2. c \in Nat /\ c < Size /\ c \in Cells
      BY <1>3, SizeFacts, CellsOfWords
    <3>3. t # c
      BY <1>3, <2>1, <3>1, <3>2
    <3> QED
      BY <1>1, <1>2, <1>4, <2>6, <3>2, <3>3 DEF PointersKept
  <2> QED
    BY <1>6, <2>4, <2>5, <2>6 DEF Fills
<1> QED
  BY <1>5, <1>6 DEF Loops

LEMMA MoveStep ==
  ASSUME Typed, MoveKnows, program \in Loops \ {"jump"}, LoopNext
  PROVE  MoveKnows'
<1>1. /\ program' = program /\ s' = s /\ d' = d /\ from' = from /\ to' = to /\ start' = start
  BY OperandsKept DEF operands
<1>2. Size' = Size /\ Filler' = Filler /\ Moved' = Moved
  BY <1>1, TurnsKept DEF Size, Filler, operands
<1>3. /\ Laying
      /\ program = "copy" => \A c \in PointerAt(s) \cup PointerAt(d) : mem[c] = start[c]
      /\ program = "gather" => \A c \in Byte : mem[c] = start[c]
      /\ at \in {"count", "load", "store", "skip", "next", "branch", "done"}
      /\ at = "skip" => program = "gather"
      /\ at = "branch" => (flags.z = 1 <=> X = 0)
      /\ program = "gather" /\ at \notin {"count", "done"} => X % 2 = IF at = "next" THEN 1 ELSE 0
      /\ IF program \in Fills THEN mem = Filled(Gone) ELSE mem = Moved[Gone]
  BY DEF MoveKnows, PointersKept
<1>4. SUFFICES
        /\ program = "copy" => \A c \in PointerAt(s) \cup PointerAt(d) : mem'[c] = start[c]
        /\ program = "gather" => \A c \in Byte : mem'[c] = start[c]
        /\ at' \in {"count", "load", "store", "skip", "next", "branch", "done"}
        /\ at' = "skip" => program = "gather"
        /\ at' = "branch" => (flags'.z = 1 <=> X' = 0)
        /\ program = "gather" /\ at' \notin {"count", "done"}
             => X' % 2 = IF at' = "next" THEN 1 ELSE 0
        /\ at' = "store" => A' = IF program \in Fills THEN Filler ELSE Moved[X'][Source(X)']
        /\ IF program \in Fills THEN mem' = Filled(Gone') ELSE mem' = Moved[Gone']
  <2>1. Laying'
    <3>1. /\ PageAt(to)' = PageAt(to)
          /\ PointerAt(s)' = PointerAt(s) /\ PointerAt(d)' = PointerAt(d)
      BY <1>1 DEF PageAt, PointerAt, Space, Size, Byte
    <3>2. /\ (d \in Byte)' <=> d \in Byte
          /\ (d \in Size .. Space - 1)' <=> d \in Size .. Space - 1
      BY <1>1 DEF Space, Size, Byte
    <3>3. /\ start[s]' = start[s] /\ start[(s + 1) % Size]' = start[(s + 1) % Size]
          /\ start[d]' = start[d] /\ start[(d + 1) % Size]' = start[(d + 1) % Size]
          /\ (from % Size)' = from % Size /\ (from \div Size)' = from \div Size
          /\ (to % Size)' = to % Size /\ (to \div Size)' = to \div Size
      BY <1>1 DEF Size
    <3> QED
      BY <1>1, <1>3, <3>1, <3>2, <3>3 DEF Laying
  <2>2. (program \in Fills)' <=> program \in Fills
    BY <1>1 DEF Fills
  <2>3. Filled(Gone)' = Filled(Gone')
    BY <1>1 DEF Filled, FillTarget, Cells, Space, Size, Filler
  <2>4. PointersKept'
    BY <1>1, <1>4 DEF PointersKept, PointerAt, Byte, Size
  <2> QED
    BY <1>1, <1>2, <1>4, <2>1, <2>2, <2>3, <2>4 DEF MoveKnows
<1>5. X \in Nat /\ X < Size /\ Size \in Nat /\ Size = 2 * Half /\ Half \in Nat
  BY SizeFacts, HalfAssumption DEF Typed, TypeOK, Size
<1>6. CASE ClearIndex
  <2>1. at = "count" /\ at' = "load" /\ X' = 0 /\ mem' = mem
    BY <1>6 DEF ClearIndex, Go, LDX, memoryVars
  <2>2. Gone = 0 /\ Gone' = 0
    BY <2>1 DEF Gone
  <2> QED
    BY <1>3, <2>1, <2>2
<1>7. CASE Fetch
  <2>1. at = "load" /\ at' = "store" /\ X' = X /\ mem' = mem
    BY <1>7 DEF Fetch, Go, LDA, SetA, memoryVars
  <2>2. Gone = X /\ Gone' = X
    BY <2>1 DEF Gone
  <2>3. Source(X)' = Source(X)
    BY <1>1, <2>1 DEF Source, Entry, Word, Space, Size
  <2>4. A' = IF program \in Fills THEN Filler ELSE mem[Source(X)]
    <3>1. A' = CASE program = "copy" -> mem[IndirectY(mem, s, X)]
                 [] program = "gather" -> mem[IndirectX(mem, s, X)]
                 [] OTHER -> Filler
      BY <1>7 DEF Fetch, LDA, SetA
    <3>2. program = "copy" => IndirectY(mem, s, X) = Source(X)
      BY CopyPointers DEF MoveKnows
    <3>3. program = "gather" => IndirectX(mem, s, X) = Source(X)
      BY GatherEntry DEF MoveKnows
    <3> QED
      BY <3>1, <3>2, <3>3 DEF Loops, Fills
  <2> QED
    BY <1>3, <2>1, <2>2, <2>3, <2>4
<1>8. CASE StoreIndexed
  <2>1. /\ at = "store" /\ X' = X
        /\ at' = IF program = "gather" THEN "skip" ELSE "next"
    BY <1>8 DEF StoreIndexed, StoreAt, STA, Go
  <2>2. Gone' = X + 1
    BY <2>1 DEF Gone
  <2> QED
    BY <1>3, <1>8, <2>1, <2>2, StoreTurn
<1>9. CASE Go("skip", "next") /\ INX /\ UNCHANGED memoryVars
  <2>1. at = "skip" /\ at' = "next" /\ mem' = mem /\ program = "gather" /\ X % 2 = 0
    BY <1>3, <1>9 DEF Go, memoryVars
  <2>2. X # Size - 1 /\ X + 1 < Size
    BY <1>5, <2>1
  <2>3. X' = X + 1
    BY <1>9, <2>2 DEF INX, OnX, Incremented
  <2>4. Gone = X + 1 /\ Gone' = X + 2 /\ (X + 2) % 2 = 0 /\ X + 2 \in 1 .. Size
        /\ (X + 2) - 1 = X + 1 /\ (X + 1) % 2 = 1
    BY <1>5, <2>1, <2>2, <2>3 DEF Gone
  <2>5. Moved[X + 2] = Moved[X + 1]
    <3>1. start \in [Cells -> Byte] /\ \A i \in Byte : Source(i) \in Cells
      BY SourcesAreCells
    <3>2. \A n \in 1 .. Size : Moved[n] = MoveTurn(Moved[n - 1], n)
      BY <3>1, MovedSteps
    <3> QED
      BY <2>1, <2>4, <3>2 DEF MoveTurn
  <2> QED
    BY <1>3, <2>1, <2>3, <2>4, <2>5 DEF Fills
<1>10. CASE Go("next", "branch") /\ INX /\ UNCHANGED memoryVars
  <2>1. /\ at = "next" /\ at' = "branch" /\ mem' = mem /\ (program = "gather" => X % 2 = 1)
        /\ flags \in Flags
    BY <1>3, <1>10 DEF Go, memoryVars, Typed, TypeOK
  <2>2. /\ X' = IF X = Size - 1 THEN 0 ELSE X + 1
        /\ flags'.z = 1 <=> X' = 0
    <3>1. X + 1 # 0
      BY <1>5
    <3> QED
      BY <1>10, <2>1, <3>1 DEF INX, OnX, Incremented, ZN, Flags, Flag
  <2>3. Gone = X + 1 /\ Gone' = X + 1
    BY <1>2, <1>5, <2>1, <2>2 DEF Gone
  <2>4. program = "gather" => X' % 2 = 0
    BY <1>5, <2>1, <2>2
  <2> QED
    BY <1>3, <2>1, <2>2, <2>3, <2>4
<1>11. CASE GoIf("branch", "BNE", "load", "done") /\ UNCHANGED memoryVars
  <2>1. /\ at = "branch" /\ mem' = mem /\ X' = X /\ flags \in Flags
        /\ at' = IF flags.z = 0 THEN "load" ELSE "done"
    BY <1>11 DEF GoIf, Go, Taken, memoryVars, vars, Typed, TypeOK
  <2>2. at' = IF X = 0 THEN "done" ELSE "load"
    BY <1>3, <2>1 DEF Flags
  <2>3. Gone' = Gone
    BY <1>2, <2>1, <2>2 DEF Gone
  <2> QED
    BY <1>3, <2>1, <2>2, <2>3
<1>12. CASE LoadHalf \/ StoreHalf \/ JMP
  BY <1>3, <1>12 DEF LoadHalf, StoreHalf, JMP, Go
<1> QED
  BY <1>6, <1>7, <1>8, <1>9, <1>10, <1>11, <1>12 DEF LoopNext, CountUp

LEMMA MoveStarts == ProgramsInit => MoveKnows
<1> SUFFICES ASSUME ProgramsInit, program \in Loops \ {"jump"} PROVE MoveKnows
  BY DEF MoveKnows
<1>1. LoopInit /\ Typed
  BY ListingsApart, TypedStarts DEF ProgramsInit, CompareInit, SumInit, Start
<1>2. at = "count" /\ mem = start
  BY <1>1 DEF LoopInit, Start
<1>3. PointersKept
  BY <1>2 DEF PointersKept
<1>4. Laying
  <2>1. CASE program = "copy"
    <3>1. PICK p \in Pointers : s = p.s /\ d = p.d
      BY <1>1, <2>1 DEF LoopInit
    <3>2. s \in Byte /\ d \in Byte /\ PointerAt(s) \cap PointerAt(d) = {}
      BY <3>1, ImageAssumption
    <3>3. /\ start = WithPointer(WithPointer(Image, s, from), d, to)
          /\ PageAt(to) \cap (PointerAt(s) \cup PointerAt(d)) = {}
      BY <1>1, <2>1 DEF LoopInit
    <3>4. Image \in [Cells -> Byte] /\ Byte \subseteq Cells
      BY ImageAssumption, CellsOfWords
    <3>5. \A n \in Byte : (n + 1) % Size \in Byte /\ (n + 1) % Size # n
      <4> SUFFICES ASSUME NEW n \in Byte
                   PROVE  (n + 1) % Size \in Byte /\ (n + 1) % Size # n
        OBVIOUS
      <4> DEFINE y == n + 1
      <4>1. y \in 1 .. Size /\ Size \in Nat /\ Size > 3 /\ Byte = 0 .. Size - 1
        BY SizeFacts
      <4>2. y % Size = IF y < Size THEN y ELSE 0
        <5> HIDE DEF y
        <5>1. CASE y < Size
          <6>1. y = Size * 0 + y /\ y \in 0 .. Size - 1
            BY <4>1, <5>1
          <6> QED
            BY <4>1, <5>1, <6>1, Divided
        <5>2. CASE y = Size
          <6>1. y = Size * 1 + 0 /\ 0 \in 0 .. Size - 1
            BY <4>1, <5>2
          <6> QED
            BY <4>1, <5>2, <6>1, Divided
        <5> QED
          BY <4>1, <5>1, <5>2
      <4>3. y = n + 1
        OBVIOUS
      <4> HIDE DEF y
      <4>4. y % Size \in Byte /\ y % Size # n
        BY <4>1, <4>2, <4>3
      <4> QED
        BY <4>4 DEF y
    <3> DEFINE s1 == (s + 1) % Size
               d1 == (d + 1) % Size
    <3>6. s \in Cells /\ d \in Cells /\ s1 \in Cells /\ d1 \in Cells /\ s1 # s /\ d1 # d
      BY <3>2, <3>4, <3>5
    <3>7. s # d /\ s # d1 /\ s1 # d /\ s1 # d1
      BY <3>2 DEF PointerAt
    <3>8. start = [[[[Image EXCEPT ![s] = from % Size] EXCEPT ![s1] = from \div Size]
                    EXCEPT ![d] = to % Size] EXCEPT ![d1] = to \div Size]
      BY <3>3, <3>4 DEF WithPointer
    <3> HIDE DEF s1, d1
    <3>9. /\ start[s] = from % Size /\ start[s1] = from \div Size
          /\ start[d] = to % Size /\ start[d1] = to \div Size
      BY <3>4, <3>6, <3>7, <3>8
    <3> QED
      BY <2>1, <3>2, <3>3, <3>9 DEF Laying, s1, d1
  <2>2. CASE program # "copy"
    BY <1>1, <2>2 DEF LoopInit, Laying
  <2> QED
    BY <2>1, <2>2
<1>5. Gone = 0
  BY <1>2 DEF Gone
<1>6. CASE program \in Fills
  <2>1. start = [a \in Cells |-> start[a]]
    BY <1>1 DEF Typed, LoopTyped
  <2>2. {FillTarget(i) : i \in 0 .. 0 - 1} = {}
    OBVIOUS
  <2>3. Filled(0) = start
    BY <2>1, <2>2 DEF Filled
  <2> QED
    BY <1>2, <1>3, <1>4, <1>5, <1>6, <2>3 DEF MoveKnows
<1>7. CASE program \notin Fills
  <2>1. Moved[0] = start
    BY <1>1, SourcesAreCells, MovedSteps
  <2> QED
    BY <1>2, <1>3, <1>4, <1>5, <1>7, <2>1 DEF MoveKnows
<1> QED
  BY <1>6, <1>7

LEMMA MoveTold ==
  ASSUME MoveKnows
  PROVE  LoopsMoveBytes
<1> SUFFICES ASSUME AtHead, program \in Loops \ {"jump"}
             PROVE  /\ program \in {"copy", "gather"} => mem = Moved[Done]
                    /\ program \in Fills => mem = Filled(Done)
  <2>1. program \in {"copy", "gather"} \/ program \in Fills => program \in Loops \ {"jump"}
    BY DEF Loops, Fills
  <2> QED
    BY <2>1 DEF LoopsMoveBytes, Filled, FillTarget
<1>1. Gone = Done
  BY DEF Gone, Done, AtHead
<1> QED
  BY <1>1 DEF MoveKnows, Fills

(* Whatever memory holds, however the pages and pointers of a copy lie, and *)
(* whatever the table a gathering follows, the loops on memory move the     *)
(* bytes their listings say: LoopsMoveBytes.                                *)
THEOREM BytesMoved == ProgramsSpec => []LoopsMoveBytes
<1>1. ProgramsInit => MoveKnows
  BY MoveStarts
<1>2. Typed /\ MoveKnows /\ [ProgramsNext]_allVars => MoveKnows'
  <2> SUFFICES ASSUME Typed, MoveKnows, [ProgramsNext]_allVars
               PROVE  MoveKnows'
    OBVIOUS
  <2>1. CASE program \notin Loops \ {"jump"}
    BY <2>1, LoopsApart DEF MoveKnows, Loops, Fills
  <2>2. CASE program \in Loops \ {"jump"} /\ LoopNext
    BY <2>2, MoveStep
  <2>3. CASE UNCHANGED allVars
    <3>1. Moved' = Moved /\ Source(X)' = Source(X)
      BY <2>3, TurnsKept DEF allVars, vars, memoryVars, operands, Source, Entry, Word, Space, Size
    <3>2. Laying' <=> Laying
      BY <2>3 DEF allVars, memoryVars, operands, Laying, PageAt, PointerAt, Space, Size, Byte
    <3>3. PointersKept' <=> PointersKept
      BY <2>3 DEF allVars, memoryVars, operands, PointersKept, PointerAt, Size, Byte
    <3>4. Filled(Gone)' = Filled(Gone) /\ Gone' = Gone
      BY <2>3 DEF allVars, vars, memoryVars, operands, Filled, FillTarget, Gone, Cells,
                  Space, Size, Filler
    <3> QED
      BY <2>3, <3>1, <3>2, <3>3, <3>4 DEF allVars, vars, memoryVars, MoveKnows, Loops, Fills,
         Filler, Size
  <2> QED
    BY <2>1, <2>2, <2>3, LoopsApart
<1> QED
  BY <1>1, <1>2, TypedInvariance, MoveTold, PTL DEF ProgramsSpec

-----------------------------------------------------------------------------
(* Decoding                                                                 *)

None == UNION {section.none : section \in Sections}
One == UNION {section.one : section \in Sections}
Two == UNION {section.two : section \in Sections}

LEMMA OperandsFound ==
  /\ \A op \in None : op \in Opcode /\ Operands(op) = 0
  /\ \A op \in One : op \in Opcode /\ Operands(op) = 1
  /\ \A op \in Two : op \in Opcode /\ Operands(op) = 2
<1>1. \A op \in Arithmetic.none \cup Jumps.none \cup Moves.none \cup Shifts.none
                \cup Extended.none \cup NotImplemented.none :
        op \in Opcode /\ Operands(op) = 0
  BY DEF Arithmetic, Jumps, Moves, Shifts, Extended, NotImplemented, Operands, Opcode
<1>2. \A op \in Arithmetic.one \cup Jumps.one \cup Moves.one \cup Shifts.one
                \cup Extended.one \cup NotImplemented.one :
        op \in Opcode /\ Operands(op) = 1
  BY DEF Arithmetic, Jumps, Moves, Shifts, Extended, NotImplemented, Operands, Opcode
<1>3. \A op \in Arithmetic.two \cup Jumps.two \cup Moves.two \cup Shifts.two
                \cup Extended.two \cup NotImplemented.two :
        op \in Opcode /\ Operands(op) = 2
  BY DEF Arithmetic, Jumps, Moves, Shifts, Extended, NotImplemented, Operands, Opcode
<1> QED
  BY <1>1, <1>2, <1>3 DEF None, One, Two, Sections

(* The lengths insn.decode gives are the manual's.                          *)
LEMMA LengthsAgree ==
  ASSUME NEW op \in Defined
  PROVE  Length(op) = 1 + Operands(op)
<1>1. op \in None \/ op \in One \/ op \in Two
  BY DEF Defined, None, One, Two
<1>2. Length(op) = IF op \in None THEN 1 ELSE IF op \in One THEN 2 ELSE 3
  BY DEF Length, None, One
<1> QED
  BY <1>1, <1>2, OperandsFound

LEMMA DocumentedDefined ==
  Documented \subseteq None \cup One \cup Two
<1> DEFINE All == Arithmetic.none \cup Jumps.none \cup Moves.none \cup Shifts.none
                  \cup Extended.none \cup NotImplemented.none
                  \cup Arithmetic.one \cup Jumps.one \cup Moves.one \cup Shifts.one
                  \cup Extended.one \cup NotImplemented.one
                  \cup Arithmetic.two \cup Jumps.two \cup Moves.two \cup Shifts.two
                  \cup Extended.two \cup NotImplemented.two
<1>1. All \subseteq None \cup One \cup Two
  BY DEF None, One, Two, Sections
<1>2. ASSUME NEW op \in Documented PROVE op \in All
  <2> DEFINE a == op \div 32
             b == (op \div 4) % 8
             c == op % 4
  <2>1. /\ a \in 0 .. 7 /\ b \in 0 .. 7 /\ c \in 0 .. 3
        /\ op = 32 * a + 4 * b + c
    BY DEF Documented, Opcode
  <2>2. /\ c = 0 => \/ b \in {2, 4, 6}
                    \/ b = 0 /\ a # 4
                    \/ b = 1 /\ a \notin {0, 2, 3}
                    \/ b = 3 /\ a # 0
                    \/ b = 5 /\ a \in {4, 5}
                    \/ b = 7 /\ a = 5
        /\ c = 1 => op # \h89
        /\ c = 2 => \/ b \in {1, 2, 3, 5}
                    \/ b = 0 /\ a = 5
                    \/ b = 6 /\ a \in {4, 5}
                    \/ b = 7 /\ a # 4
        /\ c # 3
    BY DEF Documented
  <2> HIDE DEF a, b, c
  <2>3. CASE c = 0
    <3>1. CASE b = 0
      BY <2>1, <2>2, <2>3, <3>1 DEF Arithmetic, Jumps, Moves, Shifts, Extended, NotImplemented
    <3>2. CASE b = 1
      BY <2>1, <2>2, <2>3, <3>2 DEF Arithmetic, Jumps, Moves, Shifts, Extended, NotImplemented
    <3>3. CASE b = 2
      BY <2>1, <2>2, <2>3, <3>3 DEF Arithmetic, Jumps, Moves, Shifts, Extended, NotImplemented
    <3>4. CASE b = 3
      BY <2>1, <2>2, <2>3, <3>4 DEF Arithmetic, Jumps, Moves, Shifts, Extended, NotImplemented
    <3>5. CASE b = 4
      BY <2>1, <2>2, <2>3, <3>5 DEF Arithmetic, Jumps, Moves, Shifts, Extended, NotImplemented
    <3>6. CASE b = 5
      BY <2>1, <2>2, <2>3, <3>6 DEF Arithmetic, Jumps, Moves, Shifts, Extended, NotImplemented
    <3>7. CASE b = 6
      BY <2>1, <2>2, <2>3, <3>7 DEF Arithmetic, Jumps, Moves, Shifts, Extended, NotImplemented
    <3>8. CASE b = 7
      BY <2>1, <2>2, <2>3, <3>8 DEF Arithmetic, Jumps, Moves, Shifts, Extended, NotImplemented
    <3> QED
      BY <2>1, <3>1, <3>2, <3>3, <3>4, <3>5, <3>6, <3>7, <3>8
  <2>4. CASE c = 1
    <3>1. CASE b = 0
      BY <2>1, <2>2, <2>4, <3>1 DEF Arithmetic, Jumps, Moves, Shifts, Extended, NotImplemented
    <3>2. CASE b = 1
      BY <2>1, <2>2, <2>4, <3>2 DEF Arithmetic, Jumps, Moves, Shifts, Extended, NotImplemented
    <3>3. CASE b = 2
      BY <2>1, <2>2, <2>4, <3>3 DEF Arithmetic, Jumps, Moves, Shifts, Extended, NotImplemented
    <3>4. CASE b = 3
      BY <2>1, <2>2, <2>4, <3>4 DEF Arithmetic, Jumps, Moves, Shifts, Extended, NotImplemented
    <3>5. CASE b = 4
      BY <2>1, <2>2, <2>4, <3>5 DEF Arithmetic, Jumps, Moves, Shifts, Extended, NotImplemented
    <3>6. CASE b = 5
      BY <2>1, <2>2, <2>4, <3>6 DEF Arithmetic, Jumps, Moves, Shifts, Extended, NotImplemented
    <3>7. CASE b = 6
      BY <2>1, <2>2, <2>4, <3>7 DEF Arithmetic, Jumps, Moves, Shifts, Extended, NotImplemented
    <3>8. CASE b = 7
      BY <2>1, <2>2, <2>4, <3>8 DEF Arithmetic, Jumps, Moves, Shifts, Extended, NotImplemented
    <3> QED
      BY <2>1, <3>1, <3>2, <3>3, <3>4, <3>5, <3>6, <3>7, <3>8
  <2>5. CASE c = 2
    <3>1. CASE b = 0
      BY <2>1, <2>2, <2>5, <3>1 DEF Arithmetic, Jumps, Moves, Shifts, Extended, NotImplemented
    <3>2. CASE b = 1
      BY <2>1, <2>2, <2>5, <3>2 DEF Arithmetic, Jumps, Moves, Shifts, Extended, NotImplemented
    <3>3. CASE b = 2
      BY <2>1, <2>2, <2>5, <3>3 DEF Arithmetic, Jumps, Moves, Shifts, Extended, NotImplemented
    <3>4. CASE b = 3
      BY <2>1, <2>2, <2>5, <3>4 DEF Arithmetic, Jumps, Moves, Shifts, Extended, NotImplemented
    <3>5. CASE b = 4
      BY <2>1, <2>2, <2>5, <3>5 DEF Arithmetic, Jumps, Moves, Shifts, Extended, NotImplemented
    <3>6. CASE b = 5
      BY <2>1, <2>2, <2>5, <3>6 DEF Arithmetic, Jumps, Moves, Shifts, Extended, NotImplemented
    <3>7. CASE b = 6
      BY <2>1, <2>2, <2>5, <3>7 DEF Arithmetic, Jumps, Moves, Shifts, Extended, NotImplemented
    <3>8. CASE b = 7
      BY <2>1, <2>2, <2>5, <3>8 DEF Arithmetic, Jumps, Moves, Shifts, Extended, NotImplemented
    <3> QED
      BY <2>1, <3>1, <3>2, <3>3, <3>4, <3>5, <3>6, <3>7, <3>8
  <2>6. c # 3
    BY <2>2
  <2> QED
    BY <2>1, <2>3, <2>4, <2>5, <2>6
<1> QED
  BY <1>1, <1>2

LEMMA BranchesDefined ==
  /\ DOMAIN Branch = Jumps.one
  /\ \A op \in Jumps.one : op \in Defined /\ Length(op) = 2
<1>1. DOMAIN Branch = Jumps.one
  BY DEF Branch
<1>2. \A op \in Jumps.one : op \in One /\ op \in Defined
  BY DEF One, Defined, Sections
<1> QED
  BY <1>1, <1>2, LengthsAgree, OperandsFound

(* Each instruction is laid behind the one before and its operands.         *)
LEMMA LaidSteps ==
  ASSUME code \in [1 .. Count -> Opcode]
  PROVE  /\ Laid(1) = Origin
         /\ \A i \in 1 .. Count : Laid(i + 1) = Laid(i) + 1 + Operands(code[i])
         /\ \A i \in 1 .. Count + 1 : Laid(i) \in Nat
<1> DEFINE Is(f) == f = [j \in 1 .. Count + 1 |->
                           IF j = 1 THEN Origin ELSE f[j - 1] + 1 + Operands(code[j - 1])]
           laid == CHOOSE f : Is(f)
           G == [p \in Nat \X Nat |-> IF p[1] \in 1 .. Count
                                      THEN p[2] + 1 + Operands(code[p[1]]) ELSE p[2]]
<1>1. Origin \in Nat /\ Count \in Nat
  BY LayoutAssumption
<1>2. \A i \in 1 .. Count : Operands(code[i]) \in Nat
  BY DEF Operands
<1>3. G \in [Nat \X Nat -> Nat]
  BY <1>2
<1>4. PICK f \in [0 .. Count -> Nat] : Unfolds(f, Origin, G, Count)
  <2> HIDE DEF G
  <2> QED
    BY <1>1, <1>3, Recursion
<1>5. f[0] = Origin /\ \A n \in 1 .. Count : f[n] = f[n - 1] + 1 + Operands(code[n])
  <2>1. \A n \in 1 .. Count : n \in Nat /\ n - 1 \in 0 .. Count /\ f[n - 1] \in Nat
    BY <1>1
  <2> QED
    BY <1>4, <2>1 DEF Unfolds
<1> DEFINE g == [j \in 1 .. Count + 1 |-> f[j - 1]]
<1>6. Is(g)
  <2>1. ASSUME NEW j \in 1 .. Count + 1
        PROVE  f[j - 1] = IF j = 1 THEN Origin ELSE g[j - 1] + 1 + Operands(code[j - 1])
    <3>1. CASE j = 1
      BY <1>5, <3>1
    <3>2. CASE j # 1
      <4>1. j - 1 \in 1 .. Count /\ j - 1 \in 1 .. Count + 1
        BY <1>1, <3>2
      <4>2. g[j - 1] = f[(j - 1) - 1]
        BY <4>1
      <4> QED
        BY <1>5, <3>2, <4>1, <4>2
    <3> QED
      BY <3>1, <3>2
  <2> QED
    BY <2>1
<1>7. Is(laid)
  <2> HIDE DEF Is
  <2> QED
    BY <1>6
<1>8. \A i : Laid(i) = laid[i]
  BY DEF Laid
<1> HIDE DEF laid
<1>9. \A j \in 1 .. Count + 1 :
        laid[j] = IF j = 1 THEN Origin ELSE laid[j - 1] + 1 + Operands(code[j - 1])
  BY <1>7
<1>10. ASSUME NEW i \in 1 .. Count PROVE laid[i + 1] = laid[i] + 1 + Operands(code[i])
  <2>1. i + 1 \in 1 .. Count + 1 /\ i + 1 # 1 /\ (i + 1) - 1 = i
    BY <1>1
  <2> QED
    BY <1>9, <2>1
<1>11. laid[1] = Origin
  BY <1>1, <1>9
<1>12. \A i \in 1 .. Count + 1 : laid[i] \in Nat
  <2> DEFINE T == {n \in Nat : n <= Count => laid[n + 1] \in Nat}
  <2>1. 0 \in T
    BY <1>1, <1>11
  <2>2. ASSUME NEW n \in Nat, n \in T PROVE n + 1 \in T
    <3> SUFFICES ASSUME n + 1 <= Count PROVE laid[(n + 1) + 1] \in Nat
      OBVIOUS
    <3>1. n + 1 \in 1 .. Count /\ laid[n + 1] \in Nat
      BY <1>1, <2>2
    <3> QED
      BY <1>2, <1>10, <3>1
  <2>3. Nat \subseteq T
    <3> HIDE DEF T
    <3> QED
      BY <2>1, <2>2, SetInduction
  <2>4. ASSUME NEW i \in 1 .. Count + 1 PROVE laid[i] \in Nat
    <3>1. i - 1 \in T /\ i - 1 <= Count /\ (i - 1) + 1 = i
      BY <1>1, <2>3
    <3> QED
      BY <3>1
  <2> QED
    BY <2>4
<1> QED
  BY <1>8, <1>10, <1>11, <1>12

(* Programs that are not laid out have no opcodes; those that are stay.     *)
CodeKnown ==
  IF program = "opcodes" THEN code \in [1 .. Count -> Opcode] /\ Synchronised
  ELSE code = <<>> /\ stopped = FALSE

LEMMA CodeStep ==
  ASSUME code \in [1 .. Count -> Opcode], CodeNext
  PROVE  /\ code' = code
         /\ pc' \in Starts \cup {End} \/ pc' = pc
         /\ stopped' => pc' = pc /\ \E i \in 1 .. Count : pc = Laid(i) /\ code[i] \notin Documented
<1>1. /\ Laid(1) = Origin /\ Origin \in Nat /\ Count \in Nat /\ Count > 0
      /\ \A i \in 1 .. Count : Laid(i + 1) = Laid(i) + 1 + Operands(code[i])
      /\ \A i \in 1 .. Count : Laid(i) \in Nat
  <2>1. \A i \in 1 .. Count : i \in 1 .. Count + 1
    BY LayoutAssumption
  <2> QED
    BY <2>1, LaidSteps, LayoutAssumption
<1>2. \A i \in 1 .. Count : Laid(i) \in Starts /\ Laid(i + 1) \in Starts \cup {End}
  <2>1. \A i \in 1 .. Count : i + 1 \in 1 .. Count \/ i + 1 = Count + 1
    BY <1>1
  <2> QED
    BY <2>1 DEF Starts, End
<1>3. ASSUME NEW i \in 1 .. Count, pc = Laid(i), Straight(i)
      PROVE  code' = code /\ pc' \in Starts \cup {End} /\ stopped' = stopped
  <2>1. pc' = Laid(i) + Length(code[i]) /\ code[i] \in Defined
    BY <1>3 DEF Straight
  <2>2. Length(code[i]) = 1 + Operands(code[i])
    BY <2>1, LengthsAgree
  <2>3. Operands(code[i]) \in Nat
    BY DEF Operands
  <2>4. pc' = Laid(i + 1)
    BY <1>1, <2>1, <2>2, <2>3
  <2> QED
    BY <1>2, <1>3, <2>4 DEF Straight
<1>4. ASSUME NEW i \in 1 .. Count, NEW target \in Starts, pc = Laid(i), BranchTo(i, target)
      PROVE  code' = code /\ pc' \in Starts \cup {End} /\ stopped' = stopped
  <2> DEFINE next == pc + Length(code[i])
             gap == target - (pc + 2)
  <2>1. code[i] \in Defined /\ Length(code[i]) = 2
    BY <1>4, BranchesDefined DEF BranchTo
  <2>2. pc \in Nat /\ target \in Nat
    BY <1>1, <1>4 DEF Starts
  <2>3. next = Laid(i + 1) /\ next = pc + 2
    <3>1. 2 = 1 + Operands(code[i]) /\ Operands(code[i]) \in Nat
      BY <2>1, LengthsAgree DEF Operands
    <3> QED
      BY <1>1, <1>4, <2>1, <2>2, <3>1
  <2>4. gap \in -128 .. 127 /\ target = next + gap
    BY <1>4, <2>2, <2>3 DEF BranchTo
  <2>5. pc' = next \/ pc' = Relative(gap % 256, next)
    BY <1>4 DEF BranchTo
  <2> HIDE DEF gap
  <2>6. Relative(gap % 256, next) = next + gap
    <3>1. gap % 256 = IF gap < 0 THEN gap + 256 ELSE gap
      BY <2>4
    <3>2. next \in Nat /\ gap \in Int /\ -128 <= gap /\ gap <= 127
      BY <2>2, <2>3, <2>4
    <3> HIDE DEF next
    <3> QED
      BY <3>1, <3>2 DEF Relative
  <2> QED
    BY <1>2, <1>4, <2>3, <2>4, <2>5, <2>6 DEF BranchTo
<1>5. ASSUME NEW i \in 1 .. Count, pc = Laid(i), Stop(i)
      PROVE  code' = code /\ pc' = pc /\ code[i] \notin Documented
  BY <1>5, DocumentedDefined DEF Stop, Defined, None, One, Two
<1>6. CASE Again
  BY <1>1, <1>2, <1>6 DEF Again, CodeNext
<1>7. CASE \E i \in 1 .. Count :
             /\ pc = Laid(i)
             /\ \/ Straight(i)
                \/ \E target \in Starts : (BranchTo(i, target) \/ Leave(i, target))
                \/ Stop(i)
  <2>1. ~stopped
    BY DEF CodeNext
  <2>2. PICK i \in 1 .. Count :
             /\ pc = Laid(i)
             /\ \/ Straight(i)
                \/ \E target \in Starts : (BranchTo(i, target) \/ Leave(i, target))
                \/ Stop(i)
    BY <1>7
  <2>3. CASE Straight(i)
    BY <1>3, <2>1, <2>2, <2>3
  <2>4. CASE \E target \in Starts : BranchTo(i, target)
    BY <1>4, <2>1, <2>2, <2>4
  <2>5. CASE \E target \in Starts : Leave(i, target)
    BY <2>1, <2>5 DEF Leave
  <2>6. CASE Stop(i)
    BY <1>5, <2>2, <2>6
  <2> QED
    BY <2>2, <2>3, <2>4, <2>5, <2>6
<1> QED
  BY <1>6, <1>7 DEF CodeNext

(* However many instructions a program has, whichever they are and wherever *)
(* it is laid, its opcodes are decoded where they were laid: Synchronised.  *)
THEOREM OpcodesFound == ProgramsSpec => []Synchronised
<1>1. ProgramsInit => CodeKnown
  <2> SUFFICES ASSUME ProgramsInit PROVE CodeKnown
    OBVIOUS
  <2>1. CASE program # "opcodes"
    BY <2>1 DEF ProgramsInit, NoCode, Start, CodeKnown
  <2>2. CASE program = "opcodes"
    <3>1. CodeInit
      BY <2>2 DEF ProgramsInit, SumInit, CompareInit, LoopInit, Start, Sums, Comparisons,
                  SignedBranch, UnsignedBranch, Loops, Fills
    <3>2. 1 \in 1 .. Count
      BY LayoutAssumption
    <3>3. pc \in Starts
      BY <3>1, <3>2, LaidSteps DEF CodeInit, Starts
    <3> QED
      BY <2>2, <3>1, <3>3 DEF CodeInit, CodeKnown, Synchronised
  <2> QED
    BY <2>1, <2>2
<1>2. CodeKnown => Synchronised
  BY DEF CodeKnown, Synchronised
<1>3. CodeKnown /\ [ProgramsNext]_allVars => CodeKnown'
  <2> SUFFICES ASSUME CodeKnown, [ProgramsNext]_allVars PROVE CodeKnown'
    OBVIOUS
  <2>1. program' = program
    BY LoopsApart
  <2>2. ASSUME code' = code PROVE \A i : Laid(i)' = Laid(i)
    BY <2>2 DEF Laid
  <2>3. ASSUME code' = code PROVE Starts' = Starts /\ End' = End
    BY <2>3 DEF Laid, Starts, End
  <2>4. CASE UNCHANGED codeVars
    <3>1. Synchronised' <=> Synchronised
      BY <2>2, <2>3, <2>4 DEF Synchronised, codeVars
    <3> QED
      BY <2>1, <2>4, <3>1 DEF CodeKnown, codeVars
  <2>5. CASE program = "opcodes" /\ CodeNext
    <3>1. /\ code' = code
          /\ pc' \in Starts \cup {End} \/ pc' = pc
          /\ stopped' => pc' = pc /\ \E i \in 1 .. Count : pc = Laid(i) /\ code[i] \notin Documented
      BY <2>5, CodeStep DEF CodeKnown
    <3>2. code # <<>> => pc' \in Starts \cup {End}
      BY <2>5, <3>1 DEF CodeKnown, Synchronised
    <3>3. Synchronised'
      BY <2>2, <2>3, <3>1, <3>2 DEF Synchronised
    <3> QED
      BY <2>1, <2>5, <3>1, <3>3 DEF CodeKnown
  <2> QED
    BY <2>4, <2>5 DEF ProgramsNext, allVars
<1> QED
  BY <1>1, <1>2, <1>3, PTL DEF ProgramsSpec

-----------------------------------------------------------------------------
(* The loops on numbers                                                     *)

LEMMA Places ==
  /\ Place[0] = 1
  /\ \A n \in 1 .. N : Place[n] = Size * Place[n - 1]
  /\ \A n \in 0 .. N : Place[n] \in Nat
<1> DEFINE Is(f) == f = [n \in 0 .. N |-> IF n = 0 THEN 1 ELSE Size * f[n - 1]]
           G == [p \in Nat \X Nat |-> Size * p[2]]
<1>1. N \in Nat /\ Size \in Nat
  BY NAssumption, SizeFacts
<1>2. G \in [Nat \X Nat -> Nat]
  BY <1>1
<1>3. PICK f \in [0 .. N -> Nat] : Unfolds(f, 1, G, N)
  <2> HIDE DEF G
  <2> QED
    BY <1>1, <1>2, Recursion
<1>4. f[0] = 1 /\ \A n \in 1 .. N : f[n] = Size * f[n - 1]
  <2>1. \A n \in 1 .. N : n \in Nat /\ n - 1 \in 0 .. N /\ f[n - 1] \in Nat
    BY <1>1
  <2> QED
    BY <1>3, <2>1 DEF Unfolds
<1>5. Is(f)
  <2>1. \A n \in 0 .. N : f[n] = IF n = 0 THEN 1 ELSE Size * f[n - 1]
    <3>1. \A n \in 0 .. N : n = 0 \/ n \in 1 .. N
      BY <1>1
    <3> QED
      BY <1>4, <3>1
  <2> QED
    BY <2>1
<1>6. Is(Place)
  <2>1. Place = CHOOSE g : Is(g)
    BY DEF Place
  <2> HIDE DEF Is
  <2> QED
    BY <1>5, <2>1
<1>7. Place[0] = 1 /\ \A n \in 1 .. N : Place[n] = Size * Place[n - 1]
  <2>1. 0 \in 0 .. N /\ \A n \in 1 .. N : n \in 0 .. N /\ n # 0
    BY <1>1
  <2> QED
    BY <1>6, <2>1
<1>8. \A n \in 0 .. N : Place[n] \in Nat
  <2> DEFINE T == {n \in Nat : n <= N => Place[n] \in Nat}
  <2>1. 0 \in T
    BY <1>7
  <2>2. ASSUME NEW n \in Nat, n \in T PROVE n + 1 \in T
    <3> SUFFICES ASSUME n + 1 <= N PROVE Place[n + 1] \in Nat
      OBVIOUS
    <3>1. n + 1 \in 1 .. N /\ (n + 1) - 1 = n /\ Place[n] \in Nat
      BY <1>1, <2>2
    <3>2. Place[n + 1] = Size * Place[n]
      BY <1>7, <3>1
    <3> QED
      BY <1>1, <3>1, <3>2
  <2>3. Nat \subseteq T
    <3> HIDE DEF T
    <3> QED
      BY <2>1, <2>2, SetInduction
  <2> QED
    BY <1>1, <2>3
<1> QED
  BY <1>7, <1>8

(* A number of one byte more has that byte at its place more.               *)
LEMMA Values ==
  ASSUME NEW f \in Number, NEW b \in 0 .. N
  PROVE  /\ Value(f, b, 0) = 0
         /\ \A k \in 1 .. N - b :
              Value(f, b, k) = Value(f, b, k - 1) + f[b + k - 1] * Place[k - 1]
         /\ \A k \in 0 .. N - b : Value(f, b, k) \in Nat
<1> DEFINE Is(v) == v = [k \in 0 .. N - b |->
                           IF k = 0 THEN 0 ELSE v[k - 1] + f[b + k - 1] * Place[k - 1]]
           value == CHOOSE v : Is(v)
           G == [p \in Nat \X Nat |-> IF p[1] \in 1 .. N - b
                                      THEN p[2] + f[b + p[1] - 1] * Place[p[1] - 1]
                                      ELSE p[2]]
<1>1. N \in Nat /\ b \in Nat /\ N - b \in Nat /\ Size \in Nat /\ Byte \subseteq Nat
  BY NAssumption, SizeFacts
<1>2. \A k \in 1 .. N - b : f[b + k - 1] * Place[k - 1] \in Nat
  <2> SUFFICES ASSUME NEW k \in 1 .. N - b PROVE f[b + k - 1] * Place[k - 1] \in Nat
    OBVIOUS
  <2>1. b + k - 1 \in 0 .. N - 1 /\ k - 1 \in 0 .. N
    BY <1>1
  <2>2. f[b + k - 1] \in Nat /\ Place[k - 1] \in Nat
    BY <1>1, <2>1, Places DEF Number
  <2> QED
    BY <2>2
<1>3. G \in [Nat \X Nat -> Nat]
  BY <1>2
<1>4. PICK v \in [0 .. N - b -> Nat] : Unfolds(v, 0, G, N - b)
  <2> HIDE DEF G
  <2>1. 0 \in Nat
    OBVIOUS
  <2> QED
    BY <1>1, <1>3, <2>1, Recursion
<1>5. /\ v[0] = 0
      /\ \A k \in 1 .. N - b : v[k] = v[k - 1] + f[b + k - 1] * Place[k - 1]
  <2>1. \A k \in 1 .. N - b : k \in Nat /\ k - 1 \in 0 .. N - b /\ v[k - 1] \in Nat
    BY <1>1
  <2> QED
    BY <1>4, <2>1 DEF Unfolds
<1>6. Is(v)
  <2>1. \A k \in 0 .. N - b :
          v[k] = IF k = 0 THEN 0 ELSE v[k - 1] + f[b + k - 1] * Place[k - 1]
    <3>1. \A k \in 0 .. N - b : k = 0 \/ k \in 1 .. N - b
      BY <1>1
    <3> QED
      BY <1>5, <3>1
  <2> QED
    BY <2>1
<1>7. Is(value)
  <2> HIDE DEF Is
  <2> QED
    BY <1>6
<1>8. \A k : Value(f, b, k) = value[k]
  BY DEF Value
<1> HIDE DEF value
<1>9. value[0] = 0 /\ \A k \in 1 .. N - b :
                        value[k] = value[k - 1] + f[b + k - 1] * Place[k - 1]
  <2>1. 0 \in 0 .. N - b /\ \A k \in 1 .. N - b : k \in 0 .. N - b /\ k # 0
    BY <1>1
  <2> QED
    BY <1>7, <2>1
<1>10. \A k \in 0 .. N - b : value[k] \in Nat
  <2> DEFINE T == {k \in Nat : k <= N - b => value[k] \in Nat}
  <2>1. 0 \in T
    BY <1>9
  <2>2. ASSUME NEW k \in Nat, k \in T PROVE k + 1 \in T
    <3> SUFFICES ASSUME k + 1 <= N - b PROVE value[k + 1] \in Nat
      OBVIOUS
    <3>1. k + 1 \in 1 .. N - b /\ (k + 1) - 1 = k /\ value[k] \in Nat
      BY <1>1, <2>2
    <3>2. value[k + 1] = value[k] + f[b + (k + 1) - 1] * Place[(k + 1) - 1]
      BY <1>9, <3>1
    <3>3. f[b + (k + 1) - 1] * Place[(k + 1) - 1] \in Nat
      BY <1>2, <3>1
    <3> QED
      BY <3>1, <3>2, <3>3
  <2>3. Nat \subseteq T
    <3> HIDE DEF T
    <3> QED
      BY <2>1, <2>2, SetInduction
  <2> QED
    BY <1>1, <2>3
<1> QED
  BY <1>8, <1>9, <1>10

LEMMA ValueAgrees ==
  ASSUME NEW f \in Number, NEW g \in Number, NEW b \in 0 .. N, NEW n \in 0 .. N - b,
         \A i \in b .. b + n - 1 : f[i] = g[i]
  PROVE  Value(f, b, n) = Value(g, b, n)
<1>1. N \in Nat /\ b \in Nat /\ n \in Nat /\ n <= N - b
  BY NAssumption, SizeFacts
<1> DEFINE T == {k \in Nat : k <= n => Value(f, b, k) = Value(g, b, k)}
<1>2. 0 \in T
  BY Values
<1>3. ASSUME NEW k \in Nat, k \in T PROVE k + 1 \in T
  <2> SUFFICES ASSUME k + 1 <= n PROVE Value(f, b, k + 1) = Value(g, b, k + 1)
    OBVIOUS
  <2>1. k + 1 \in 1 .. N - b /\ (k + 1) - 1 = k /\ Value(f, b, k) = Value(g, b, k)
    BY <1>1, <1>3
  <2>2. b + (k + 1) - 1 \in b .. b + n - 1
    BY <1>1
  <2>3. f[b + (k + 1) - 1] = g[b + (k + 1) - 1]
    BY <2>2
  <2>4. /\ Value(f, b, k + 1)
             = Value(f, b, (k + 1) - 1) + f[b + (k + 1) - 1] * Place[(k + 1) - 1]
        /\ Value(g, b, k + 1)
             = Value(g, b, (k + 1) - 1) + g[b + (k + 1) - 1] * Place[(k + 1) - 1]
    BY <2>1, Values
  <2> QED
    BY <2>1, <2>3, <2>4
<1>4. Nat \subseteq T
  <2> HIDE DEF T
  <2> QED
    BY <1>2, <1>3, SetInduction
<1> QED
  BY <1>1, <1>4

(* A number of one byte more at the bottom is Size times the number, and    *)
(* that byte.                                                               *)
LEMMA ValueBelow ==
  ASSUME NEW f \in Number, NEW b \in 1 .. N, NEW n \in 0 .. N - b
  PROVE  Value(f, b - 1, n + 1) = f[b - 1] + Size * Value(f, b, n)
<1> DEFINE a == b - 1
<1>1. /\ N \in Nat /\ b \in Nat /\ n \in Nat /\ n <= N - b /\ b \in 0 .. N
      /\ a \in 0 .. N /\ N - a = (N - b) + 1 /\ N - b \in Nat /\ Size \in Nat
      /\ Byte \subseteq Nat
  BY NAssumption, SizeFacts
<1> DEFINE T == {k \in Nat : k <= n => Value(f, a, k + 1) = f[a] + Size * Value(f, b, k)}
<1>2. 0 \in T
  <2>1. 1 \in 1 .. N - a /\ 0 + 1 = 1 /\ 1 - 1 = 0
    BY <1>1
  <2>2. Value(f, a, 1) = Value(f, a, 1 - 1) + f[a + 1 - 1] * Place[1 - 1]
    <3> HIDE DEF a
    <3> QED
      BY <1>1, <2>1, Values
  <2>3. a + 1 - 1 = a /\ f[a] \in Nat
    <3>1. a \in 0 .. N - 1 /\ a + 1 - 1 = a
      BY <1>1
    <3> HIDE DEF a
    <3> QED
      BY <1>1, <3>1 DEF Number
  <2>4. Value(f, a, 0) = 0 /\ Value(f, b, 0) = 0
    <3> HIDE DEF a
    <3> QED
      BY <1>1, Values
  <2>5. Value(f, a, 1) = f[a]
    <3> HIDE DEF a
    <3> QED
      BY <2>1, <2>2, <2>3, <2>4, Places
  <2> QED
    BY <1>1, <2>1, <2>3, <2>4, <2>5
<1>3. ASSUME NEW k \in Nat, k \in T PROVE k + 1 \in T
  <2> SUFFICES ASSUME k + 1 <= n
               PROVE  Value(f, a, (k + 1) + 1) = f[a] + Size * Value(f, b, k + 1)
    OBVIOUS
  <2> DEFINE byte == f[b + k]
             p == Place[k]
             low == Value(f, b, k)
  <2>1. Value(f, a, k + 1) = f[a] + Size * low
    BY <1>3
  <2>2. /\ k + 1 \in 1 .. N - b /\ (k + 1) - 1 = k
        /\ (k + 1) + 1 \in 1 .. N - a /\ ((k + 1) + 1) - 1 = k + 1
        /\ b + (k + 1) - 1 = b + k /\ a + ((k + 1) + 1) - 1 = b + k
        /\ b + k \in 0 .. N - 1 /\ k \in 0 .. N - b /\ k \in 0 .. N /\ k + 1 \in 1 .. N
    BY <1>1
  <2>3. byte \in Nat /\ p \in Nat /\ low \in Nat /\ f[a] \in Nat
    <3>1. a \in 0 .. N - 1
      BY <1>1
    <3> HIDE DEF a
    <3> QED
      BY <1>1, <2>2, <3>1, Places, Values DEF Number
  <2>4. Value(f, b, k + 1) = low + byte * p
    <3>1. Value(f, b, k + 1)
            = Value(f, b, (k + 1) - 1) + f[b + (k + 1) - 1] * Place[(k + 1) - 1]
      BY <1>1, <2>2, Values
    <3> QED
      BY <2>2, <3>1
  <2>5. Value(f, a, (k + 1) + 1) = Value(f, a, k + 1) + byte * Place[k + 1]
    <3>1. Value(f, a, (k + 1) + 1)
            = Value(f, a, ((k + 1) + 1) - 1)
              + f[a + ((k + 1) + 1) - 1] * Place[((k + 1) + 1) - 1]
      <4> HIDE DEF a
      <4> QED
        BY <1>1, <2>2, Values
    <3> QED
      BY <2>2, <3>1
  <2>6. Place[k + 1] = Size * p
    BY <2>2, Places
  <2> HIDE DEF byte, p, low, a
  <2>7. byte * (Size * p) = Size * (byte * p) /\ byte * p \in Nat
    BY <1>1, <2>3
  <2>8. Size * (low + byte * p) = Size * low + Size * (byte * p)
    BY <1>1, <2>3, <2>7
  <2>9. Size * low \in Nat /\ Size * (byte * p) \in Nat
    BY <1>1, <2>3, <2>7
  <2> QED
    BY <2>1, <2>3, <2>4, <2>5, <2>6, <2>7, <2>8, <2>9
<1>4. Nat \subseteq T
  <2> HIDE DEF T
  <2> QED
    BY <1>2, <1>3, SetInduction
<1> QED
  BY <1>1, <1>4

(* What n bytes of the result and the carry are of the operands' bytes.     *)
Result(n, c) ==
  /\ program = "add" =>
       Value(out, 0, n) + Place[n] * c = Value(left, 0, n) + Value(right, 0, n)
  /\ program = "subtract" =>
       Value(out, 0, n) - Place[n] * (1 - c) = Value(left, 0, n) - Value(right, 0, n)
  /\ program = "halve" => 2 * Value(out, N - n, n) + c = Value(left, N - n, n)

(* What A and the carry are of a turn's bytes and the carry before.         *)
Operated(c) ==
  /\ program = "add" => A + Size * flags.c = left[Turn] + right[Turn] + c
  /\ program = "subtract" =>
       A - Size * (1 - flags.c) = left[Turn] - right[Turn] - (1 - c)
  /\ program = "halve" => 2 * A + flags.c = left[Turn] + Size * c

SumKnows ==
  program \in Sums =>
    /\ at \in {"carry", "count", "load", "operate", "store", "next", "branch", "done"}
    /\ at = "count" => flags.c = IF program = "subtract" THEN 1 ELSE 0
    /\ at \in {"load", "operate"} => Result(N - X, flags.c)
    /\ at = "operate" => A = left[Turn]
    /\ at = "store" => \E c \in {0, 1} : Result(N - X, c) /\ Operated(c)
    /\ at = "next" => Result(N - X + 1, flags.c)
    /\ at \in {"branch", "done"} => Result(N - X, flags.c)
    /\ at = "done" => X = 0

(* Storing a turn's byte adds it to the result: at the top of a sum or      *)
(* difference, below a half.                                                *)
LEMMA AddedAbove ==
  ASSUME NEW f \in Number, NEW n \in 0 .. N - 1, NEW r \in Byte, NEW g,
         g = [f EXCEPT ![n] = r]
  PROVE  /\ g \in Number
         /\ Value(g, 0, n + 1) = Value(f, 0, n) + r * Place[n]
         /\ Value(f, 0, n) \in Nat /\ Value(f, 0, n + 1) = Value(f, 0, n) + f[n] * Place[n]
<1>1. N \in Nat /\ n \in Nat /\ n <= N - 1 /\ g \in Number /\ g[n] = r
  BY NAssumption, SizeFacts DEF Number
<1>2. /\ 0 \in 0 .. N /\ n + 1 \in 1 .. N - 0 /\ (n + 1) - 1 = n /\ 0 + (n + 1) - 1 = n
      /\ n \in 0 .. N - 0
  BY <1>1
<1>3. Value(g, 0, n) = Value(f, 0, n)
  <2>1. \A i \in 0 .. 0 + n - 1 : g[i] = f[i]
    BY <1>1 DEF Number
  <2> QED
    BY <1>1, <1>2, <2>1, ValueAgrees
<1>4. \A h \in Number : Value(h, 0, n + 1) = Value(h, 0, n) + h[n] * Place[n]
  <2> SUFFICES ASSUME NEW h \in Number
               PROVE  Value(h, 0, n + 1) = Value(h, 0, n) + h[n] * Place[n]
    OBVIOUS
  <2>1. Value(h, 0, n + 1)
          = Value(h, 0, (n + 1) - 1) + h[0 + (n + 1) - 1] * Place[(n + 1) - 1]
    BY <1>2, Values
  <2> QED
    BY <1>2, <2>1
<1>5. Value(f, 0, n) \in Nat
  BY <1>2, Values
<1> QED
  BY <1>1, <1>3, <1>4, <1>5

LEMMA AddedBelow ==
  ASSUME NEW f \in Number, NEW x \in 1 .. N, NEW r \in Byte, NEW g,
         g = [f EXCEPT ![x - 1] = r]
  PROVE  /\ g \in Number
         /\ Value(g, x - 1, N - x + 1) = r + Size * Value(f, x, N - x)
         /\ Value(f, x, N - x) \in Nat
         /\ Value(f, x - 1, N - x + 1) = f[x - 1] + Size * Value(f, x, N - x)
<1>1. N \in Nat /\ x \in Nat /\ x >= 1 /\ x <= N /\ N - x \in 0 .. N - x /\ x \in 0 .. N
  BY NAssumption, SizeFacts
<1>2. g \in Number /\ g[x - 1] = r
  <2>1. x - 1 \in 0 .. N - 1
    BY <1>1
  <2> QED
    BY <2>1 DEF Number
<1>3. Value(g, x, N - x) = Value(f, x, N - x)
  <2>1. \A i \in x .. x + (N - x) - 1 : i # x - 1 /\ i \in 0 .. N - 1
    BY <1>1
  <2>2. \A i \in x .. x + (N - x) - 1 : g[i] = f[i]
    BY <2>1 DEF Number
  <2> QED
    BY <1>1, <1>2, <2>2, ValueAgrees
<1>4. \A h \in Number : Value(h, x - 1, N - x + 1) = h[x - 1] + Size * Value(h, x, N - x)
  BY <1>1, ValueBelow
<1>5. Value(f, x, N - x) \in Nat
  BY <1>1, Values
<1> QED
  BY <1>2, <1>3, <1>4, <1>5

(* The arithmetic of a turn: what the carry holds back of one byte is what  *)
(* the next byte's place is worth.                                          *)
LEMMA CarriedOver ==
  ASSUME NEW S \in Nat, NEW p \in Nat, NEW v \in Nat, NEW l \in Nat, NEW r \in Nat,
         NEW a \in Nat, NEW b \in Nat, NEW e \in Nat, NEW c \in {0, 1}, NEW g \in {0, 1}
  PROVE  /\ v + p * c = l + r /\ a + S * g = b + e + c =>
              (v + a * p) + (S * p) * g = (l + b * p) + (r + e * p)
         /\ v - p * (1 - c) = l - r /\ a - S * (1 - g) = b - e - (1 - c) =>
              (v + a * p) - (S * p) * (1 - g) = (l + b * p) - (r + e * p)
         /\ 2 * v + c = l /\ 2 * a + g = b + S * c =>
              2 * (a + S * v) + g = b + S * l
<1>1. p * c = c * p /\ p * (1 - c) = (1 - c) * p
  OBVIOUS
<1>2. ASSUME v + p * c = l + r, a + S * g = b + e + c
      PROVE  (v + a * p) + (S * p) * g = (l + b * p) + (r + e * p)
  <2>1. (a + S * g) * p = (b + e + c) * p
    BY <1>2
  <2>2. (a + S * g) * p = a * p + (S * p) * g
    <3>1. CASE g = 0
      BY <3>1
    <3>2. CASE g = 1
      BY <3>2
    <3> QED
      BY <3>1, <3>2
  <2>3. (b + e + c) * p = b * p + e * p + p * c
    <3>1. CASE c = 0
      BY <3>1
    <3>2. CASE c = 1
      BY <3>2
    <3> QED
      BY <3>1, <3>2
  <2> DEFINE ap == a * p
             bp == b * p
             ep == e * p
             mc == p * c
             spg == (S * p) * g
  <2>4. ap \in Nat /\ bp \in Nat /\ ep \in Nat /\ mc \in Nat /\ spg \in Nat
    OBVIOUS
  <2>5. ap + spg = bp + ep + mc /\ v + mc = l + r
    BY <1>2, <2>1, <2>2, <2>3
  <2> HIDE DEF ap, bp, ep, mc, spg
  <2>6. (v + ap) + spg = (l + bp) + (r + ep)
    BY <2>4, <2>5
  <2> QED
    BY <2>6 DEF ap, bp, ep, spg
<1>3. ASSUME v - p * (1 - c) = l - r, a - S * (1 - g) = b - e - (1 - c)
      PROVE  (v + a * p) - (S * p) * (1 - g) = (l + b * p) - (r + e * p)
  <2>1. (a - S * (1 - g)) * p = (b - e - (1 - c)) * p
    BY <1>3
  <2>2. (a - S * (1 - g)) * p = a * p - (S * p) * (1 - g)
    <3>1. CASE g = 0
      BY <3>1
    <3>2. CASE g = 1
      BY <3>2
    <3> QED
      BY <3>1, <3>2
  <2>3. (b - e - (1 - c)) * p = b * p - e * p - p * (1 - c)
    <3>1. CASE c = 0
      BY <3>1
    <3>2. CASE c = 1
      BY <3>2
    <3> QED
      BY <3>1, <3>2
  <2> DEFINE ap == a * p
             bp == b * p
             ep == e * p
             mc == p * (1 - c)
             spg == (S * p) * (1 - g)
  <2>4. ap \in Nat /\ bp \in Nat /\ ep \in Nat /\ mc \in Nat /\ spg \in Nat
    OBVIOUS
  <2>5. ap - spg = bp - ep - mc /\ v - mc = l - r
    BY <1>3, <2>1, <2>2, <2>3
  <2> HIDE DEF ap, bp, ep, mc, spg
  <2>6. (v + ap) - spg = (l + bp) - (r + ep)
    BY <2>4, <2>5
  <2> QED
    BY <2>6 DEF ap, bp, ep, spg
<1>4. ASSUME 2 * v + c = l, 2 * a + g = b + S * c
      PROVE  2 * (a + S * v) + g = b + S * l
  <2>1. S * l = S * (2 * v + c)
    BY <1>4
  <2>2. S * (2 * v + c) = 2 * (S * v) + S * c
    <3>1. CASE c = 0
      BY <3>1
    <3>2. CASE c = 1
      BY <3>2
    <3> QED
      BY <3>1, <3>2
  <2> DEFINE sv == S * v
             sl == S * l
             sc == S * c
  <2>3. sv \in Nat /\ sl \in Nat /\ sc \in Nat
    OBVIOUS
  <2>4. sl = 2 * sv + sc /\ 2 * a + g = b + sc
    BY <1>4, <2>1, <2>2
  <2> HIDE DEF sv, sl, sc
  <2>5. 2 * (a + sv) + g = b + sl
    BY <2>3, <2>4
  <2> QED
    BY <2>5 DEF sv, sl
<1> QED
  BY <1>2, <1>3, <1>4

(* Each step of a loop on numbers keeps what is known of them.              *)
LEMMA SumStep ==
  ASSUME Typed, SumKnows, SumNext
  PROVE  SumKnows'
<1>1. /\ program \in Sums /\ left \in Number /\ right \in Number /\ out \in Number
      /\ N \in Nat /\ N > 0 /\ Size \in Nat /\ Byte = 0 .. Size - 1
  BY NAssumption, SizeFacts DEF SumNext, Typed, SumTyped
<1>2. program' = program /\ left' = left /\ right' = right
  BY DEF SumNext, SetCarry, LoadLength, LoadByte, Operate, StoreByte, CountDown, Go, GoIf
<1>3. /\ at \in {"load", "operate", "store", "next"} =>
           X \in 1 .. N /\ Turn \in 0 .. N - 1 /\ left[Turn] \in Byte /\ right[Turn] \in Byte
      /\ at = "branch" => X \in 0 .. N - 1 /\ (flags.z = 1 <=> X = 0)
  <2>1. X \in 1 .. N => Turn \in 0 .. N - 1
    BY <1>1 DEF Turn
  <2>2. Turn \in 0 .. N - 1 => left[Turn] \in Byte /\ right[Turn] \in Byte
    BY <1>1 DEF Number
  <2> QED
    BY <1>1, <2>1, <2>2 DEF Typed, SumTyped
<1>4. A \in Byte /\ flags \in Flags /\ flags.c \in {0, 1}
  BY DEF Typed, TypeOK, Flags
<1>5. CASE SetCarry
  <2>1. at' = "count" /\ flags'.c = IF program = "subtract" THEN 1 ELSE 0
    <3>1. at' = "count" /\ IF program = "subtract" THEN SEC ELSE CLC
      BY <1>5 DEF SetCarry, Go
    <3>2. SEC => flags'.c = 1
      BY <1>4 DEF SEC, Flags
    <3>3. CLC => flags'.c = 0
      BY <1>4 DEF CLC, Flags
    <3> QED
      BY <3>1, <3>2, <3>3
  <2> QED
    BY <1>2, <2>1 DEF SumKnows
<1>6. CASE LoadLength
  <2>1. at = "count" /\ at' = "load" /\ X' = N /\ out' = out /\ flags' = ZN(flags, N)
    BY <1>6 DEF LoadLength, Go, LDX
  <2>2. flags'.c = IF program = "subtract" THEN 1 ELSE 0
    <3>1. flags.c = IF program = "subtract" THEN 1 ELSE 0
      BY <1>1, <2>1 DEF SumKnows
    <3> QED
      BY <1>4, <2>1, <3>1 DEF ZN, Flags
  <2>3. /\ Value(out, 0, 0) = 0 /\ Value(left, 0, 0) = 0 /\ Value(right, 0, 0) = 0
        /\ Value(out, N, 0) = 0 /\ Value(left, N, 0) = 0
    BY <1>1, Values
  <2>4. N - N = 0 /\ N - 0 = N /\ Place[0] = 1
    BY <1>1, Places
  <2>5. Result(N - X, flags.c)'
    <3>1. program = "add" => flags'.c = 0
      BY <2>2
    <3>2. program = "subtract" => flags'.c = 1
      BY <2>2
    <3>3. program = "halve" => flags'.c = 0
      BY <2>2
    <3> QED
      BY <1>2, <2>1, <2>3, <2>4, <3>1, <3>2, <3>3 DEF Result
  <2> QED
    BY <1>2, <2>1, <2>5 DEF SumKnows
<1>7. CASE LoadByte
  <2>1. at = "load" /\ at' = "operate" /\ X' = X /\ out' = out
    BY <1>7 DEF LoadByte, Go, LDA, SetA
  <2>2. A' = left[Turn] /\ flags' = ZN(flags, left[Turn])
    BY <1>7 DEF LoadByte, LDA, SetA
  <2>3. flags'.c = flags.c
    BY <1>4, <2>2 DEF ZN, Flags
  <2>4. Result(N - X, flags.c)
    BY <1>1, <2>1 DEF SumKnows
  <2>5. Result(N - X, flags.c)'
    BY <1>2, <2>1, <2>3, <2>4 DEF Result
  <2>6. Turn' = Turn
    BY <1>2, <2>1 DEF Turn
  <2> QED
    BY <1>2, <2>1, <2>2, <2>5, <2>6 DEF SumKnows
<1>8. CASE Operate
  <2>1. at = "operate" /\ at' = "store" /\ out' = out
    BY <1>8 DEF Operate, Go
  <2>2. Result(N - X, flags.c) /\ A = left[Turn]
    BY <1>1, <2>1 DEF SumKnows
  <2>3. /\ program = "add" => ADC(right[Turn])
        /\ program = "subtract" => SBC(right[Turn])
        /\ program = "halve" => OnA(RotatedRight)
    BY <1>8 DEF Operate
  <2>4. X' = X
    BY <1>1, <2>3 DEF Sums, ADC, SBC, OnA
  <2>5. Turn' = Turn
    BY <1>2, <2>4 DEF Turn
  <2>6. /\ program = "add" => A' + Size * flags'.c = left[Turn] + right[Turn] + flags.c
        /\ program = "subtract" =>
             A' - Size * (1 - flags'.c) = left[Turn] - right[Turn] - (1 - flags.c)
        /\ program = "halve" => 2 * A' + flags'.c = left[Turn] + Size * flags.c
    <3>1. right[Turn] \in Byte
      BY <1>3, <2>1
    <3>2. ASSUME program = "add"
          PROVE  A' + Size * flags'.c = left[Turn] + right[Turn] + flags.c
      BY <1>4, <2>2, <2>3, <3>1, <3>2, AddedExact DEF ADC
    <3>3. ASSUME program = "subtract"
          PROVE  A' - Size * (1 - flags'.c) = left[Turn] - right[Turn] - (1 - flags.c)
      BY <1>4, <2>2, <2>3, <3>1, <3>3, SubtractedExact DEF SBC
    <3>4. ASSUME program = "halve"
          PROVE  2 * A' + flags'.c = left[Turn] + Size * flags.c
      BY <1>4, <2>2, <2>3, <3>4, ShiftsExact DEF OnA
    <3> QED
      BY <3>2, <3>3, <3>4
  <2>7. \E c \in {0, 1} : Result(N - X, c)' /\ Operated(c)'
    <3>1. PICK c \in {0, 1} : c = flags.c
      BY <1>4
    <3>2. Result(N - X, c)'
      BY <1>2, <2>1, <2>2, <2>4, <3>1 DEF Result
    <3>3. Operated(c)'
      BY <1>2, <2>5, <2>6, <3>1 DEF Operated
    <3> QED
      BY <3>2, <3>3
  <2> QED
    BY <1>2, <2>1, <2>7 DEF SumKnows
<1>9. CASE StoreByte
  <2>1. /\ at = "store" /\ at' = "next" /\ X' = X /\ flags' = flags
        /\ out' = [out EXCEPT ![Turn] = A]
    BY <1>9 DEF StoreByte, Go, STA
  <2>2. PICK c \in {0, 1} : Result(N - X, c) /\ Operated(c)
    BY <1>1, <2>1 DEF SumKnows
  <2>3. /\ X \in 1 .. N /\ Turn \in 0 .. N - 1 /\ left[Turn] \in Nat
        /\ right[Turn] \in Nat /\ A \in Nat
    BY <1>1, <1>3, <1>4, <2>1
  <2> DEFINE n == N - X
  <2>4. n \in 0 .. N - 1 /\ n + 1 \in 1 .. N /\ (n + 1) - 1 = n /\ n \in 0 .. N
        /\ N - n = X /\ N - (n + 1) = X - 1 /\ N - X + 1 = n + 1
    BY <1>1, <2>3
  <2>5. Place[n] \in Nat /\ Place[n + 1] = Size * Place[n]
    <3> HIDE DEF n
    <3> QED
      BY <2>4, Places
  <2>6. ASSUME program = "add" \/ program = "subtract"
        PROVE  /\ Turn = n
               /\ Value(out', 0, n + 1) = Value(out, 0, n) + A * Place[n]
               /\ Value(left, 0, n + 1) = Value(left, 0, n) + left[n] * Place[n]
               /\ Value(right, 0, n + 1) = Value(right, 0, n) + right[n] * Place[n]
               /\ Value(out, 0, n) \in Nat /\ Value(left, 0, n) \in Nat
               /\ Value(right, 0, n) \in Nat
    <3>1. Turn = n /\ out' = [out EXCEPT ![n] = A]
      BY <2>1, <2>6 DEF Turn
    <3> HIDE DEF n
    <3>2. /\ Value(out', 0, n + 1) = Value(out, 0, n) + A * Place[n]
          /\ Value(out, 0, n) \in Nat
      BY <1>1, <1>4, <2>4, <3>1, AddedAbove
    <3>3. \A f \in Number : /\ Value(f, 0, n) \in Nat
                            /\ Value(f, 0, n + 1) = Value(f, 0, n) + f[n] * Place[n]
      BY <1>4, <2>4, AddedAbove
    <3> QED
      BY <1>1, <3>1, <3>2, <3>3
  <2>7. ASSUME program = "add"
        PROVE  Value(out', 0, n + 1) + Place[n + 1] * flags.c
                 = Value(left, 0, n + 1) + Value(right, 0, n + 1)
    <3>1. /\ Value(out, 0, n) + Place[n] * c = Value(left, 0, n) + Value(right, 0, n)
          /\ A + Size * flags.c = left[Turn] + right[Turn] + c
      BY <2>2, <2>7 DEF Result, Operated
    <3> HIDE DEF n
    <3>2. (Value(out, 0, n) + A * Place[n]) + (Size * Place[n]) * flags.c
            = (Value(left, 0, n) + left[Turn] * Place[n])
              + (Value(right, 0, n) + right[Turn] * Place[n])
      <4> DEFINE p == Place[n]
                 v == Value(out, 0, n)
                 lows == Value(left, 0, n)
                 rights == Value(right, 0, n)
                 b == left[Turn]
                 e == right[Turn]
                 g == flags.c
      <4>1. /\ p \in Nat /\ v \in Nat /\ lows \in Nat /\ rights \in Nat
            /\ b \in Nat /\ e \in Nat /\ g \in {0, 1}
        BY <1>4, <2>3, <2>5, <2>6, <2>7
      <4>2. v + p * c = lows + rights /\ A + Size * g = b + e + c
        BY <3>1
      <4> HIDE DEF p, v, lows, rights, b, e, g
      <4>3. (v + A * p) + (Size * p) * g = (lows + b * p) + (rights + e * p)
        BY <1>1, <2>3, <4>1, <4>2, CarriedOver
      <4> QED
        BY <4>3 DEF p, v, lows, rights, b, e, g
    <3> QED
      BY <2>5, <2>6, <2>7, <3>2
  <2>8. ASSUME program = "subtract"
        PROVE  Value(out', 0, n + 1) - Place[n + 1] * (1 - flags.c)
                 = Value(left, 0, n + 1) - Value(right, 0, n + 1)
    <3>1. /\ Value(out, 0, n) - Place[n] * (1 - c) = Value(left, 0, n) - Value(right, 0, n)
          /\ A - Size * (1 - flags.c) = left[Turn] - right[Turn] - (1 - c)
      BY <2>2, <2>8 DEF Result, Operated
    <3> HIDE DEF n
    <3>2. (Value(out, 0, n) + A * Place[n]) - (Size * Place[n]) * (1 - flags.c)
            = (Value(left, 0, n) + left[Turn] * Place[n])
              - (Value(right, 0, n) + right[Turn] * Place[n])
      <4> DEFINE p == Place[n]
                 v == Value(out, 0, n)
                 lows == Value(left, 0, n)
                 rights == Value(right, 0, n)
                 b == left[Turn]
                 e == right[Turn]
                 g == flags.c
      <4>1. /\ p \in Nat /\ v \in Nat /\ lows \in Nat /\ rights \in Nat
            /\ b \in Nat /\ e \in Nat /\ g \in {0, 1}
        BY <1>4, <2>3, <2>5, <2>6, <2>8
      <4>2. /\ v - p * (1 - c) = lows - rights
            /\ A - Size * (1 - g) = b - e - (1 - c)
        BY <3>1
      <4> HIDE DEF p, v, lows, rights, b, e, g
      <4>3. (v + A * p) - (Size * p) * (1 - g) = (lows + b * p) - (rights + e * p)
        BY <1>1, <2>3, <4>1, <4>2, CarriedOver
      <4> QED
        BY <4>3 DEF p, v, lows, rights, b, e, g
    <3> QED
      BY <2>5, <2>6, <2>8, <3>2
  <2>9. ASSUME program = "halve"
        PROVE  2 * Value(out', N - (n + 1), n + 1) + flags.c
                 = Value(left, N - (n + 1), n + 1)
    <3>1. Turn = X - 1 /\ out' = [out EXCEPT ![X - 1] = A]
      BY <2>1, <2>9 DEF Turn
    <3>2. /\ 2 * Value(out, X, n) + c = Value(left, X, n)
          /\ 2 * A + flags.c = left[Turn] + Size * c
      BY <2>2, <2>4, <2>9 DEF Result, Operated
    <3>3. Value(out', X - 1, N - X + 1) = A + Size * Value(out, X, N - X)
      BY <1>1, <1>4, <2>3, <3>1, AddedBelow
    <3>4. /\ Value(out, X, N - X) \in Nat /\ Value(left, X, N - X) \in Nat
          /\ Value(left, X - 1, N - X + 1) = left[X - 1] + Size * Value(left, X, N - X)
      BY <1>1, <1>4, <2>3, AddedBelow
    <3> DEFINE low == Value(out, X, N - X)
               half == Value(left, X, N - X)
    <3>5. 2 * (A + Size * low) + flags.c = left[Turn] + Size * half
      <4>1. low \in Nat /\ half \in Nat /\ 2 * low + c = half
        BY <3>2, <3>4
      <4> DEFINE b == left[Turn]
                 g == flags.c
      <4>2. b \in Nat /\ g \in {0, 1} /\ 2 * A + g = b + Size * c
        BY <1>4, <2>3, <3>2
      <4> HIDE DEF low, half, b, g
      <4>3. 2 * (A + Size * low) + g = b + Size * half
        BY <1>1, <2>3, <4>1, <4>2, CarriedOver
      <4> QED
        BY <4>3 DEF b, g
    <3> QED
      BY <2>4, <3>1, <3>3, <3>4, <3>5
  <2>10. Result(N - X + 1, flags.c)'
    <3>1. Result(n + 1, flags.c)'
      <4>1. program' = program /\ left' = left /\ right' = right /\ flags' = flags /\ n' = n
        BY <1>2, <2>1
      <4> HIDE DEF n
      <4> QED
        BY <2>7, <2>8, <2>9, <4>1 DEF Result
    <3> QED
      BY <2>4, <3>1
  <2> QED
    BY <1>2, <2>1, <2>10 DEF SumKnows
<1>10. CASE Go("next", "branch") /\ DEX /\ UNCHANGED out
  <2>1. at = "next" /\ at' = "branch" /\ X \in 1 .. N /\ out' = out
    BY <1>3, <1>10 DEF Go
  <2>2. X' = X - 1 /\ flags' = ZN(flags, X - 1)
    <3>1. X' = Decremented(flags, X).r /\ flags' = Decremented(flags, X).f /\ X # 0
      BY <1>1, <1>10, <2>1 DEF DEX, OnX
    <3> QED
      BY <3>1 DEF Decremented
  <2>3. flags'.c = flags.c
    BY <1>4, <2>2 DEF ZN, Flags
  <2>4. Result(N - X + 1, flags.c)
    BY <1>1, <2>1 DEF SumKnows
  <2>5. N - X + 1 = N - X'
    BY <1>1, <2>1, <2>2
  <2>6. Result(N - X', flags'.c)
    BY <2>3, <2>4, <2>5
  <2>7. Result(N - X, flags.c)'
    BY <1>2, <2>1, <2>6 DEF Result
  <2> QED
    BY <1>2, <2>1, <2>7 DEF SumKnows
<1>11. CASE GoIf("branch", "BNE", "load", "done") /\ UNCHANGED out
  <2>1. at = "branch" /\ UNCHANGED vars /\ out' = out
    BY <1>11 DEF GoIf, Go
  <2>2. at' = IF flags.z = 0 THEN "load" ELSE "done"
    BY <1>11 DEF GoIf, Go, Taken
  <2>3. flags.z # 0 => X = 0
    BY <1>3, <2>1 DEF Typed, TypeOK, Flags
  <2>4. Result(N - X, flags.c)
    BY <1>1, <2>1 DEF SumKnows
  <2>5. Result(N - X, flags.c)'
    BY <1>2, <2>1, <2>4 DEF Result, vars
  <2> QED
    BY <1>2, <2>1, <2>2, <2>3, <2>5 DEF SumKnows, vars
<1> QED
  BY <1>5, <1>6, <1>7, <1>8, <1>9, <1>10, <1>11 DEF SumNext, CountDown

(* A loop on numbers starts with its operands and no result; the others are *)
(* none.                                                                    *)
LEMMA SumStarts == ProgramsInit => SumKnows
<1> SUFFICES ASSUME ProgramsInit, program \in Sums PROVE SumKnows
  BY DEF SumKnows
<1>1. at = "carry"
  <2>1. SumInit
    BY ListingsApart DEF ProgramsInit, CompareInit, LoopInit, Start
  <2> QED
    BY <2>1 DEF SumInit, Start
<1> QED
  BY <1>1 DEF SumKnows

LEMMA SumTold ==
  ASSUME Typed, SumKnows
  PROVE  RunningResult
<1> SUFFICES ASSUME program \in Sums, at \in {"load", "done"}
             PROVE  RunningResult
  BY DEF RunningResult
<1>1. X \in 0 .. N /\ N \in Nat
  <2>1. at = "load" => X \in 1 .. N
    BY DEF Typed, SumTyped
  <2>2. at = "done" => X = 0
    BY DEF SumKnows
  <2> QED
    BY <2>1, <2>2, NAssumption
<1>2. N - (N - X) = X
  BY <1>1
<1>3. Result(N - X, flags.c)
  BY DEF SumKnows
<1>4. at = "done" => N - X = N
  BY <1>1 DEF SumKnows
<1> QED
  BY <1>2, <1>3, <1>4 DEF RunningResult, Result, Past

(* The loops add, subtract and halve numbers of any length: the carry that  *)
(* adc_common, sbc_common and trans_RORA leave is there for the next byte.  *)
THEOREM SumsRight == ProgramsSpec => []RunningResult
<1>1. Typed /\ SumKnows /\ [ProgramsNext]_allVars => SumKnows'
  <2> SUFFICES ASSUME Typed, SumKnows, [ProgramsNext]_allVars PROVE SumKnows'
    OBVIOUS
  <2>1. CASE SumNext
    BY <2>1, SumStep
  <2>2. CASE UNCHANGED allVars
    BY <2>2 DEF allVars, vars, SumKnows, Result, Operated, Turn
  <2>3. CASE ProgramsNext /\ ~SumNext
    <3>1. program' = program /\ program \notin Sums
      <4>1. program' = program
        BY LoopsApart
      <4>2. program \in Comparisons \cup Loops \cup {"opcodes", "any"}
        BY <2>3 DEF ProgramsNext, CompareNext, LoopNext
      <4> QED
        BY <4>1, <4>2, ListingsApart
    <3> QED
      BY <3>1 DEF SumKnows
  <2> QED
    BY <2>1, <2>2, <2>3
<1> QED
  BY <1>1, SumStarts, SumTold, TypedInvariance, PTL DEF ProgramsSpec

=============================================================================
