-------------------------------- MODULE Alu6502 --------------------------------
(***************************************************************************)
(* The arithmetic, logic, shift and compare instructions of translate.c.   *)
(* They compute with 32-bit temporaries, single bits picked out by masks   *)
(* and signed comparisons; each is an operator from the registers before   *)
(* to the registers after.  The byte has Size = 2 * Half values, so that   *)
(* 0x80 is Half, 0xFF is Size - 1 and 0x100 is Size.                       *)
(*                                                                         *)
(* What an instruction works on is the value its addressing mode found, or *)
(* its immediate byte: any byte may be there.                              *)
(***************************************************************************)
EXTENDS Integers

CONSTANT Half       (* half the values of a byte: 0x80                      *)

ASSUME HalfAssumption == Half \in Nat /\ Half > 1

Size == 2 * Half
Byte == 0 .. Size - 1

VARIABLES
  A, X,       (* Y is used as X is                                          *)
  M,          (* the memory cell INC, DEC and the shifts read and write     *)
  flags       (* carry, zero, overflow and negative                         *)

vars == <<A, X, M, flags>>

Flags == [c : {0, 1}, z : {0, 1}, v : {0, 1}, n : {0, 1}]

TypeOK ==
  /\ A \in Byte /\ X \in Byte /\ M \in Byte
  /\ flags \in Flags

(* nes6502_cpu_reset_hold clears the registers; RAM starts as zeros.        *)
Init ==
  /\ A = 0 /\ X = 0 /\ M = 0
  /\ flags = [c |-> 0, z |-> 0, v |-> 0, n |-> 0]

-----------------------------------------------------------------------------
(* Conditions and masks.  Half must be a power of two for the masks: its    *)
(* divisors are then the weights of the bits below 0x100.                   *)

Flag(b) == IF b THEN 1 ELSE 0

Weights == {w \in 1 .. Half : Half % w = 0}
Bit(value, weight) == (value \div weight) % 2

(* cpu_update_zn_flags                                                      *)
ZN(f, r) == [f EXCEPT !.z = Flag(r = 0), !.n = Flag(r > Half - 1)]

-----------------------------------------------------------------------------
(* Addition, subtraction and comparison: value is the operand.              *)

(* Slip: the sign of the operand is compared with that of the sum.          *)
AddedTwoSigns(f, a, value) ==
  LET res == a + value + f.c
  IN  [a |-> res % Size,
       f |-> ZN([f EXCEPT !.c = Flag(Bit(res, Size) # 0),
                          !.v = Flag(Bit(value, Half) # Bit(res, Half))],
                res % Size)]

(* The sign bits of A and value agree and that of the sum differs.          *)
Added(f, a, value) ==
  LET res == a + value + f.c
  IN  [a |-> res % Size,
       f |-> ZN([f EXCEPT !.c = Flag(Bit(res, Size) # 0),
                          !.v = Flag(/\ Bit(a, Half) = Bit(value, Half)
                                     /\ Bit(a, Half) # Bit(res, Half))],
                res % Size)]

Subtracted(f, a, value) ==
  LET res == a - value - Flag(f.c # 1)
  IN  [a |-> res % Size,
       f |-> ZN([f EXCEPT !.c = Flag(Bit(res, Size) = 0),
                          !.v = Flag(/\ Bit(a, Half) # Bit(value, Half)
                                     /\ Bit(a, Half) # Bit(res, Half))],
                res % Size)]

(* Slip: equality is no longer "greater or equal".                          *)
ComparedStrictly(f, r, value) ==
  [f EXCEPT !.c = Flag(r - value > 0), !.z = Flag(r - value = 0),
            !.n = Bit(r - value, Half)]

(* cpu_compare: a signed comparison of the 32-bit difference with zero.     *)
Compared(f, r, value) ==
  [f EXCEPT !.c = Flag(r - value >= 0), !.z = Flag(r - value = 0),
            !.n = Bit(r - value, Half)]

BitTested(f, a, value) ==
  [f EXCEPT !.z = Flag(\A w \in Weights : ~(Bit(a, w) = 1 /\ Bit(value, w) = 1)),
            !.v = Bit(value, Half \div 2), !.n = Bit(value, Half)]

-----------------------------------------------------------------------------
(* Shifts: r is the register or the memory cell.                            *)

ShiftedLeft(f, r) ==
  LET res == (2 * r) % Size
  IN  [r |-> res, f |-> ZN([f EXCEPT !.c = Bit(r, Half)], res)]

ShiftedRight(f, r) ==
  [r |-> r \div 2, f |-> ZN([f EXCEPT !.c = Bit(r, 1)], r \div 2)]

(* The carry is a comparison of the nine-bit result with 0xFF.              *)
RotatedLeft(f, r) ==
  LET res == 2 * r + f.c
  IN  [r |-> res % Size, f |-> ZN([f EXCEPT !.c = Flag(res >= Size - 1)], res % Size)]

(* Slip: the bit shifted out is shifted in again.                           *)
RotatedRightWithin(f, r) ==
  LET res == (r \div 2) + Half * Bit(r, 1)
  IN  [r |-> res,
       f |-> [f EXCEPT !.c = Bit(r, 1), !.z = Flag(res = 0), !.n = Bit(r, 1)]]

(* The negative flag is the carry that was shifted in.                      *)
RotatedRight(f, r) ==
  LET res == (r \div 2) + Half * f.c
  IN  [r |-> res,
       f |-> [f EXCEPT !.c = Bit(r, 1), !.z = Flag(res = 0), !.n = f.c]]

(* Slip: coming back to zero does not set the zero flag.                    *)
IncrementedNoZero(f, r) ==
  [r |-> (r + 1) % Size, f |-> [f EXCEPT !.z = 0, !.n = Bit(r + 1, Half)]]

(* INC, INX and INY; DEC, DEX and DEY.                                      *)
Incremented(f, r) ==
  IF r = Size - 1
  THEN [r |-> 0, f |-> [f EXCEPT !.z = 1, !.n = 0]]
  ELSE [r |-> r + 1, f |-> ZN(f, r + 1)]

(* Slip: the carry is set as a subtraction would set it.                    *)
DecrementedBorrows(f, r) ==
  [r |-> (r - 1) % Size, f |-> ZN([f EXCEPT !.c = Flag(r # 0)], (r - 1) % Size)]

Decremented(f, r) ==
  IF r = 0
  THEN [r |-> Size - 1, f |-> [f EXCEPT !.z = 0, !.n = 1]]
  ELSE [r |-> r - 1, f |-> ZN(f, r - 1)]

-----------------------------------------------------------------------------
(* The instructions                                                         *)

ADC(value) ==
  /\ A' = Added(flags, A, value).a /\ flags' = Added(flags, A, value).f
  /\ UNCHANGED <<X, M>>

SBC(value) ==
  /\ A' = Subtracted(flags, A, value).a /\ flags' = Subtracted(flags, A, value).f
  /\ UNCHANGED <<X, M>>

(* trans_INS_ABSOLUTE, undocumented: the byte it counts up is loaded anew  *)
(* and never stored, so that the subtraction is what is left.               *)
INS(value) == SBC(value)

CMP(value) == flags' = Compared(flags, A, value) /\ UNCHANGED <<A, X, M>>
CPX(value) == flags' = Compared(flags, X, value) /\ UNCHANGED <<A, X, M>>
BIT(value) == flags' = BitTested(flags, A, value) /\ UNCHANGED <<A, X, M>>

SetA(value) == A' = value /\ flags' = ZN(flags, value) /\ UNCHANGED <<X, M>>

(* A takes the byte whose every bit is Joined from those of A and value.    *)
EachBit(Joined(_, _), value) ==
  \E r \in Byte :
    /\ \A w \in Weights : Bit(r, w) = 1 <=> Joined(Bit(A, w) = 1, Bit(value, w) = 1)
    /\ SetA(r)

AND(value) == EachBit(LAMBDA p, q : p /\ q, value)
ORA(value) == EachBit(LAMBDA p, q : p \/ q, value)
EOR(value) == EachBit(LAMBDA p, q : p # q, value)
LDA(value) == SetA(value)
TXA == SetA(X)

LDX(value) == X' = value /\ flags' = ZN(flags, value) /\ UNCHANGED <<A, M>>
TAX == LDX(A)

STA == M' = A /\ UNCHANGED <<A, X, flags>>
STX == M' = X /\ UNCHANGED <<A, X, flags>>

(* An operator that changes one value and the flags, on A, X or M.          *)
OnA(Op(_, _)) == A' = Op(flags, A).r /\ flags' = Op(flags, A).f /\ UNCHANGED <<X, M>>
OnX(Op(_, _)) == X' = Op(flags, X).r /\ flags' = Op(flags, X).f /\ UNCHANGED <<A, M>>
OnM(Op(_, _)) == M' = Op(flags, M).r /\ flags' = Op(flags, M).f /\ UNCHANGED <<A, X>>

ASL == OnA(ShiftedLeft) \/ OnM(ShiftedLeft)
LSR == OnA(ShiftedRight) \/ OnM(ShiftedRight)
ROL == OnA(RotatedLeft) \/ OnM(RotatedLeft)
ROR == OnA(RotatedRight) \/ OnM(RotatedRight)
INC == OnM(Incremented)
DEC == OnM(Decremented)
INX == OnX(Incremented)
DEX == OnX(Decremented)

CLC == flags' = [flags EXCEPT !.c = 0] /\ UNCHANGED <<A, X, M>>
SEC == flags' = [flags EXCEPT !.c = 1] /\ UNCHANGED <<A, X, M>>
CLV == flags' = [flags EXCEPT !.v = 0] /\ UNCHANGED <<A, X, M>>

Next ==
  \/ \E value \in Byte :
       \/ ADC(value) \/ SBC(value) \/ CMP(value) \/ CPX(value) \/ BIT(value)
       \/ AND(value) \/ ORA(value) \/ EOR(value) \/ LDA(value) \/ LDX(value)
       \/ INS(value)
  \/ TXA \/ TAX \/ STA \/ STX
  \/ ASL \/ LSR \/ ROL \/ ROR \/ INC \/ DEC \/ INX \/ DEX
  \/ CLC \/ SEC \/ CLV

Spec == Init /\ [][Next]_vars

-----------------------------------------------------------------------------
Signed(r) == IF r < Half THEN r ELSE r - Size
OutOfRange(n) == n \notin -Half .. Half - 1

(* An addition or subtraction sets V exactly when the result read as a      *)
(* signed byte is not the sum or difference of the operands so read, and N  *)
(* to the sign of what is left: adc_common and sbc_common find V from the   *)
(* sign bits of three bytes.                                                *)
SignedOverflow ==
  [][\A value \in Byte :
       /\ ADC(value) =>
            /\ flags'.v = 1 <=> OutOfRange(Signed(A) + Signed(value) + flags.c)
            /\ flags'.n = 1 <=> Signed(A') < 0
       /\ SBC(value) =>
            /\ flags'.v = 1 <=> OutOfRange(Signed(A) - Signed(value) - (1 - flags.c))
            /\ flags'.n = 1 <=> Signed(A') < 0]_vars

(* CMP followed by SBC, with the flags of the one telling how the other     *)
(* comes out: comparing orders the unsigned bytes, the way a subtraction    *)
(* that borrows does, and leaves V alone.                                   *)
CompareOrders ==
  [][\A value \in Byte :
       /\ CMP(value) => /\ flags'.c = 1 <=> A >= value
                        /\ flags'.z = 1 <=> A = value
                        /\ flags'.c = Subtracted([flags EXCEPT !.c = 1], A, value).f.c
                        /\ flags'.n = Subtracted([flags EXCEPT !.c = 1], A, value).f.n
                        /\ flags'.v = flags.v
       /\ CPX(value) => flags'.c = 1 <=> X >= value]_vars

(* A rotation loses no bit: the byte and the carry go round together.  The  *)
(* code's ROL does so for all bytes but one: rotating 0x7F with the carry   *)
(* set gives 0xFF, which trans_ROLA and rol_common take for a carry out.    *)
RotationsLoseNothing ==
  [][/\ OnA(RotatedLeft) =>
          A' + Size * flags'.c =
            2 * A + flags.c + (IF A = Half - 1 /\ flags.c = 1 THEN Size ELSE 0)
     /\ OnA(RotatedRight) => 2 * A' + flags'.c = A + Size * flags.c
     /\ OnM(ShiftedLeft) => M' + Size * flags'.c = 2 * M
     /\ OnM(ShiftedRight) => 2 * M' + flags'.c = M]_vars

=============================================================================
