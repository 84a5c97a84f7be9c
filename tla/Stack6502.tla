------------------------------- MODULE Stack6502 -------------------------------
(***************************************************************************)
(* The CPU's stack: the instructions of translate.c that push, pull, call  *)
(* and return, and the interrupt entry of helper.c, over one stack page.   *)
(* Generated code and the interrupt's C code each have their own idea of   *)
(* where a word goes and of which sums are masked; both are here.          *)
(*                                                                         *)
(* Which instruction comes next is the program's business: every action is *)
(* one instruction, and an instruction that does not jump may be followed  *)
(* by the code at any address of Code.  The interrupt is taken between two *)
(* instructions (the code takes it between two translation blocks).        *)
(***************************************************************************)
EXTENDS Naturals

CONSTANTS
  StackSize,   (* bytes of the stack page: 0x100                            *)
  PullLimit,   (* bound: how far single pulls may raise stack_point         *)
  Code,        (* addresses the program's instructions are at               *)
  Vector,      (* the interrupt's handler, as $FFFA holds it                *)
  Loaded       (* bytes the program loads into A and X                      *)

PageBytes == 256
Byte == 0 .. PageBytes - 1
WordSize == PageBytes * PageBytes
MemSize == 8 * StackSize    (* the mask of the byte operations: 0x7FF       *)

ASSUME StackAssumption ==
  /\ StackSize \in Nat /\ StackSize > 3
  /\ PullLimit \in StackSize .. 6 * StackSize
  /\ Code \subseteq 0 .. WordSize - 1
  /\ Vector \in 0 .. WordSize - 1
  /\ Loaded \subseteq Byte

VARIABLES
  pc,
  stack_point,
  flags,       (* the eight flags, each 0 or 1                              *)
  P,           (* the status byte, as last packed or pulled                 *)
  A, X,
  mem,         (* CPU RAM, with the stack page at StackSize                 *)
  nmi          (* CPU_INTERRUPT_NMI is requested                            *)

vars == <<pc, stack_point, flags, P, A, X, mem, nmi>>

Flags == [c : {0, 1}, z : {0, 1}, i : {0, 1}, d : {0, 1},
          b : {0, 1}, u : {0, 1}, v : {0, 1}, n : {0, 1}]

TypeOK ==
  /\ pc \in 0 .. WordSize
  /\ stack_point \in 0 .. PullLimit
  /\ flags \in Flags
  /\ P \in Byte
  /\ A \in Byte /\ X \in 0 .. PullLimit \cup Byte
  /\ mem \in [0 .. MemSize - 1 -> Byte]
  /\ nmi \in BOOLEAN

(* nes6502_cpu_reset_hold; do_cpu_reset then loads pc from $FFFC.           *)
Init ==
  /\ pc \in Code
  /\ stack_point = StackSize - 3
  /\ flags = [f \in {"c", "z", "i", "d", "b", "u", "v", "n"} |-> 0]
  /\ P = 0
  /\ A = 0 /\ X = 0
  /\ mem = [a \in 0 .. MemSize - 1 |-> 0]
  /\ nmi = FALSE

-----------------------------------------------------------------------------
(* The layout of the status byte.                                           *)

Pack(f) ==
  f.c + 2 * f.z + 4 * f.i + 8 * f.d + 16 * f.b + 32 * f.u + 64 * f.v + 128 * f.n

Bit(byte, weight) == (byte \div weight) % 2

Unpack(byte) ==
  [c |-> Bit(byte, 1), z |-> Bit(byte, 2), i |-> Bit(byte, 4), d |-> Bit(byte, 8),
   b |-> Bit(byte, 16), u |-> Bit(byte, 32), v |-> Bit(byte, 64), n |-> Bit(byte, 128)]

(* byte | weight, and byte & ~weight, for the weight of one bit.            *)
WithBit(byte, weight) == byte + weight * (1 - Bit(byte, weight))
SansBit(byte, weight) == byte - weight * Bit(byte, weight)

(* cpu_update_zn_flags                                                      *)
ZN(f, r) ==
  [f EXCEPT !.z = IF r = 0 THEN 1 ELSE 0, !.n = IF r > 127 THEN 1 ELSE 0]

-----------------------------------------------------------------------------
(* Pushes and pulls, as functions on memory and the stack pointer s.        *)

Down(s, n) == (s + StackSize - n) % StackSize

(* Slip: a word starts at the cell a byte would go to.                      *)
PushWordAtByte(m, s, w) ==
  [m EXCEPT ![s + StackSize] = w % PageBytes,
            ![s + StackSize + 1] = (w \div PageBytes) % PageBytes]

(* A word goes to the cells below and at the one a byte would go to.        *)
PushWord(m, s, w) ==
  [m EXCEPT ![s + StackSize - 1] = w % PageBytes,
            ![s + StackSize] = (w \div PageBytes) % PageBytes]

(* Slip: a byte goes to page zero.                                          *)
PushByteZeroPage(m, s, byte) == [m EXCEPT ![s % MemSize] = byte]

PushByte(m, s, byte) == [m EXCEPT ![(s + StackSize) % MemSize] = byte]

(* A pull of a word wraps the pointer; a pull of a byte does not.           *)
UpWord(s) == (s + 2) % StackSize
PulledWord(m, s) ==
  m[UpWord(s) + StackSize - 1] + PageBytes * m[UpWord(s) + StackSize]

UpByte(s) == s + 1
PulledByte(m, s) == m[(UpByte(s) + StackSize) % MemSize]

-----------------------------------------------------------------------------
(* The instructions                                                         *)

Go == pc' \in Code

LDA ==
  /\ A' \in Loaded /\ flags' = ZN(flags, A')
  /\ Go /\ UNCHANGED <<stack_point, P, X, mem, nmi>>

LDX ==
  /\ X' \in Loaded /\ flags' = ZN(flags, X')
  /\ Go /\ UNCHANGED <<stack_point, P, A, mem, nmi>>

SEC ==
  /\ flags' = [flags EXCEPT !.c = 1]
  /\ Go /\ UNCHANGED <<stack_point, P, A, X, mem, nmi>>

CLC ==
  /\ flags' = [flags EXCEPT !.c = 0]
  /\ Go /\ UNCHANGED <<stack_point, P, A, X, mem, nmi>>

CLI ==
  /\ flags' = [flags EXCEPT !.i = 0]
  /\ Go /\ UNCHANGED <<stack_point, P, A, X, mem, nmi>>

TXS ==
  /\ stack_point' = X
  /\ Go /\ UNCHANGED <<flags, P, A, X, mem, nmi>>

TSX ==
  /\ X' = stack_point /\ flags' = ZN(flags, X')
  /\ Go /\ UNCHANGED <<stack_point, P, A, mem, nmi>>

PHA ==
  /\ mem' = PushByte(mem, stack_point, A)
  /\ stack_point' = Down(stack_point, 1)
  /\ Go /\ UNCHANGED <<flags, P, A, X, nmi>>

PLA ==
  /\ stack_point < PullLimit
  /\ A' = PulledByte(mem, stack_point) /\ flags' = ZN(flags, A')
  /\ stack_point' = UpByte(stack_point)
  /\ Go /\ UNCHANGED <<P, X, mem, nmi>>

(* The byte pushed is P, which instructions that set flags do not update.   *)
PHP ==
  /\ mem' = PushByte(mem, stack_point, WithBit(WithBit(P, 16), 32))
  /\ stack_point' = Down(stack_point, 1)
  /\ Go /\ UNCHANGED <<flags, P, A, X, nmi>>

PLP ==
  /\ stack_point < PullLimit
  /\ P' = WithBit(SansBit(PulledByte(mem, stack_point), 16), 32)
  /\ flags' = Unpack(P')
  /\ stack_point' = UpByte(stack_point)
  /\ Go /\ UNCHANGED <<A, X, mem, nmi>>

(* The return address is that of the last byte of the instruction.  Bound:  *)
(* the program's calls are at Code or begin the handler.                    *)
JSR ==
  /\ pc \in Code \cup {Vector}
  /\ mem' = PushWord(mem, stack_point, (pc + 2) % WordSize)
  /\ stack_point' = Down(stack_point, 2)
  /\ Go /\ UNCHANGED <<flags, P, A, X, nmi>>

RTS ==
  /\ pc' = PulledWord(mem, stack_point) + 1
  /\ stack_point' = UpWord(stack_point)
  /\ UNCHANGED <<flags, P, A, X, mem, nmi>>

(* Slip: the status is taken to lie above the return address.               *)
RtiStatusLast ==
  /\ P' = WithBit(PulledByte(mem, UpWord(stack_point)), 32)
  /\ flags' = Unpack(P')
  /\ pc' = PulledWord(mem, stack_point)
  /\ stack_point' = UpByte(UpWord(stack_point))
  /\ UNCHANGED <<A, X, mem, nmi>>

RTI ==
  /\ P' = WithBit(PulledByte(mem, stack_point), 32)
  /\ flags' = Unpack(P')
  /\ pc' = PulledWord(mem, UpByte(stack_point))
  /\ stack_point' = UpWord(UpByte(stack_point))
  /\ UNCHANGED <<A, X, mem, nmi>>

(* BRK pushes a word, pulls it back, pulls one byte more and pushes a zero  *)
(* in its place; it does not jump.                                          *)
BRK ==
  /\ LET m == PushWord(mem, stack_point, pc + 1)
         s == UpByte(UpWord(Down(stack_point, 2)))
     IN  /\ mem' = PushByte(m, s, 0)
         /\ stack_point' = Down(s, 1)
  /\ Go /\ UNCHANGED <<flags, P, A, X, nmi>>

-----------------------------------------------------------------------------
(* The interrupt: next_irq requests it, at any time and again while it is   *)
(* still pending; nes6502_cpu_exec_interrupt enters the handler.            *)

RaiseNmi ==
  /\ nmi' = TRUE
  /\ UNCHANGED <<pc, stack_point, flags, P, A, X, mem>>

TakeNmi ==
  /\ nmi
  /\ flags' = [flags EXCEPT !.i = 1, !.u = 0]
  /\ P' = Pack(flags')
  /\ mem' = PushByte(PushWord(mem, stack_point, pc), Down(stack_point, 2), P')
  /\ stack_point' = Down(Down(stack_point, 2), 1)
  /\ pc' = Vector
  /\ nmi' = FALSE
  /\ UNCHANGED <<A, X>>

Instruction ==
  \/ LDA \/ LDX \/ SEC \/ CLC \/ CLI \/ TXS \/ TSX
  \/ PHA \/ PLA \/ PHP \/ PLP \/ JSR \/ RTS \/ RTI \/ BRK

(* A pc beyond the address space, where a return to the last address goes,  *)
(* fails an assertion of cpu.h and ends the process.                        *)
Next == pc < WordSize /\ (Instruction \/ RaiseNmi \/ TakeNmi)

Spec == Init /\ [][Next]_vars

-----------------------------------------------------------------------------
(* "Push Processor Status on Stack", above trans_PHP: the flags that a      *)
(* later PLP restores are those of the PHP.                                 *)
PhpPushesStatus ==
  [][PHP => LET pushed == Unpack(PulledByte(mem', stack_point'))
            IN  \A f \in {"c", "z", "i", "d", "v", "n"} : pushed[f] = flags[f]]_vars

=============================================================================
