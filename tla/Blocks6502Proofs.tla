--------------------------- MODULE Blocks6502Proofs ---------------------------
(***************************************************************************)
(* Blocks implement instructions, for every program text and every way of  *)
(* cutting it into blocks and patching the jumps between them.             *)
(***************************************************************************)
EXTENDS Blocks6502, TLAPS

-----------------------------------------------------------------------------
(* Jumps.                                                                   *)

(* A jump that ends a block makes its target the next instruction, whether  *)
(* it is patched, stores the program counter or looks the block up.         *)
LEMMA GotoTbGoes ==
  ASSUME NEW dest, GotoTb(dest)
  PROVE  Ip' = dest /\ where' \in {"main", "entry"} /\ (where' = "entry" => at' = first')
BY DEF GotoTb, GoTo, Main, LookupAndGoto, Ip

LEMMA LookupGoes ==
  ASSUME NEW dest, pc_w' = dest, LookupAndGoto
  PROVE  Ip' = dest /\ where' \in {"main", "entry"} /\ (where' = "entry" => at' = first')
BY DEF GoTo, Main, LookupAndGoto, Ip

-----------------------------------------------------------------------------
(* A block that is about to be entered has run none of its instructions.    *)
THEOREM TypeCorrect == Spec => []TypeOK
<1>1. Init => TypeOK
  BY DEF Init, TypeOK
<1>2. TypeOK /\ [Next]_vars => TypeOK'
  <2> SUFFICES ASSUME TypeOK, [Next]_vars
               PROVE  TypeOK'
    OBVIOUS
  <2>1. CASE FindBlock \/ TakeNmi \/ EnterBlock \/ LeaveBlock \/ RaiseNmi
    BY <2>1 DEF FindBlock, TakeNmi, EnterBlock, LeaveBlock, RaiseNmi, GoTo, Main, TypeOK
  <2>2. CASE RunInstruction
    <3> DEFINE i == Text[at]
    <3>1. where = "inside" /\ nmi' = nmi
      BY <2>2 DEF RunInstruction
    <3>2. CASE Plain(i) \/ Brk(i) \/ Unsupported(i)
      BY <3>1, <3>2 DEF Plain, Brk, Unsupported, TypeOK
    <3>3. CASE Branch(i)
      BY <3>1, <3>3, GotoTbGoes DEF Branch, TypeOK
    <3>4. CASE Jump(i) \/ Call(i) \/ Return(i)
      BY <3>1, <3>4, LookupGoes DEF Jump, Call, Return, TypeOK
    <3>5. CASE ReturnFromNmi(i)
      BY <3>1, <3>5 DEF ReturnFromNmi, Main, TypeOK
    <3>6. QED
      BY <2>2, <3>2, <3>3, <3>4, <3>5 DEF RunInstruction
  <2>3. CASE TooMany
    BY <2>3, GotoTbGoes DEF TooMany, TypeOK
  <2>4. CASE UNCHANGED vars
    BY <2>4 DEF vars, TypeOK
  <2>5. QED
    BY <2>1, <2>2, <2>3, <2>4 DEF Next, CPU
<1>3. QED
  BY <1>1, <1>2, PTL DEF Spec

-----------------------------------------------------------------------------
(* Refinement, action by action: to find, enter, leave or cut a block is no *)
(* step of the program's.                                                   *)

Stutter == Ip' = Ip /\ UNCHANGED <<stack, nmi>> /\ (where' = "stopped" <=> where = "stopped")

LEMMA StutterIsStutter == Stutter => UNCHANGED Promise!ipVars
BY DEF Stutter, Promise!ipVars

LEMMA BetweenBlocks ==
  ASSUME TypeOK, FindBlock \/ EnterBlock \/ LeaveBlock \/ TooMany
  PROVE  Stutter
<1>1. CASE FindBlock
  BY <1>1 DEF FindBlock, GoTo, Stutter, Ip
<1>2. CASE EnterBlock
  BY <1>2 DEF EnterBlock, Stutter, Ip
<1>3. CASE LeaveBlock
  BY <1>3 DEF LeaveBlock, SynchronizeFromTb, Main, Stutter, Ip, TypeOK
<1>4. CASE TooMany
  <2>1. Ip = at /\ where = "inside"
    BY <1>4 DEF TooMany, Ip
  <2>2. QED
    BY <1>4, <2>1, GotoTbGoes DEF TooMany, Stutter
<1>5. QED
  BY <1>1, <1>2, <1>3, <1>4

LEMMA InterruptSimulates ==
  ASSUME TakeNmi
  PROVE  Promise!Interrupt
BY DEF TakeNmi, Promise!Interrupt, Push, Promise!Push, Ip

LEMMA RequestSimulates ==
  ASSUME RaiseNmi
  PROVE  Promise!Request
BY DEF RaiseNmi, Promise!Request, Ip

LEMMA InstructionSimulates ==
  ASSUME RunInstruction
  PROVE  Promise!Step \/ Promise!Undecoded
<1> DEFINE i == Text[at]
<1>1. /\ where = "inside" /\ at \in DOMAIN Text /\ Ip = at
      /\ nmi' = nmi
  BY DEF RunInstruction, Ip
<1>2. CASE Plain(i)
  <2>1. Ip' = i.next /\ where' = "inside"
    BY <1>1, <1>2 DEF Plain, Ip
  <2>2. Promise!Straight(i)
    BY <1>2, <2>1 DEF Plain, Promise!Straight
  <2>3. QED
    BY <1>1, <2>1, <2>2 DEF Promise!Step
<1>3. CASE Brk(i)
  <2>1. Ip' = i.next /\ where' = "inside"
    BY <1>1, <1>3 DEF Brk, Ip
  <2>2. Promise!Straight(i)
    BY <1>3, <2>1 DEF Brk, Promise!Straight
  <2>3. QED
    BY <1>1, <2>1, <2>2 DEF Promise!Step
<1>4. CASE Branch(i)
  <2>1. Ip' \in {i.next, i.to} /\ where' # "stopped"
    BY <1>4, GotoTbGoes DEF Branch
  <2>2. Promise!Branch(i)
    BY <1>4, <2>1 DEF Branch, Promise!Branch
  <2>3. QED
    BY <1>1, <2>1, <2>2 DEF Promise!Step
<1>5. CASE Jump(i)
  <2>1. Ip' = i.to /\ where' # "stopped"
    BY <1>5, LookupGoes DEF Jump
  <2>2. Promise!Jump(i)
    BY <1>5, <2>1 DEF Jump, Promise!Jump
  <2>3. QED
    BY <1>1, <2>1, <2>2 DEF Promise!Step
<1>6. CASE Call(i)
  <2>1. Ip' = i.to /\ where' # "stopped"
    BY <1>6, LookupGoes DEF Call
  <2>2. Promise!Call(i)
    BY <1>6, <2>1 DEF Call, Promise!Call, Push, Promise!Push
  <2>3. QED
    BY <1>1, <2>1, <2>2 DEF Promise!Step
<1>7. CASE Return(i)
  <2>1. Ip' = Top + 1 /\ where' # "stopped"
    BY <1>7, LookupGoes DEF Return
  <2>2. Promise!Return(i)
    BY <1>7, <2>1 DEF Return, Promise!Return, Pop, Promise!Pop, Top, Promise!Top
  <2>3. QED
    BY <1>1, <2>1, <2>2 DEF Promise!Step
<1>8. CASE ReturnFromNmi(i)
  <2>1. Ip' = Top /\ where' = "main"
    BY <1>8 DEF ReturnFromNmi, Main, Ip
  <2>2. Promise!ReturnFromNmi(i)
    BY <1>8, <2>1
    DEF ReturnFromNmi, Promise!ReturnFromNmi, Pop, Promise!Pop, Top, Promise!Top
  <2>3. QED
    BY <1>1, <2>1, <2>2 DEF Promise!Step
<1>9. CASE Unsupported(i)
  BY <1>1, <1>9 DEF Unsupported, Promise!Undecoded
<1>10. QED
  BY <1>2, <1>3, <1>4, <1>5, <1>6, <1>7, <1>8, <1>9 DEF RunInstruction

(* A program cut into blocks does what it does one instruction at a time:   *)
(* translate.c, its tb_stop and nes6502_cpu_synchronize_from_tb leave the   *)
(* program counter right wherever the interrupt may look at it.             *)
THEOREM Refinement == Spec => ImplementsInstructions
<1>1. Init => Promise!IpInit
  BY DEF Init, Promise!IpInit, Ip
<1>2. TypeOK /\ [Next]_vars => [Promise!IpNext]_Promise!ipVars
  <2> SUFFICES ASSUME TypeOK, [Next]_vars
               PROVE  [Promise!IpNext]_Promise!ipVars
    OBVIOUS
  <2>1. CASE FindBlock \/ EnterBlock \/ LeaveBlock \/ TooMany
    BY <2>1, BetweenBlocks, StutterIsStutter
  <2>2. CASE TakeNmi
    BY <2>2, InterruptSimulates DEF Promise!IpNext
  <2>3. CASE RaiseNmi
    BY <2>3, RequestSimulates DEF Promise!IpNext
  <2>4. CASE RunInstruction
    BY <2>4, InstructionSimulates DEF Promise!IpNext
  <2>5. CASE UNCHANGED vars
    BY <2>5, StutterIsStutter DEF vars, Stutter, Ip
  <2>6. QED
    BY <2>1, <2>2, <2>3, <2>4, <2>5 DEF Next, CPU
<1>3. QED
  BY <1>1, <1>2, TypeCorrect, PTL DEF Spec, ImplementsInstructions, Promise!IpSpec

=============================================================================
