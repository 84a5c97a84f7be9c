------------------------------ MODULE Blocks6502 ------------------------------
(***************************************************************************)
(* Translation blocks: translate.c turns instructions into blocks, says    *)
(* how each block ends, and leaves the program counter pc_w alone inside   *)
(* one.  The main loop looks for the interrupt between blocks, and a block *)
(* that is jumped to from another looks whether it should be left for that.*)
(* The loop, the jumps between blocks and that look are QEMU's.            *)
(***************************************************************************)
EXTENDS Integers, Sequences

CONSTANTS
  Text,        (* address -> [kind, next, to], as in Instructions6502       *)
  Start,       (* where do_cpu_reset starts the program                     *)
  Vector,      (* the interrupt's handler                                   *)
  Space,       (* addresses: 0x10000                                        *)
  PageSize,    (* TARGET_PAGE_BITS: 256                                     *)
  Bytes,       (* what BRK may find on the stack                            *)
  MaxDepth     (* bound: words on the stack when an interrupt is requested  *)

Kind == {"plain", "brk", "branch", "jump", "call", "return", "rti", "unknown"}
Instruction == [kind : Kind, next : Nat, to : Nat]

ASSUME TextAssumption ==
  /\ DOMAIN Text \subseteq Nat
  /\ \A a \in DOMAIN Text : Text[a] \in Instruction
  /\ PageSize \in Nat \ {0} /\ MaxDepth \in Nat

VARIABLES
  pc_w,        (* env->pc_w                                                 *)
  where,       (* "main" loop, at a block's "entry", "inside" it, "stopped" *)
  first,       (* tb->pc of the block                                       *)
  at,          (* the block's next instruction, pc_next of its translation  *)
  stack,       (* the words pushed                                          *)
  nmi          (* CPU_INTERRUPT_NMI of interrupt_request                    *)

vars == <<pc_w, where, first, at, stack, nmi>>

TypeOK ==
  /\ where \in {"main", "entry", "inside", "stopped"}
  /\ nmi \in BOOLEAN
  /\ where = "entry" => at = first

Push(word) == stack' = Append(stack, word)
Top == stack[Len(stack)]
Pop == stack # <<>> /\ stack' = SubSeq(stack, 1, Len(stack) - 1)

Init ==
  /\ pc_w = Start
  /\ where = "main"
  /\ first = pc_w /\ at = pc_w
  /\ stack = <<>>
  /\ nmi = FALSE

-----------------------------------------------------------------------------
(* Between blocks.                                                          *)

(* The next block: from the program counter, with whatever flags            *)
(* cpu_get_tb_cpu_state has left uninitialized; they choose between blocks  *)
(* of the same code.                                                        *)
GoTo(address) ==
  /\ address < Space
  /\ where' = "entry" /\ first' = address /\ at' = address

Main == where' = "main" /\ UNCHANGED <<first, at>>

FindBlock ==
  /\ where = "main" /\ ~nmi
  /\ GoTo(pc_w)
  /\ UNCHANGED <<pc_w, stack, nmi>>

(* nes6502_cpu_exec_interrupt, its stack as in Stack6502.                   *)
TakeNmi ==
  /\ where = "main" /\ nmi
  /\ Push(pc_w) /\ pc_w' = Vector
  /\ nmi' = FALSE
  /\ UNCHANGED <<where, first, at>>

(* The block looks at the request before its first instruction.             *)
EnterBlock ==
  /\ where = "entry" /\ ~nmi
  /\ where' = "inside"
  /\ UNCHANGED <<pc_w, first, at, stack, nmi>>

(* Slip: the jump is taken to have stored the program counter.              *)
SynchronizeNothing == UNCHANGED pc_w

(* nes6502_cpu_synchronize_from_tb: the jump has not stored the program     *)
(* counter.                                                                 *)
SynchronizeFromTb == pc_w' = first

LeaveBlock ==
  /\ where = "entry" /\ nmi
  /\ SynchronizeFromTb
  /\ Main /\ UNCHANGED <<stack, nmi>>

-----------------------------------------------------------------------------
(* How blocks end.                                                          *)

(* lookup_and_goto_ptr: to a block that has been translated, or to the main *)
(* loop.                                                                    *)
LookupAndGoto == Main \/ GoTo(pc_w')

(* gen_goto_tb: in the page of the block's first instruction, a jump that   *)
(* may have been patched to go to the next block, past the store.           *)
GotoTb(dest) ==
  \/ /\ dest \div PageSize = first \div PageSize
     /\ GoTo(dest) /\ UNCHANGED pc_w
  \/ /\ dest \div PageSize = first \div PageSize
     /\ pc_w' = dest /\ Main
  \/ /\ dest \div PageSize # first \div PageSize
     /\ pc_w' = dest /\ LookupAndGoto

-----------------------------------------------------------------------------
(* Inside a block: one instruction.                                         *)

Plain(i) ==
  /\ i.kind = "plain"
  /\ at' = i.next
  /\ UNCHANGED <<pc_w, where, first, stack>>

(* BRK pulls a word and a byte into the program counter, and goes on.       *)
Brk(i) ==
  /\ i.kind = "brk"
  /\ pc_w' \in Bytes
  /\ at' = i.next
  /\ UNCHANGED <<where, first, stack>>

(* branch_on_res ends the block both ways.                                  *)
Branch(i) ==
  /\ i.kind = "branch"
  /\ GotoTb(i.next) \/ GotoTb(i.to)
  /\ UNCHANGED stack

Jump(i) ==
  /\ i.kind = "jump"
  /\ pc_w' = i.to /\ LookupAndGoto
  /\ UNCHANGED stack

Call(i) ==
  /\ i.kind = "call"
  /\ pc_w' = i.to /\ LookupAndGoto
  /\ Push(i.next - 1)

Return(i) ==
  /\ i.kind = "return"
  /\ Pop
  /\ pc_w' = Top + 1 /\ LookupAndGoto

(* DISAS_EXIT: to the main loop.                                            *)
ReturnFromNmi(i) ==
  /\ i.kind = "rti"
  /\ Pop
  /\ pc_w' = Top /\ Main

(* helper_unsupported leaves the CPU's loop and nothing has stored the      *)
(* program counter.                                                         *)
Unsupported(i) ==
  /\ i.kind = "unknown"
  /\ where' = "stopped"
  /\ UNCHANGED <<pc_w, first, at, stack>>

RunInstruction ==
  /\ where = "inside" /\ at \in DOMAIN Text
  /\ LET i == Text[at]
     IN  \/ Plain(i) \/ Brk(i) \/ Branch(i) \/ Jump(i) \/ Call(i) \/ Return(i)
         \/ ReturnFromNmi(i) \/ Unsupported(i)
  /\ UNCHANGED nmi

(* tb_stop with DISAS_TOO_MANY: the translation may have reached its limit  *)
(* after any instruction that does not end the block.                       *)
TooMany ==
  /\ where = "inside" /\ at # first
  /\ GotoTb(at)
  /\ UNCHANGED <<stack, nmi>>

(* next_irq, from the main thread at any time.                              *)
RaiseNmi ==
  /\ Len(stack) < MaxDepth
  /\ nmi' = TRUE
  /\ UNCHANGED <<pc_w, where, first, at, stack>>

CPU == FindBlock \/ TakeNmi \/ EnterBlock \/ LeaveBlock \/ RunInstruction \/ TooMany

Next == CPU \/ RaiseNmi

Spec == Init /\ [][Next]_vars

-----------------------------------------------------------------------------
(* The next instruction, the one an interrupt must return to.               *)
Ip == IF where \in {"entry", "inside"} THEN at ELSE pc_w

Promise == INSTANCE Instructions6502 WITH ip <- Ip, stopped <- where = "stopped"

(* Run as blocks a program does what it does run one instruction after the  *)
(* other: wherever the blocks end, whichever jumps between them have been   *)
(* patched past the store of the program counter, and with what BRK leaves  *)
(* there, an interrupt returns to the instruction it kept from being next.  *)
ImplementsInstructions == Promise!IpSpec

=============================================================================
