------------------------------ MODULE Decode6502 ------------------------------
(***************************************************************************)
(* What the decoder of insn.decode and translate.c makes of a program: how *)
(* many operand bytes it takes for each opcode, and where it goes on.  A   *)
(* program is a sequence of opcodes, laid out from Origin as an assembler  *)
(* lays them out, run round and round.                                     *)
(***************************************************************************)
EXTENDS Branch6502, FiniteSets

CONSTANTS
  Origin,     (* where the program is laid                                  *)
  Count       (* instructions of the program                                *)

ASSUME LayoutAssumption == Origin \in Nat /\ Count \in Nat \ {0}

VARIABLES
  code,       (* the opcodes laid                                           *)
  pc,         (* pc_next, between two instructions                          *)
  stopped     (* an opcode has not been decoded                             *)

codeVars == <<code, pc, stopped>>

Opcode == 0 .. 255

-----------------------------------------------------------------------------
(* insn.decode, section by section: the opcodes by their operand bytes.     *)

Arithmetic ==
  [none |-> {\hCA, \h88, \hC8, \hE8},
   one  |-> {\hC9, \hC5, \hD5, \hC1, \hD1, \h29, \h25, \h35, \h21, \h31, \h69, \h65,
             \h75, \h61, \h71, \hC0, \hC4, \hC6, \hD6, \hE0, \hE4, \hE6, \hF6},
   two  |-> {\hCD, \hDD, \hD9, \h2D, \h3D, \h39, \h6D, \h7D, \h79, \hCC, \hCE, \hDE,
             \hEC, \hEE, \hFE}]

Jumps ==
  [none |-> {\h40, \h60},
   one  |-> {\h10, \h30, \h50, \h70, \h90, \hB0, \hD0, \hF0},
   two  |-> {\h20, \h4C, \h6C}]

(* Slip: LDA indexed by Y is taken to have one operand byte.                *)
MovesShort ==
  [none |-> {\h08, \h28, \h38, \h48, \h68, \h8A, \h98, \hA8, \hAA, \hBA},
   one  |-> {\hA9, \hA5, \hB5, \hA1, \hB1, \h85, \h95, \h81, \h91, \hA2, \hA6, \hB6,
             \hA0, \hA4, \hB4, \h09, \h05, \h15, \h01, \h11, \h49, \h45, \h55, \h41,
             \h51, \h84, \h94, \h86, \h96, \hE9, \hE5, \hF5, \hE1, \hF1, \hB9},
   two  |-> {\hAD, \hBD, \h8D, \h9D, \h99, \hAE, \hBE, \hAC, \hBC, \h0D, \h1D,
             \h19, \h4D, \h5D, \h59, \h8C, \h8E, \hED, \hFD, \hF9}]

Moves ==
  [none |-> {\h08, \h28, \h38, \h48, \h68, \h8A, \h98, \hA8, \hAA, \hBA},
   one  |-> {\hA9, \hA5, \hB5, \hA1, \hB1, \h85, \h95, \h81, \h91, \hA2, \hA6, \hB6,
             \hA0, \hA4, \hB4, \h09, \h05, \h15, \h01, \h11, \h49, \h45, \h55, \h41,
             \h51, \h84, \h94, \h86, \h96, \hE9, \hE5, \hF5, \hE1, \hF1},
   two  |-> {\hAD, \hBD, \hB9, \h8D, \h9D, \h99, \hAE, \hBE, \hAC, \hBC, \h0D, \h1D,
             \h19, \h4D, \h5D, \h59, \h8C, \h8E, \hED, \hFD, \hF9}]

(* Slip: SEI is left out.                                                   *)
ShiftsButSei ==
  [none |-> {\h0A, \h18, \h2A, \h4A, \h58, \h6A, \hB8, \hF8, \hEA, \hD8, \h9A, \h00},
   one  |-> {\h06, \h16, \h24, \h26, \h36, \h46, \h56, \h66, \h76},
   two  |-> {\h0E, \h1E, \h2C, \h2E, \h3E, \h4E, \h5E, \h6E, \h7E}]

Shifts ==
  [none |-> {\h0A, \h18, \h2A, \h4A, \h58, \h6A, \hB8, \hF8, \hEA, \h78, \hD8, \h9A, \h00},
   one  |-> {\h06, \h16, \h24, \h26, \h36, \h46, \h56, \h66, \h76},
   two  |-> {\h0E, \h1E, \h2C, \h2E, \h3E, \h4E, \h5E, \h6E, \h7E}]

(* Undocumented opcodes: all but the subtraction at FF only take their      *)
(* operands.                                                                *)
Extended ==
  [none |-> {},
   one  |-> {\h07, \h17, \h03, \h13, \h27, \h37, \h23, \h33, \h47, \h57, \h43, \h53,
             \h67, \h77, \h63, \h73},
   two  |-> {\h0F, \h1F, \h1B, \h2F, \h3F, \h3B, \h4F, \h5F, \h5B, \h6F, \h7F, \h7B,
             \hFF}]

(* Those named NOP, whose handlers do nothing.                              *)
NotImplemented ==
  [none |-> {},
   one  |-> {\h04, \h44, \h64, \h80, \h82, \h89, \hC2, \hE2},
   two  |-> {\h0C, \h1C, \h3C, \h5C, \h7C, \hDC, \hFC}]

Sections == {Arithmetic, Jumps, Moves, Shifts, Extended, NotImplemented}

Defined == UNION {section.none \cup section.one \cup section.two : section \in Sections}

Length(op) ==
  IF \E section \in Sections : op \in section.none THEN 1
  ELSE IF \E section \in Sections : op \in section.one THEN 2 ELSE 3

Branch ==
  [op \in Jumps.one |->
     CASE op = \h10 -> "BPL" [] op = \h30 -> "BMI" [] op = \h50 -> "BVC"
       [] op = \h70 -> "BVS" [] op = \h90 -> "BCC" [] op = \hB0 -> "BCS"
       [] op = \hD0 -> "BNE" [] op = \hF0 -> "BEQ"]

Leaving == Jumps.none \cup Jumps.two   (* RTI, RTS, JSR and the two JMPs     *)

-----------------------------------------------------------------------------
(* The assembler: how the processor's manual says instructions are laid.    *)

Operands(op) ==
  LET row == op \div 16
      column == op % 16
  IN  CASE column = 0 /\ row % 2 = 0 /\ row < 8 -> IF row = 2 THEN 2 ELSE 0
        [] column \in {8, 10}                   -> 0
        [] column \in {9, 11} /\ row % 2 = 1    -> 2
        [] column \in 12 .. 15                  -> 2
        [] OTHER                                -> 1

(* The opcodes of the manual, by their high three, middle three and low two *)
(* bits.                                                                    *)
Documented ==
  {op \in Opcode :
    LET a == op \div 32
        b == (op \div 4) % 8
    IN  \/ /\ op % 4 = 0
           /\ \/ b \in {2, 4, 6}
              \/ b = 0 /\ a # 4
              \/ b = 1 /\ a \notin {0, 2, 3}
              \/ b = 3 /\ a # 0
              \/ b = 5 /\ a \in {4, 5}
              \/ b = 7 /\ a = 5
        \/ op % 4 = 1 /\ op # \h89
        \/ /\ op % 4 = 2
           /\ \/ b \in {1, 2, 3, 5}
              \/ b = 0 /\ a = 5
              \/ b = 6 /\ a \in {4, 5}
              \/ b = 7 /\ a # 4}

Laid(i) ==
  LET laid[j \in 1 .. Count + 1] ==
        IF j = 1 THEN Origin ELSE laid[j - 1] + 1 + Operands(code[j - 1])
  IN  laid[i]

Starts == {Laid(i) : i \in 1 .. Count}
End == Laid(Count + 1)

-----------------------------------------------------------------------------
CodeInit ==
  /\ code \in [1 .. Count -> Opcode]
  /\ pc = Origin
  /\ stopped = FALSE

(* translate: the instruction laid at pc.                                   *)
Straight(i) ==
  /\ code[i] \in Defined \ (DOMAIN Branch \cup Leaving)
  /\ pc' = pc + Length(code[i])
  /\ UNCHANGED <<code, stopped>>

(* The assembler computes the operand of a branch, which must reach; the    *)
(* flags are as the program left them.                                      *)
BranchTo(i, target) ==
  LET next == pc + Length(code[i])
      imm == (target - (pc + 2)) % 256
  IN  /\ code[i] \in DOMAIN Branch
      /\ target - (pc + 2) \in -128 .. 127
      /\ \E f \in [c : {0, 1}, z : {0, 1}, v : {0, 1}, n : {0, 1}] :
           pc' = IF Taken(Branch[code[i]], f) THEN Relative(imm, next) ELSE next
      /\ UNCHANGED <<code, stopped>>

Leave(i, target) ==
  /\ code[i] \in Leaving
  /\ pc' = target
  /\ UNCHANGED <<code, stopped>>

(* helper_unsupported leaves the CPU loop with EXCP_DEBUG.                  *)
Stop(i) ==
  /\ code[i] \notin Defined
  /\ stopped' = TRUE
  /\ UNCHANGED <<code, pc>>

Again == pc = End /\ pc' = Origin /\ UNCHANGED <<code, stopped>>

CodeNext ==
  /\ ~stopped
  /\ \/ \E i \in 1 .. Count :
          /\ pc = Laid(i)
          /\ \/ Straight(i)
             \/ \E target \in Starts : (BranchTo(i, target) \/ Leave(i, target))
             \/ Stop(i)
     \/ Again

-----------------------------------------------------------------------------
(* The emulator decodes at the addresses where the assembler laid           *)
(* instructions, and nowhere else, whatever the instructions, the           *)
(* undocumented ones included, and whichever branches are taken: one wrong  *)
(* length in insn.decode and operands are run as opcodes.  A program of     *)
(* documented instructions runs on.                                         *)
Synchronised ==
  /\ code # <<>> => pc \in Starts \cup {End}
  /\ stopped => \E i \in 1 .. Count : pc = Laid(i) /\ code[i] \notin Documented

=============================================================================
